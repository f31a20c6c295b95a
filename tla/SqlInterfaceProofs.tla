------------------------- MODULE SqlInterfaceProofs -------------------------
(***************************************************************************)
(* Proofs about queries and transactions over the shared connection, for   *)
(* any number of threads, operations, retries and connections, and with    *)
(* every failure that SqlInterface models.                                 *)
(***************************************************************************)
EXTENDS SqlInterface, TLAPS

InQuery == {"check", "cursor", "execute", "finish", "reconnect", "recover"}
InTrans == {"enter", "statement", "commit", "exit"}
UsesCursor == {"execute", "finish", "statement", "commit"}
Holding == {"finish", "statement", "commit", "recover", "exit"}

Conns == [state : {"none", "open", "severed", "closed"}, aborted : BOOLEAN, pending : SUBSET Writes]
ThreadStates ==
  [op : {"none", "write", "read", "transaction"}, n : 0 .. MaxOps, pc : {"idle"} \cup InQuery \cup InTrans,
   cur : 0 .. MaxConns, retries : Int, part : 0 .. 2, unbound : BOOLEAN]

ConnType ==
  /\ conn \in [1 .. MaxConns -> Conns]
  /\ current \in 1 .. MaxConns
  /\ applied \in [Writes -> Nat]

ThreadOK(th) ==
  /\ th.pc # "idle" => th.n >= 1
  /\ th.pc \in InQuery => th.op \in {"write", "read"} /\ th.part = 0
  /\ th.pc = "enter" => th.part = 1
  /\ th.pc = "statement" => th.part \in {1, 2}
  /\ th.pc = "commit" => th.part = 2
  /\ th.pc \in InTrans => th.op = "transaction"
  /\ th.pc \in UsesCursor => th.cur \in 1 .. MaxConns

ThreadType ==
  /\ thread \in [Threads -> ThreadStates]
  /\ \A t \in Threads : ThreadOK(thread[t])

(* what the current connection holds, and what of it a commit would now    *)
(* put into the database                                                   *)
Pend == conn[current].pending
Aborted == conn[current].aborted
Open == conn[current].state = "open"
Live == IF Open THEN Pend ELSE {}

(* the writes of t's operation that have been executed *)
Done(t) ==
  {w \in Own(t) : /\ w[2] = thread[t].n
                  /\ \/ At(t, "finish") /\ thread[t].op = "write" /\ w[3] = 0
                     \/ At(t, "statement") /\ w[3] = 1 /\ thread[t].part = 2
                     \/ At(t, "commit") /\ w[3] \in {1, 2}}

(* What has been executed but not committed belongs to an operation that   *)
(* will still commit it or roll it back.                                   *)
LiveOK(w) ==
  w \in Live =>
    /\ w[2] = thread[w[1]].n
    /\ thread[w[1]].pc \in Holding
    /\ applied[w] > 0 => w \in unsure \cup exposed

OnceOK(w) ==
  /\ w[2] > thread[w[1]].n => applied[w] = 0
  /\ applied[w] > 0 /\ w \notin unsure \cup exposed =>
       /\ applied[w] = 1
       /\ \/ w[2] < thread[w[1]].n
          \/ w[2] = thread[w[1]].n /\ thread[w[1]].pc \in {"idle", "recover"}

(* A cursor is of the connection that will be asked to commit, or its      *)
(* operation was disturbed.                                                *)
CursorOK(w) ==
  w[2] = thread[w[1]].n /\ thread[w[1]].pc \in UsesCursor =>
    thread[w[1]].cur = current \/ w \in disturbed

DoneOK(w) ==
  w \in Done(w[1]) =>
    \/ w \in disturbed
    \/ applied[w] > 0
    \/ w \in Pend /\ ~ Aborted

AckedOK(w) == w \in acked \ disturbed => applied[w] > 0

WriteInv(w) == LiveOK(w) /\ OnceOK(w) /\ CursorOK(w) /\ DoneOK(w) /\ AckedOK(w)

(* A failed statement aborts a transaction that its thread then ends.      *)
AbortedOK ==
  Open /\ Aborted =>
    \E t \in Threads : thread[t].pc \in {"recover", "exit"}

(* The two writes of a transaction: executed and waiting for the commit,   *)
(* or already committed by another thread, the first no later than the     *)
(* second.                                                                 *)
Held(w) == w \in Pend /\ ~ Aborted /\ applied[w] = 0
Early(w) == w \notin Live /\ applied[w] = 1 /\ w \in exposed
Untouched(w) == w \notin Live /\ applied[w] = 0
Settled(first, second) ==
  \/ applied[first] = applied[second]
  \/ applied[second] = 0 /\ applied[first] = 1 /\ first \in exposed

PairInv(t, n) ==
  LET first == <<t, n, 1>>  second == <<t, n, 2>>
  IN  \/ n > thread[t].n
      \/ first \in disturbed \/ second \in disturbed
      \/ (n < thread[t].n \/ At(t, "idle")) /\ Settled(first, second)
      \/ /\ n = thread[t].n
         /\ \/ thread[t].pc \in InQuery \cup {"enter"} /\ Untouched(first) /\ Untouched(second)
            \/ At(t, "statement") /\ thread[t].part = 1 /\ Untouched(first) /\ Untouched(second)
            \/ At(t, "statement") /\ thread[t].part = 2 /\ (Held(first) \/ Early(first)) /\ Untouched(second)
            \/ At(t, "commit") /\ Held(first) /\ Held(second)
            \/ At(t, "commit") /\ Early(first) /\ (Held(second) \/ Early(second))
            \/ /\ At(t, "exit") /\ Settled(first, second)
               /\ first \in Live \/ second \in Live => Aborted

WritesInv == \A w \in Writes : WriteInv(w)
PairsInv == \A t \in Threads, n \in 1 .. MaxOps : PairInv(t, n)
Inv == ConnType /\ ThreadType /\ acked \subseteq Writes /\ WritesInv /\ AbortedOK /\ PairsInv
-----------------------------------------------------------------------------
LEMMA WriteFacts ==
  /\ \A w \in Writes : /\ w[1] \in Threads /\ w[2] \in 1 .. MaxOps /\ w[3] \in 0 .. 2
                       /\ w = <<w[1], w[2], w[3]>>
  /\ \A t \in Threads, n \in 1 .. MaxOps, p \in 0 .. 2 : <<t, n, p>> \in Writes
BY DEF Writes

LEMMA OwnFacts ==
  /\ \A t \in Threads : Own(t) \subseteq Writes
  /\ \A t \in Threads : \A w \in Own(t) : w[1] = t /\ w[2] \in 1 .. MaxOps /\ w[3] \in 0 .. 2
  /\ \A t \in Threads, n \in 1 .. MaxOps, p \in 0 .. 2 : <<t, n, p>> \in Own(t)
  /\ \A t, u \in Threads, n \in 1 .. MaxOps, p \in 0 .. 2 : u # t => <<u, n, p>> \notin Own(t)
<1>1. \A t, u \in Threads, n \in 1 .. MaxOps, p \in 0 .. 2 : <<u, n, p>>[1] = u
  OBVIOUS
<1>. QED  BY <1>1, WriteFacts DEF Own

LEMMA NewConnFacts ==
  /\ NewConn \in Conns /\ NewConn.pending = {} /\ NewConn.aborted = FALSE /\ NewConn.state = "open"
  /\ [NewConn EXCEPT !.state = "closed"] \in Conns /\ [NewConn EXCEPT !.state = "closed"].pending = {}
  /\ [NewConn EXCEPT !.state = "closed"].aborted = FALSE
  /\ [NewConn EXCEPT !.state = "closed"].state = "closed"
  /\ NoConn \in Conns
BY DEF NewConn, NoConn, Conns

(* What the steps of psycopg2 and the database do to the connection that   *)
(* the next commit will use, and to the database.                          *)
AppliedOf(done) == [w \in Writes |-> IF w \in done THEN applied[w] + 1 ELSE applied[w]]

LEMMA ConnFacts ==
  ASSUME ConnType
  PROVE  Live \subseteq Pend /\ Pend \subseteq Writes /\ (Open => Live = Pend) /\ (~ Open => Live = {})
         /\ Aborted \in BOOLEAN
BY DEF ConnType, Conns, Live, Pend, Open, Aborted

LEMMA CommittedFacts ==
  ASSUME ConnType, NEW t \in Threads, Committed(t), current' = current
  PROVE  /\ ConnType' /\ Live' = {} /\ Pend' = {} /\ ~ Aborted' /\ Open /\ Live = Pend
         /\ \E done \in SUBSET Pend :
              /\ done = IF Aborted THEN {} ELSE Pend
              /\ applied' = AppliedOf(done) /\ exposed' = exposed \cup (done \ Own(t))
<1>1. /\ Open /\ conn' = [conn EXCEPT ![current] = NewConn]
      /\ \E done \in SUBSET Pend :
              /\ done = IF Aborted THEN {} ELSE Pend
              /\ applied' = AppliedOf(done) /\ exposed' = exposed \cup (done \ Own(t))
  BY DEF Committed, Open, Pend, Aborted, AppliedOf
<1>2. conn' \in [1 .. MaxConns -> Conns] /\ conn'[current] = NewConn
  BY <1>1, NewConnFacts DEF ConnType
<1>3. applied' \in [Writes -> Nat]
  BY <1>1 DEF ConnType, AppliedOf
<1>. QED  BY <1>1, <1>2, <1>3, NewConnFacts, ConnFacts DEF ConnType, Live, Pend, Aborted

LEMMA CommitSeveredFacts ==
  ASSUME ConnType, NEW t \in Threads, CommitSevered(t), current' = current
  PROVE  /\ ConnType' /\ Live' = {} /\ Pend' = {} /\ ~ Aborted' /\ ~ Open'
         /\ disturbed' = disturbed \cup (Pend \ Own(t))
         /\ \/ UNCHANGED <<applied, unsure>>
            \/ /\ Live = Pend /\ ~ Aborted
               /\ applied' = AppliedOf(Pend) /\ unsure' = unsure \cup Pend
<1>1. /\ conn' = [conn EXCEPT ![current] = [NewConn EXCEPT !.state = "closed"]]
      /\ disturbed' = disturbed \cup (Pend \ Own(t))
      /\ \/ UNCHANGED <<applied, unsure>>
         \/ /\ Open /\ ~ Aborted
            /\ applied' = AppliedOf(Pend) /\ unsure' = unsure \cup Pend
  BY DEF CommitSevered, Open, Pend, Aborted, AppliedOf
<1>2. conn' \in [1 .. MaxConns -> Conns] /\ conn'[current] = [NewConn EXCEPT !.state = "closed"]
  BY <1>1, NewConnFacts DEF ConnType
<1>3. applied' \in [Writes -> Nat]
  BY <1>1 DEF ConnType, AppliedOf
<1>. QED  BY <1>1, <1>2, <1>3, NewConnFacts, ConnFacts DEF ConnType, Live, Pend, Aborted, Open

LEMMA RolledBackFacts ==
  ASSUME ConnType, NEW t \in Threads, RolledBack(t), UNCHANGED <<current, applied>>
  PROVE  /\ ConnType' /\ Live' = {} /\ Pend' = {} /\ ~ Aborted'
         /\ disturbed' = disturbed \cup (Pend \ Own(t))
<1>1. /\ conn' = [conn EXCEPT ![current] = NewConn]
      /\ disturbed' = disturbed \cup (Pend \ Own(t))
  BY DEF RolledBack, Pend
<1>2. conn' \in [1 .. MaxConns -> Conns] /\ conn'[current] = NewConn
  BY <1>1, NewConnFacts DEF ConnType
<1>. QED  BY <1>1, <1>2, NewConnFacts DEF ConnType, Live, Pend, Aborted

LEMMA FailsFacts ==
  ASSUME ConnType, NEW t \in Threads, NEW c \in 1 .. MaxConns, StatementFails(t, c),
         UNCHANGED <<current, applied>>
  PROVE  /\ ConnType' /\ Live' = Live /\ Pend' = Pend /\ disturbed \subseteq disturbed'
         /\ IF c = current THEN Aborted' /\ disturbed' = disturbed \cup (Pend \ Own(t))
            ELSE Aborted' = Aborted
<1>1. /\ conn' = [conn EXCEPT ![c].aborted = TRUE]
      /\ disturbed' = disturbed \cup (conn[c].pending \ Own(t))
  BY DEF StatementFails
<1>2. /\ conn' \in [1 .. MaxConns -> Conns]
      /\ conn'[current].state = conn[current].state /\ conn'[current].pending = conn[current].pending
      /\ conn'[current].aborted = IF c = current THEN TRUE ELSE conn[current].aborted
  BY <1>1 DEF ConnType, Conns
<1>. QED  BY <1>1, <1>2 DEF ConnType, Live, Pend, Aborted, Open

LEMMA DropFacts ==
  ASSUME ConnType, NEW c \in 1 .. MaxConns, NEW s \in {"severed", "closed"},
         conn' = [conn EXCEPT ![c].state = s], UNCHANGED <<current, applied>>
  PROVE  /\ ConnType' /\ Live' \subseteq Live /\ Pend' = Pend /\ Aborted' = Aborted
         /\ Open' => Open /\ c # current
         /\ c = current => Live' = {}
<1>1. /\ conn' \in [1 .. MaxConns -> Conns]
      /\ conn'[current].state = IF c = current THEN s ELSE conn[current].state
      /\ conn'[current].pending = conn[current].pending
      /\ conn'[current].aborted = conn[current].aborted
  BY DEF ConnType, Conns
<1>. QED  BY <1>1 DEF ConnType, Live, Pend, Aborted, Open

LEMMA ExecutedFacts ==
  ASSUME ConnType, ThreadType, NEW t \in Threads, NEW c \in 1 .. MaxConns, Executed(t, c),
         Statement(t) \in Writes, UNCHANGED <<current, applied>>
  PROVE  /\ ConnType' /\ Aborted' = Aborted /\ Open' = Open
         /\ IF c = current
            THEN /\ ~ Aborted /\ Live = Pend /\ Live' = Pend'
                 /\ Pend' = IF thread[t].op = "read" THEN Pend ELSE Pend \cup {Statement(t)}
            ELSE Live' = Live /\ Pend' = Pend
<1>1. /\ conn[c].state = "open" /\ ~ conn[c].aborted
      /\ conn' = [conn EXCEPT ![c].pending =
           IF thread[t].op = "read" THEN conn[c].pending ELSE conn[c].pending \cup {Statement(t)}]
  BY DEF Executed
<1>2. /\ conn' \in [1 .. MaxConns -> Conns]
      /\ conn'[current].state = conn[current].state /\ conn'[current].aborted = conn[current].aborted
      /\ conn'[current].pending =
           IF c = current /\ thread[t].op # "read"
           THEN conn[current].pending \cup {Statement(t)} ELSE conn[current].pending
  BY <1>1 DEF ConnType, Conns
<1>. QED  BY <1>1, <1>2 DEF ConnType, Live, Pend, Aborted, Open

LEMMA ConnectFacts ==
  ASSUME ConnType, NEW t \in Threads, Connect(t), applied' = applied
  PROVE  /\ ConnType'
         /\ \/ UNCHANGED <<conn, current, disturbed>>
            \/ /\ Live' = {} /\ Pend' = {} /\ ~ Aborted'
               /\ disturbed' = disturbed \cup UnderWay(t)
<1>1. CASE UNCHANGED <<conn, current, disturbed>>
  BY <1>1 DEF ConnType
<1>2. CASE \E c \in DOMAIN conn : /\ conn' = [conn EXCEPT ![c] = NewConn] /\ current' = c
                                  /\ disturbed' = disturbed \cup UnderWay(t)
  <2>1. PICK c \in 1 .. MaxConns : /\ conn' = [conn EXCEPT ![c] = NewConn] /\ current' = c
                                   /\ disturbed' = disturbed \cup UnderWay(t)
    BY <1>2 DEF ConnType
  <2>2. conn' \in [1 .. MaxConns -> Conns] /\ conn'[c] = NewConn
    BY <2>1, NewConnFacts DEF ConnType
  <2>. QED  BY <2>1, <2>2, NewConnFacts DEF ConnType, Live, Pend, Aborted
<1>. QED  BY <1>1, <1>2 DEF Connect
-----------------------------------------------------------------------------
(* How a step looks to the writes F of other threads: what is pending      *)
(* stays, or is committed, or is gone.                                     *)
Grows == disturbed \subseteq disturbed' /\ exposed \subseteq exposed' /\ unsure \subseteq unsure'

Keep(F) ==
  /\ current' = current /\ \A w \in F : applied'[w] = applied[w]
  /\ Pend' \cap F = Pend \cap F /\ Live' \cap F \subseteq Live
  /\ Aborted' = Aborted \/ (Aborted' /\ Pend \cap F \subseteq disturbed')

Flush(F) ==
  /\ current' = current /\ ~ Aborted /\ Live' = {} /\ Live = Pend
  /\ \A w \in F : IF w \in Pend THEN applied'[w] = applied[w] + 1 /\ w \in exposed'
                                ELSE applied'[w] = applied[w]

Clear(F) ==
  /\ Live' = {}
  /\ Aborted \/ Pend \cap F \subseteq disturbed'
  /\ \/ current' = current
     \/ \A w \in F : w[2] = thread[w[1]].n /\ thread[w[1]].pc \in UsesCursor /\ thread[w[1]].cur = current
                       => w \in disturbed'
  /\ \A w \in F : \/ applied'[w] = applied[w]
                  \/ /\ w \in Live /\ applied'[w] = applied[w] + 1
                     /\ w \in unsure' /\ w \in disturbed'

LEMMA ForeignWrites ==
  ASSUME ConnType, NEW w \in Writes, NEW F \in SUBSET Writes, w \in F, WriteInv(w),
         thread'[w[1]] = thread[w[1]], w \in acked' => w \in acked, Grows,
         Keep(F) \/ Flush(F) \/ Clear(F)
  PROVE  WriteInv(w)'
<1>. DEFINE th == thread[w[1]]
<1>1. applied[w] \in Nat
  BY DEF ConnType
<1>2. applied'[w] \in Nat /\ applied'[w] >= applied[w]
  BY <1>1 DEF Keep, Flush, Clear
<1>3. LiveOK(w)'
  <2>1. w \in Live' => w \in Live /\ applied'[w] = applied[w]
    BY DEF Keep, Flush, Clear
  <2>. QED  BY <2>1 DEF WriteInv, LiveOK, Grows
<1>4. OnceOK(w)'
  <2>1. applied'[w] = applied[w] \/ (w \in Live /\ w \in exposed' \cup unsure' /\ applied'[w] = applied[w] + 1)
    BY DEF Keep, Flush, Clear
  <2>2. w[2] \in Int
    BY WriteFacts
  <2>. QED  BY <1>1, <1>2, <2>1, <2>2 DEF WriteInv, OnceOK, LiveOK, Grows
<1>5. CursorOK(w)'
  BY DEF WriteInv, CursorOK, Grows, Keep, Flush, Clear
<1>6. DoneOK(w)'
  <2>1. w \in Done(w[1])' => w \in Done(w[1])
    BY DEF Done, At, Own
  <2>2. w \in Pend /\ ~ Aborted => w \in disturbed' \/ applied'[w] > 0 \/ (w \in Pend' /\ ~ Aborted')
    BY <1>1 DEF Keep, Flush, Clear
  <2>. QED  BY <1>1, <1>2, <2>1, <2>2 DEF WriteInv, DoneOK, Grows
<1>7. AckedOK(w)'
  BY <1>1, <1>2 DEF WriteInv, AckedOK, Grows
<1>. QED  BY <1>3, <1>4, <1>5, <1>6, <1>7 DEF WriteInv

LEMMA ForeignPairs ==
  ASSUME ConnType, NEW t \in Threads, NEW n \in 1 .. MaxOps, NEW F \in SUBSET Writes,
         <<t, n, 1>> \in F, <<t, n, 2>> \in F, PairInv(t, n), LiveOK(<<t, n, 1>>), LiveOK(<<t, n, 2>>),
         OnceOK(<<t, n, 1>>), OnceOK(<<t, n, 2>>),
         thread'[t] = thread[t], Grows, Keep(F) \/ Flush(F) \/ Clear(F)
  PROVE  PairInv(t, n)'
<1>. DEFINE f == <<t, n, 1>>  s == <<t, n, 2>>
<1>1. applied[f] \in Nat /\ applied[s] \in Nat
  BY DEF ConnType
<1>2. Live \subseteq Pend
  BY ConnFacts
<1>3. f \notin disturbed' /\ s \notin disturbed' => f \notin disturbed /\ s \notin disturbed
  BY DEF Grows
<1>4. f[1] = t /\ s[1] = t /\ f[2] = n /\ s[2] = n
  OBVIOUS
<1>5. n < thread[t].n \/ At(t, "idle") => f \notin Live /\ s \notin Live
  BY <1>4 DEF LiveOK, At, Holding
<1> HIDE DEF f, s
<1>. SUFFICES ASSUME ~ (n > thread[t].n), f \notin disturbed', s \notin disturbed'
              PROVE  PairInv(t, n)'
  BY DEF PairInv, f, s
<1>6. CASE Keep(F)
  <2>1. /\ applied'[f] = applied[f] /\ applied'[s] = applied[s]
        /\ f \in Pend' <=> f \in Pend
        /\ s \in Pend' <=> s \in Pend
        /\ f \in Live' => f \in Live
        /\ s \in Live' => s \in Live
        /\ Aborted => Aborted'
        /\ f \in Pend \/ s \in Pend => Aborted' = Aborted
    BY <1>6 DEF Keep, f, s
  <2>. QED  BY <1>3, <1>5, <2>1 DEF PairInv, Held, Early, Untouched, Settled, At, f, s, Grows
<1>7. CASE Flush(F)
  <2>1. /\ Live = Pend /\ ~ Aborted /\ Live' = {}
        /\ IF f \in Pend THEN applied'[f] = applied[f] + 1 /\ f \in exposed' ELSE applied'[f] = applied[f]
        /\ IF s \in Pend THEN applied'[s] = applied[s] + 1 /\ s \in exposed' ELSE applied'[s] = applied[s]
    BY <1>7 DEF Flush, f, s
  <2>. QED  BY <1>1, <1>3, <1>5, <2>1 DEF PairInv, Held, Early, Untouched, Settled, At, f, s, Grows
<1>8. CASE Clear(F)
  <2>1. /\ Live' = {} /\ applied'[f] = applied[f] /\ applied'[s] = applied[s]
        /\ Aborted \/ (f \notin Pend /\ s \notin Pend)
    BY <1>8 DEF Clear, f, s
  <2>. QED  BY <1>1, <1>3, <1>5, <2>1 DEF PairInv, Held, Early, Untouched, Settled, At, f, s, Grows
<1>. QED  BY <1>6, <1>7, <1>8
-----------------------------------------------------------------------------
(* What a step of t does to the connection, as the others see it.          *)
Others(t) == Writes \ Own(t)

LEMMA ConnectSeen ==
  ASSUME ConnType, NEW t \in Threads, Connect(t), UNCHANGED <<applied, exposed, unsure>>
  PROVE  ConnType' /\ Grows /\ (Keep(Others(t)) \/ Clear(Others(t)))
<1>1. CASE UNCHANGED <<conn, current, disturbed>>
  BY <1>1, ConnectFacts DEF Grows, Keep, Pend, Live, Aborted, Open
<1>2. CASE /\ Live' = {} /\ disturbed' = disturbed \cup UnderWay(t)
  <2>1. Pend \cap Others(t) \subseteq UnderWay(t)
    BY DEF UnderWay, Pend, Others
  <2>2. \A w \in Others(t) :
          w[2] = thread[w[1]].n /\ thread[w[1]].pc \in UsesCursor /\ thread[w[1]].cur = current
            => w \in UnderWay(t)
    BY DEF UnderWay, UsesCursor, Others
  <2>. QED  BY <1>2, <2>1, <2>2, ConnectFacts DEF Grows, Clear
<1>. QED  BY <1>1, <1>2, ConnectFacts

LEMMA CommittedSeen ==
  ASSUME ConnType, NEW t \in Threads, Committed(t), UNCHANGED <<current, disturbed, unsure>>
  PROVE  ConnType' /\ Grows /\ (Flush(Others(t)) \/ Clear(Others(t)))
<1>1. PICK done \in SUBSET Pend :
        /\ done = IF Aborted THEN {} ELSE Pend
        /\ applied' = AppliedOf(done) /\ exposed' = exposed \cup (done \ Own(t))
  BY CommittedFacts
<1>2. ConnType' /\ Live' = {} /\ Live = Pend
  BY CommittedFacts
<1>3. \A w \in Others(t) : applied'[w] = IF w \in done THEN applied[w] + 1 ELSE applied[w]
  BY <1>1 DEF AppliedOf, Others
<1>4. CASE Aborted
  BY <1>1, <1>2, <1>3, <1>4 DEF Grows, Clear
<1>5. CASE ~ Aborted
  BY <1>1, <1>2, <1>3, <1>5 DEF Grows, Flush, Others
<1>. QED  BY <1>4, <1>5

LEMMA CommitSeveredSeen ==
  ASSUME ConnType, NEW t \in Threads, CommitSevered(t), UNCHANGED <<current, exposed>>
  PROVE  ConnType' /\ Grows /\ Clear(Others(t))
<1>1. /\ ConnType' /\ Live' = {} /\ disturbed' = disturbed \cup (Pend \ Own(t))
      /\ \/ UNCHANGED <<applied, unsure>>
         \/ /\ Live = Pend /\ applied' = AppliedOf(Pend) /\ unsure' = unsure \cup Pend
  BY CommitSeveredFacts
<1>2. \A w \in Others(t) : \/ applied'[w] = applied[w]
                           \/ /\ w \in Live /\ applied'[w] = applied[w] + 1
                              /\ w \in unsure' /\ w \in disturbed'
  BY <1>1 DEF AppliedOf, Others
<1>. QED  BY <1>1, <1>2 DEF Grows, Clear, Others

LEMMA RolledBackSeen ==
  ASSUME ConnType, NEW t \in Threads, RolledBack(t), UNCHANGED <<current, applied, exposed, unsure>>
  PROVE  ConnType' /\ Grows /\ Clear(Others(t))
BY RolledBackFacts DEF Grows, Clear, Others

LEMMA FailsSeen ==
  ASSUME ConnType, NEW t \in Threads, NEW c \in 1 .. MaxConns, StatementFails(t, c),
         UNCHANGED <<current, applied, exposed, unsure>>
  PROVE  ConnType' /\ Grows /\ Keep(Others(t))
<1>1. CASE c = current
  BY <1>1, FailsFacts DEF Grows, Keep, Others
<1>2. CASE c # current
  BY <1>2, FailsFacts DEF Grows, Keep
<1>. QED  BY <1>1, <1>2

LEMMA DropSeen ==
  ASSUME ConnType, NEW c \in 1 .. MaxConns, NEW s \in {"severed", "closed"}, NEW F \in SUBSET Writes,
         conn' = [conn EXCEPT ![c].state = s], UNCHANGED <<current, applied, disturbed, exposed, unsure>>
  PROVE  ConnType' /\ Grows /\ Keep(F)
BY DropFacts DEF Grows, Keep

LEMMA ExecutedSeen ==
  ASSUME ConnType, ThreadType, NEW t \in Threads, NEW c \in 1 .. MaxConns, Executed(t, c),
         Statement(t) \in Own(t), UNCHANGED <<current, applied, disturbed, exposed, unsure>>
  PROVE  ConnType' /\ Grows /\ Keep(Others(t))
<1>1. Statement(t) \in Writes /\ Statement(t) \notin Others(t)
  BY DEF Own, Others
<1>2. /\ ConnType' /\ Aborted' = Aborted
      /\ Pend' = Pend \/ Pend' = Pend \cup {Statement(t)}
      /\ Live' = Live \/ Live' = Live \cup {Statement(t)}
  BY <1>1, ExecutedFacts
<1>. QED  BY <1>1, <1>2 DEF Grows, Keep

LEMMA QuietSeen ==
  ASSUME ConnType, NEW F \in SUBSET Writes,
         UNCHANGED <<conn, current, applied, disturbed, exposed, unsure>>
  PROVE  /\ ConnType' /\ Grows /\ Keep(F)
         /\ Live' = Live /\ Pend' = Pend /\ Aborted' = Aborted /\ Open' = Open
BY DEF ConnType, Grows, Keep, Live, Pend, Aborted, Open
-----------------------------------------------------------------------------
(* What an action of t owes, besides looking to others as one of these.    *)
Seen(t) == ConnType' /\ Grows /\ (Keep(Others(t)) \/ Flush(Others(t)) \/ Clear(Others(t)))

Moves(t) ==
  /\ thread' \in [Threads -> ThreadStates]
  /\ \A u \in Threads \ {t} : thread'[u] = thread[u]
  /\ ThreadOK(thread'[t])

LEMMA MovesFacts ==
  ASSUME ThreadType, NEW t \in Threads, Moves(t)
  PROVE  ThreadType'
BY DEF Moves, ThreadType

LEMMA BecomesFacts ==
  ASSUME ThreadType, NEW t \in Threads, NEW th \in ThreadStates, ThreadOK(th),
         thread' = [thread EXCEPT ![t] = th]
  PROVE  Moves(t) /\ thread'[t] = th
BY DEF Moves, ThreadType

LEMMA EndFacts ==
  ASSUME ThreadType, NEW t \in Threads, End(t)
  PROVE  Moves(t) /\ thread'[t] = Idle(thread[t].n)
         /\ thread'[t].n = thread[t].n /\ thread'[t].pc = "idle"
<1>1. thread[t].n \in 0 .. MaxOps /\ 0 \in 0 .. MaxConns
  BY SqlAssumption DEF ThreadType, ThreadStates
<1>2. Idle(thread[t].n) \in ThreadStates /\ ThreadOK(Idle(thread[t].n))
  BY <1>1 DEF Idle, Begin, ThreadStates, ThreadOK, InQuery, InTrans, UsesCursor
<1>3. Moves(t) /\ thread'[t] = Idle(thread[t].n)
  BY <1>2, BecomesFacts DEF End
<1>. QED  BY <1>3 DEF Idle, Begin

LEMMA GotoFacts ==
  ASSUME ThreadType, NEW t \in Threads, NEW pc \in InQuery \cup InTrans, Goto(t, pc),
         ThreadOK([thread[t] EXCEPT !.pc = pc])
  PROVE  /\ Moves(t)
         /\ thread'[t].n = thread[t].n /\ thread'[t].pc = pc /\ thread'[t].op = thread[t].op
         /\ thread'[t].part = thread[t].part /\ thread'[t].cur = thread[t].cur
BY DEF Moves, Goto, ThreadType, ThreadStates, InQuery, InTrans

LEMMA ActorStep ==
  ASSUME Inv, NEW t \in Threads, Moves(t), Seen(t), acked' \subseteq acked \cup Own(t),
         \A w \in Own(t) : WriteInv(w)', \A n \in 1 .. MaxOps : PairInv(t, n)',
         AbortedOK'
  PROVE  Inv'
<1>1. ASSUME NEW w \in Others(t)  PROVE WriteInv(w)'
  <2>1. w \in Writes /\ w[1] \in Threads /\ w[1] # t /\ w \notin Own(t)
    BY WriteFacts DEF Others, Own
  <2>2. thread'[w[1]] = thread[w[1]]
    BY <2>1 DEF Moves
  <2>3. Others(t) \in SUBSET Writes
    BY DEF Others
  <2>. QED  BY <2>1, <2>2, <2>3, ForeignWrites DEF Inv, WritesInv, Seen
<1>2. WritesInv'
  BY <1>1 DEF WritesInv, Others
<1>3. ASSUME NEW u \in Threads \ {t}, NEW n \in 1 .. MaxOps  PROVE PairInv(u, n)'
  <2>1. <<u, n, 1>> \in Others(t) /\ <<u, n, 2>> \in Others(t)
    BY WriteFacts, OwnFacts, 1 \in 0 .. 2, 2 \in 0 .. 2 DEF Others
  <2>2. Others(t) \in SUBSET Writes
    BY DEF Others
  <2>3. WriteInv(<<u, n, 1>>) /\ WriteInv(<<u, n, 2>>)
    BY <2>1, <2>2 DEF Inv, WritesInv
  <2>. QED  BY <2>1, <2>2, <2>3, ForeignPairs DEF Inv, PairsInv, WriteInv, Seen, Moves
<1>4. PairsInv'
  BY <1>3 DEF PairsInv
<1>5. acked' \subseteq Writes
  BY OwnFacts DEF Inv
<1>. QED  BY <1>2, <1>4, <1>5, MovesFacts DEF Inv, Seen

(* AbortedOK is kept by whoever leaves its transaction ended.              *)
LEMMA AbortedStep ==
  ASSUME Inv, NEW t \in Threads, Moves(t),
         Open' /\ Aborted' => \/ thread'[t].pc \in {"recover", "exit"}
                              \/ Open /\ Aborted /\ thread[t].pc \notin {"recover", "exit"}
  PROVE  AbortedOK'
BY DEF Inv, AbortedOK, Moves

(* Only the operation that t is in can have changed its writes.            *)
LEMMA OwnStep ==
  ASSUME Inv, NEW t \in Threads, thread'[t].n = thread[t].n, thread[t].n \in Nat, Grows,
         \A w \in Own(t) : w \notin Live => applied'[w] = applied[w],
         \A w \in Own(t) : w[2] # thread[t].n => w \notin Live' /\ (w \in acked' => w \in acked),
         \A w \in Own(t) : w[2] = thread[t].n => WriteInv(w)',
         thread[t].n >= 1 => PairInv(t, thread[t].n)'
  PROVE  (\A w \in Own(t) : WriteInv(w)') /\ \A n \in 1 .. MaxOps : PairInv(t, n)'
<1>1. \A w \in Own(t) : w \in Writes /\ w[1] = t /\ w[2] \in Nat
  BY WriteFacts DEF Own
<1>2. ASSUME NEW w \in Own(t), w[2] # thread[t].n  PROVE WriteInv(w)'
  <2>1. WriteInv(w) /\ w \notin Live
    BY <1>1, <1>2 DEF Inv, WritesInv, WriteInv, LiveOK
  <2>2. applied'[w] = applied[w] /\ w \notin Live'
    BY <2>1, <1>2
  <2>3. LiveOK(w)' /\ CursorOK(w)' /\ DoneOK(w)'
    BY <1>1, <1>2, <2>2 DEF LiveOK, CursorOK, DoneOK, Done
  <2>4. OnceOK(w)'
    BY <1>1, <1>2, <2>1, <2>2 DEF WriteInv, OnceOK, Grows
  <2>5. AckedOK(w)'
    BY <1>2, <2>1, <2>2 DEF WriteInv, AckedOK, Grows
  <2>. QED  BY <2>3, <2>4, <2>5 DEF WriteInv
<1>3. ASSUME NEW n \in 1 .. MaxOps, n < thread[t].n  PROVE PairInv(t, n)'
  <2>1. <<t, n, 1>> \in Own(t) /\ <<t, n, 2>> \in Own(t)
    BY OwnFacts, 1 \in 0 .. 2, 2 \in 0 .. 2
  <2>2. <<t, n, 1>> \notin Live /\ <<t, n, 2>> \notin Live
    BY <1>3, <2>1, <1>1 DEF Inv, WritesInv, WriteInv, LiveOK
  <2>3. PairInv(t, n)
    BY DEF Inv, PairsInv
  <2>. QED  BY <1>3, <2>1, <2>2, <2>3 DEF PairInv, Settled, Grows
<1>4. ASSUME NEW n \in 1 .. MaxOps, n > thread[t].n  PROVE PairInv(t, n)'
  BY <1>4 DEF PairInv
<1>. QED  BY <1>2, <1>3, <1>4
(* What a step does that neither runs a statement nor commits.             *)
Quiet(t) ==
  /\ thread'[t].n = thread[t].n /\ ~ At(t, "idle") /\ thread'[t].pc \notin UsesCursor
  /\ thread[t].pc = "recover" => thread'[t].pc = "idle"
  /\ \A w \in Own(t) : /\ applied'[w] = applied[w] /\ (w \in acked' => w \in acked)
                       /\ w \in Live' => w \in Live
                       /\ w \in Live' => thread'[t].pc \in {"recover", "exit"} \/ thread[t].pc \notin Holding

LEMMA QuietOwn ==
  ASSUME Inv, NEW t \in Threads, Grows, Quiet(t), PairInv(t, thread[t].n)'
  PROVE  (\A w \in Own(t) : WriteInv(w)') /\ \A n \in 1 .. MaxOps : PairInv(t, n)'
<1>1. \A w \in Own(t) : w \in Writes /\ w[1] = t
  BY OwnFacts
<1>2. thread[t].n \in Nat
  BY DEF Inv, ThreadType, ThreadStates
<1>3. ASSUME NEW w \in Own(t), w[2] = thread[t].n  PROVE WriteInv(w)'
  <2>1. WriteInv(w)
    BY <1>1 DEF Inv, WritesInv
  <2>2. LiveOK(w)'
    BY <1>1, <2>1 DEF WriteInv, LiveOK, Quiet, Grows, Holding
  <2>3. OnceOK(w)'
    BY <1>1, <1>2, <1>3, <2>1 DEF WriteInv, OnceOK, Quiet, Grows, At
  <2>4. CursorOK(w)' /\ DoneOK(w)'
    BY <1>1 DEF CursorOK, DoneOK, Done, Quiet, At, UsesCursor
  <2>5. AckedOK(w)'
    BY <2>1 DEF WriteInv, AckedOK, Quiet, Grows
  <2>. QED  BY <2>2, <2>3, <2>4, <2>5 DEF WriteInv
<1>4. \A w \in Own(t) : w[2] # thread[t].n => w \notin Live' /\ (w \in acked' => w \in acked)
  BY <1>1 DEF Inv, WritesInv, WriteInv, LiveOK, Quiet
<1>. QED  BY <1>2, <1>3, <1>4, OwnStep DEF Quiet

LEMMA ThreadFacts ==
  ASSUME Inv, NEW t \in Threads
  PROVE  /\ thread[t] \in ThreadStates /\ ThreadOK(thread[t])
         /\ thread[t].n \in 0 .. MaxOps
         /\ ~ At(t, "idle") =>
              /\ thread[t].n \in 1 .. MaxOps /\ Statement(t) \in Own(t)
              /\ \A p \in 0 .. 2 : /\ <<t, thread[t].n, p>> \in Own(t) /\ <<t, thread[t].n, p>> \in Writes
                                   /\ WriteInv(<<t, thread[t].n, p>>)
              /\ PairInv(t, thread[t].n)
<1>1. /\ thread[t] \in ThreadStates /\ ThreadOK(thread[t]) /\ thread[t].n \in 0 .. MaxOps
      /\ thread[t].part \in 0 .. 2
  BY DEF Inv, ThreadType, ThreadStates
<1>2. CASE ~ At(t, "idle")
  <2>1. thread[t].n \in 1 .. MaxOps
    BY <1>1, <1>2 DEF ThreadOK, At
  <2>2. \A p \in 0 .. 2 : /\ <<t, thread[t].n, p>> \in Own(t) /\ <<t, thread[t].n, p>> \in Writes
                          /\ WriteInv(<<t, thread[t].n, p>>)
    BY <2>1, OwnFacts, WriteFacts DEF Inv, WritesInv
  <2>. QED  BY <1>1, <2>1, <2>2 DEF Inv, PairsInv, Statement
<1>. QED  BY <1>1, <1>2

(* A query leaves the writes of a transaction alone.                       *)
LEMMA QueryPair ==
  ASSUME Inv, NEW t \in Threads, Grows, thread[t].pc \in InQuery \cup {"enter"},
         thread'[t].n = thread[t].n, thread'[t].pc \in InQuery \cup {"enter", "idle"},
         \A p \in {1, 2} : LET w == <<t, thread[t].n, p>>
                           IN  w \notin Live => applied'[w] = applied[w] /\ w \notin Live'
  PROVE  PairInv(t, thread[t].n)'
<1>. DEFINE n == thread[t].n  f == <<t, n, 1>>  s == <<t, n, 2>>
<1>1. n \in 1 .. MaxOps /\ PairInv(t, n)
  BY ThreadFacts DEF At, InQuery
<1>2. \/ f \in disturbed' \/ s \in disturbed'
      \/ Untouched(f) /\ Untouched(s)
  BY <1>1 DEF PairInv, At, InQuery, Grows
<1>3. Untouched(f) /\ Untouched(s) => Untouched(f)' /\ Untouched(s)'
  BY DEF Untouched
<1>4. Untouched(f)' /\ Untouched(s)' => Settled(f, s)'
  BY DEF Untouched, Settled
<1>. QED  BY <1>2, <1>3, <1>4 DEF PairInv, At
-----------------------------------------------------------------------------
(* Each action keeps the invariant.                                        *)
LEMMA StartFacts ==
  ASSUME Inv, NEW t \in Threads, At(t, "idle"), Moves(t),
         thread'[t].n = thread[t].n + 1, thread'[t].pc \in {"check", "enter"},
         UNCHANGED <<conn, current, applied>>, UNCHANGED history
  PROVE  Inv'
<1>1. ThreadType' /\ \A u \in Threads \ {t} : thread'[u] = thread[u]
  BY MovesFacts DEF Inv, Moves
<1>2. Seen(t) /\ Grows /\ Live' = Live /\ Aborted' = Aborted /\ Open' = Open
  BY QuietSeen DEF Seen, Inv, history, Others
<1>3. thread[t].n \in Nat
  BY DEF Inv, ThreadType, ThreadStates
<1>4. ASSUME NEW w \in Own(t)
      PROVE  w[1] = t /\ w[2] \in Nat /\ w \notin Live /\ (w[2] > thread[t].n => applied[w] = 0)
             /\ applied[w] \in Nat
  <2>1. w[1] = t /\ WriteInv(w) /\ w[2] \in Nat /\ w \in Writes
    BY OwnFacts DEF Inv, WritesInv
  <2>. QED  BY <2>1 DEF WriteInv, LiveOK, OnceOK, At, Inv, ConnType, Holding
<1>5. ASSUME NEW w \in Own(t)  PROVE WriteInv(w)'
  <2>1. WriteInv(w)
    BY OwnFacts DEF Inv, WritesInv
  <2>2. LiveOK(w)' /\ CursorOK(w)' /\ DoneOK(w)'
    BY <1>1, <1>2, <1>4 DEF LiveOK, CursorOK, DoneOK, Done, At, UsesCursor, Holding
  <2>3. OnceOK(w)'
    BY <1>1, <1>3, <1>4, <2>1 DEF WriteInv, OnceOK, history
  <2>4. AckedOK(w)'
    BY <2>1 DEF WriteInv, AckedOK, history
  <2>. QED  BY <2>2, <2>3, <2>4 DEF WriteInv
<1>6. ASSUME NEW n \in 1 .. MaxOps  PROVE PairInv(t, n)'
  <2>. DEFINE f == <<t, n, 1>>  s == <<t, n, 2>>
  <2>1. f \in Own(t) /\ s \in Own(t) /\ f[2] = n /\ s[2] = n
    BY OwnFacts, 1 \in 0 .. 2, 2 \in 0 .. 2
  <2>2. PairInv(t, n)
    BY DEF Inv, PairsInv
  <2>3. CASE n > thread[t].n
    <3>1. Untouched(f)' /\ Untouched(s)'
      BY <1>2, <1>4, <2>1, <2>3 DEF Untouched
    <3>. QED  BY <1>1, <1>3, <2>3, <3>1 DEF PairInv, At, InQuery
  <2>4. CASE n <= thread[t].n
    <3>1. f \in disturbed \/ s \in disturbed \/ Settled(f, s)
      BY <1>3, <2>2, <2>4 DEF PairInv, At, InQuery
    <3>. QED  BY <1>1, <1>3, <2>4, <3>1 DEF PairInv, Settled, history
  <2>. QED  BY <1>3, <2>3, <2>4
<1>7. AbortedOK'
  BY <1>1, <1>2, AbortedStep DEF At
<1>. QED  BY <1>1, <1>2, <1>5, <1>6, <1>7, ActorStep DEF history

LEMMA StartQueryStep == ASSUME Inv, NEW t \in Threads, StartQuery(t)  PROVE Inv'
<1>1. PICK op \in {"write", "read"} :
        thread' = [thread EXCEPT ![t] = Begin(thread[t].n + 1, op, "check", MaxRetry, 0)]
  BY SqlAssumption DEF StartQuery
<1>. DEFINE th == Begin(thread[t].n + 1, op, "check", MaxRetry, 0)
<1>2. thread[t].n + 1 \in 0 .. MaxOps /\ thread[t].n + 1 >= 1 /\ MaxRetry \in Int /\ 0 \in 0 .. MaxConns
  BY SqlAssumption DEF StartQuery, Inv, ThreadType, ThreadStates
<1>3. th \in ThreadStates /\ ThreadOK(th) /\ th.n = thread[t].n + 1 /\ th.pc = "check"
  BY <1>2 DEF Begin, ThreadStates, ThreadOK, InQuery, InTrans, UsesCursor
<1>4. Moves(t) /\ thread'[t] = th
  BY <1>1, <1>3, BecomesFacts DEF Inv
<1> HIDE DEF th
<1>. QED  BY <1>3, <1>4, StartFacts DEF StartQuery

LEMMA StartTransactionStep == ASSUME Inv, NEW t \in Threads, StartTransaction(t)  PROVE Inv'
<1>. DEFINE th == Begin(thread[t].n + 1, "transaction", "enter", 2, 1)
<1>1. thread[t].n + 1 \in 0 .. MaxOps /\ thread[t].n + 1 >= 1 /\ 0 \in 0 .. MaxConns
  BY SqlAssumption DEF StartTransaction, Inv, ThreadType, ThreadStates
<1>2. th \in ThreadStates /\ ThreadOK(th) /\ th.n = thread[t].n + 1 /\ th.pc = "enter"
  BY <1>1 DEF Begin, ThreadStates, ThreadOK, InQuery, InTrans, UsesCursor
<1>3. Moves(t) /\ thread'[t] = th
  BY <1>2, BecomesFacts DEF Inv, StartTransaction
<1> HIDE DEF th
<1>. QED  BY <1>2, <1>3, StartFacts DEF StartTransaction

(* Steps of a query, or on the way into a transaction, that are quiet.     *)
LEMMA QuietQuery ==
  ASSUME Inv, NEW t \in Threads, Moves(t), Seen(t), acked' = acked, Quiet(t),
         thread[t].pc \in InQuery \cup {"enter"}, thread'[t].pc \in InQuery \cup {"enter", "idle"},
         Open' /\ Aborted' => \/ thread'[t].pc \in {"recover", "exit"}
                              \/ Open /\ Aborted /\ thread[t].pc \notin {"recover", "exit"}
  PROVE  Inv'
<1>1. Grows
  BY DEF Seen
<1>2. \A p \in {1, 2} : <<t, thread[t].n, p>> \in Own(t)
  <2>1. \A p \in 0 .. 2 : <<t, thread[t].n, p>> \in Own(t)
    BY ThreadFacts DEF Quiet
  <2>. QED  BY <2>1
<1>3. PairInv(t, thread[t].n)'
  BY <1>1, <1>2, QueryPair DEF Quiet
<1>. QED  BY <1>1, <1>3, QuietOwn, AbortedStep, ActorStep

LEMMA ConnectStep ==
  ASSUME Inv, NEW t \in Threads, Connect(t), UNCHANGED <<applied, acked, exposed, unsure>>,
         Moves(t), thread'[t].n = thread[t].n, thread[t].pc \in {"check", "cursor", "reconnect", "enter"},
         thread'[t].pc \in {"check", "cursor", "reconnect", "recover", "enter", "idle"}
  PROVE  Inv'
<1>1. Seen(t)
  BY ConnectSeen DEF Inv, Seen
<1>2. \/ Live' = Live /\ Open' = Open /\ Aborted' = Aborted
      \/ Live' = {} /\ ~ Aborted'
  BY ConnectFacts DEF Inv, Live, Pend, Open, Aborted
<1>3. Quiet(t)
  BY <1>2 DEF Quiet, At, UsesCursor, Holding
<1>. QED  BY <1>1, <1>2, <1>3, QuietQuery DEF InQuery

LEMMA CheckConnectionStep == ASSUME Inv, NEW t \in Threads, CheckConnection(t)  PROVE Inv'
<1>1. Connect(t)
  BY DEF CheckConnection, Connect
<1>2. ThreadType /\ "cursor" \in InQuery \cup InTrans
  BY DEF Inv, InQuery
<1>3. ThreadOK([thread[t] EXCEPT !.pc = "cursor"])
  BY <1>2, ThreadFacts DEF CheckConnection, At, ThreadOK, ThreadType, ThreadStates, InQuery, InTrans, UsesCursor
<1>4. Moves(t) /\ thread'[t].n = thread[t].n /\ thread'[t].pc = "cursor"
  BY <1>2, <1>3, GotoFacts DEF CheckConnection
<1>. QED  BY <1>1, <1>4, ConnectStep DEF CheckConnection, At

LEMMA ReconnectStep == ASSUME Inv, NEW t \in Threads, Reconnect(t)  PROVE Inv'
<1>1. Connect(t) /\ thread[t].pc = "reconnect"
  BY DEF Reconnect, Connect, At
<1>2. CASE End(t)
  BY <1>1, <1>2, EndFacts, ConnectStep DEF Reconnect, Inv
<1>3. CASE thread' = [thread EXCEPT ![t].retries = thread[t].retries - 1, ![t].pc = "check"]
  <2>1. thread \in [Threads -> ThreadStates] /\ ThreadOK(thread[t])
    BY DEF Inv, ThreadType
  <2>2. thread' \in [Threads -> ThreadStates] /\ \A u \in Threads \ {t} : thread'[u] = thread[u]
    <3>1. thread[t].retries - 1 \in Int /\ "check" \in {"idle"} \cup InQuery \cup InTrans
      BY <2>1 DEF ThreadStates, InQuery
    <3>2. [thread EXCEPT ![t].retries = thread[t].retries - 1] \in [Threads -> ThreadStates]
      BY <2>1, <3>1 DEF ThreadStates
    <3>3. \A f \in [Threads -> ThreadStates] : [f EXCEPT ![t].pc = "check"] \in [Threads -> ThreadStates]
      BY <3>1 DEF ThreadStates
    <3>4. thread' = [[thread EXCEPT ![t].retries = thread[t].retries - 1] EXCEPT ![t].pc = "check"]
      BY <1>3
    <3>5. thread' \in [Threads -> ThreadStates]
      BY <3>2, <3>3, <3>4
    <3>. QED  BY <1>3, <2>1, <3>5
  <2>3. /\ thread'[t].n = thread[t].n /\ thread'[t].pc = "check" /\ thread'[t].op = thread[t].op
        /\ thread'[t].part = thread[t].part
    BY <1>3, <2>1 DEF ThreadStates
  <2>4. ThreadOK(thread'[t])
    BY <1>1, <2>1, <2>3 DEF ThreadOK, InQuery, InTrans, UsesCursor
  <2>. QED  BY <1>1, <2>2, <2>3, <2>4, ConnectStep DEF Moves, Reconnect
<1>. QED  BY <1>2, <1>3 DEF Reconnect

(* A cursor of the current connection is had.                              *)
LEMMA CursorStep ==
  ASSUME Inv, NEW t \in Threads, NEW pc \in {"execute", "statement"},
         thread[t].pc = (IF pc = "execute" THEN "cursor" ELSE "enter"),
         thread' = [thread EXCEPT ![t].cur = current, ![t].pc = pc],
         UNCHANGED <<conn, current, applied>>, UNCHANGED history
  PROVE  Inv'
<1>0. PICK n \in 1 .. MaxOps : n = thread[t].n
  BY ThreadFacts DEF At
<1>. DEFINE f == <<t, n, 1>>  s == <<t, n, 2>>
<1>1. thread \in [Threads -> ThreadStates] /\ ThreadOK(thread[t]) /\ current \in 1 .. MaxConns
      /\ thread[t].n \in Nat
  BY DEF Inv, ThreadType, ConnType, ThreadStates
<1>2. Moves(t)
  <2>1. current \in 0 .. MaxConns /\ pc \in {"idle"} \cup InQuery \cup InTrans
    BY <1>1 DEF InQuery, InTrans
  <2>2. [thread EXCEPT ![t].cur = current] \in [Threads -> ThreadStates]
    BY <1>1, <2>1 DEF ThreadStates
  <2>3. \A g \in [Threads -> ThreadStates] : [g EXCEPT ![t].pc = pc] \in [Threads -> ThreadStates]
    BY <2>1 DEF ThreadStates
  <2>4. thread' = [[thread EXCEPT ![t].cur = current] EXCEPT ![t].pc = pc]
    OBVIOUS
  <2>5. thread' \in [Threads -> ThreadStates]
    BY <2>2, <2>3, <2>4
  <2>6. \A u \in Threads \ {t} : thread'[u] = thread[u]
    BY <1>1
  <2>7. /\ thread'[t].n = n /\ thread'[t].op = thread[t].op /\ thread'[t].part = thread[t].part
        /\ thread'[t].pc = pc /\ thread'[t].cur = current
    BY <1>0, <1>1 DEF ThreadStates
  <2>8. ThreadOK(thread'[t])
    BY <1>1, <2>7 DEF ThreadOK, InQuery, InTrans, UsesCursor
  <2>. QED  BY <2>5, <2>6, <2>8 DEF Moves
<1>3. /\ thread'[t].n = n /\ thread'[t].op = thread[t].op /\ thread'[t].part = thread[t].part
      /\ thread'[t].pc = pc /\ thread'[t].cur = current
  BY <1>0, <1>1 DEF ThreadStates
<1>4. Seen(t) /\ Grows /\ Live' = Live /\ Pend' = Pend /\ Aborted' = Aborted /\ Open' = Open
  BY QuietSeen DEF Seen, Inv, history, Others
<1>5. ASSUME NEW w \in Own(t)  PROVE w[1] = t /\ w \in Writes /\ WriteInv(w) /\ w \notin Live
  <2>1. w[1] = t /\ w \in Writes /\ WriteInv(w)
    BY OwnFacts DEF Inv, WritesInv
  <2>. QED  BY <2>1 DEF WriteInv, LiveOK, Holding
<1>6. ASSUME NEW w \in Own(t), w[2] = n  PROVE WriteInv(w)'
  <2>1. LiveOK(w)'
    BY <1>4, <1>5 DEF LiveOK
  <2>2. OnceOK(w)'
    BY <1>0, <1>1, <1>3, <1>5, <1>6 DEF WriteInv, OnceOK, history
  <2>3. CursorOK(w)'
    BY <1>3, <1>5 DEF CursorOK
  <2>4. DoneOK(w)'
    BY <1>1, <1>3, <1>5 DEF DoneOK, Done, At, ThreadOK
  <2>5. AckedOK(w)'
    BY <1>5 DEF WriteInv, AckedOK, history
  <2>. QED  BY <2>1, <2>2, <2>3, <2>4, <2>5 DEF WriteInv
<1>7. PairInv(t, n)'
  <2>1. PairInv(t, n)
    BY <1>0, ThreadFacts DEF At
  <2>2. f \in disturbed \/ s \in disturbed \/ (Untouched(f) /\ Untouched(s))
    BY <1>0, <2>1 DEF PairInv, At
  <2>3. (Untouched(f) => Untouched(f)') /\ (Untouched(s) => Untouched(s)')
    BY <1>4 DEF Untouched
  <2>4. pc = "execute" \/ thread'[t].part = 1
    BY <1>1, <1>3 DEF ThreadOK
  <2>. QED  BY <1>3, <2>2, <2>3, <2>4 DEF PairInv, At, InQuery, history
<1>8. (\A w \in Own(t) : WriteInv(w)') /\ \A m \in 1 .. MaxOps : PairInv(t, m)'
  BY <1>0, <1>1, <1>3, <1>4, <1>5, <1>6, <1>7, OwnStep DEF history
<1>9. AbortedOK'
  BY <1>2, <1>4, AbortedStep
<1>. QED  BY <1>2, <1>4, <1>8, <1>9, ActorStep DEF history

LEMMA OpenCursorStep == ASSUME Inv, NEW t \in Threads, OpenCursor(t)  PROVE Inv'
<1>1. thread[t].pc = "cursor" /\ UNCHANGED <<conn, current, applied>> /\ UNCHANGED history
  BY DEF OpenCursor, At
<1>2. CASE thread' = [thread EXCEPT ![t].cur = current, ![t].pc = "execute"]
  BY <1>1, <1>2, CursorStep
<1>3. ASSUME NEW handler \in {"reconnect", "recover"},
             thread' = [thread EXCEPT ![t].unbound = TRUE, ![t].pc = handler]
      PROVE  Inv'
  <2>1. thread \in [Threads -> ThreadStates] /\ ThreadOK(thread[t])
    BY DEF Inv, ThreadType
  <2>2. handler \in {"idle"} \cup InQuery \cup InTrans
    BY DEF InQuery
  <2>3. [thread EXCEPT ![t].unbound = TRUE] \in [Threads -> ThreadStates]
    BY <2>1 DEF ThreadStates
  <2>4. \A g \in [Threads -> ThreadStates] : [g EXCEPT ![t].pc = handler] \in [Threads -> ThreadStates]
    BY <2>2 DEF ThreadStates
  <2>5. thread' = [[thread EXCEPT ![t].unbound = TRUE] EXCEPT ![t].pc = handler]
    BY <1>3
  <2>6. thread' \in [Threads -> ThreadStates]
    BY <2>3, <2>4, <2>5
  <2>7. \A u \in Threads \ {t} : thread'[u] = thread[u]
    BY <1>3, <2>1
  <2>8. /\ thread'[t].n = thread[t].n /\ thread'[t].op = thread[t].op
        /\ thread'[t].part = thread[t].part /\ thread'[t].pc = handler
    BY <1>3, <2>1 DEF ThreadStates
  <2>9. ThreadOK(thread'[t])
    BY <1>1, <2>1, <2>8 DEF ThreadOK, InQuery, InTrans, UsesCursor
  <2>10. Connect(t)
    BY <1>1 DEF Connect, history
  <2>. QED  BY <1>1, <2>6, <2>7, <2>8, <2>9, <2>10, ConnectStep DEF Moves, history
<1>. QED  BY <1>2, <1>3 DEF OpenCursor

LEMMA EnterStep == ASSUME Inv, NEW t \in Threads, Enter(t)  PROVE Inv'
<1>1. thread[t].pc = "enter" /\ UNCHANGED <<applied, acked, exposed, unsure>>
  BY DEF Enter, At
<1>2. CASE thread' = [thread EXCEPT ![t].cur = current, ![t].pc = "statement"]
           /\ UNCHANGED <<conn, current, disturbed>>
  BY <1>1, <1>2, CursorStep DEF history
<1>3. CASE Connect(t) /\ thread' = [thread EXCEPT ![t].retries = thread[t].retries - 1]
  <2>1. thread \in [Threads -> ThreadStates] /\ ThreadOK(thread[t])
    BY DEF Inv, ThreadType
  <2>2. thread[t].retries - 1 \in Int
    BY <2>1 DEF ThreadStates
  <2>3. thread' \in [Threads -> ThreadStates] /\ \A u \in Threads \ {t} : thread'[u] = thread[u]
    BY <1>3, <2>1, <2>2 DEF ThreadStates
  <2>4. /\ thread'[t].n = thread[t].n /\ thread'[t].op = thread[t].op
        /\ thread'[t].part = thread[t].part /\ thread'[t].pc = "enter"
    BY <1>1, <1>3, <2>1 DEF ThreadStates
  <2>5. ThreadOK(thread'[t])
    BY <1>1, <2>1, <2>4 DEF ThreadOK, InQuery, InTrans, UsesCursor
  <2>. QED  BY <1>1, <1>3, <2>3, <2>4, <2>5, ConnectStep DEF Moves
<1>4. CASE End(t) /\ UNCHANGED <<conn, current, disturbed>>
  <2>1. Connect(t)
    BY <1>4 DEF Connect
  <2>. QED  BY <1>1, <1>4, <2>1, EndFacts, ConnectStep DEF Inv
<1>. QED  BY <1>2, <1>3, <1>4 DEF Enter

(* A statement is executed, in a query or in a transaction.                *)
LEMMA ExecutedOwn ==
  ASSUME Inv, NEW t \in Threads, Executed(t, thread[t].cur), thread[t].pc \in {"execute", "statement"},
         UNCHANGED <<current, applied>>, UNCHANGED history,
         thread'[t].n = thread[t].n, thread'[t].cur = thread[t].cur,
         thread'[t].pc \in {"finish", "statement", "commit"},
         \A w \in Own(t) : w \in Done(t)' => w \in Done(t) \/ (w = Statement(t) /\ thread[t].op # "read"),
         PairInv(t, thread[t].n)'
  PROVE  /\ \A w \in Own(t) : WriteInv(w)'
         /\ \A n \in 1 .. MaxOps : PairInv(t, n)'
<1>. DEFINE c == thread[t].cur
<1>1. ThreadType /\ ConnType /\ c \in 1 .. MaxConns /\ thread[t].n \in Nat
  BY DEF Inv, ThreadType, ThreadOK, ThreadStates, UsesCursor
<1>2. Statement(t) \in Own(t) /\ Statement(t) \in Writes /\ Statement(t)[2] = thread[t].n
  <2>1. Statement(t) \in Own(t)
    BY ThreadFacts DEF At
  <2>. QED  BY <2>1, OwnFacts DEF Statement
<1>3. /\ Aborted' = Aborted
      /\ IF c = current
         THEN /\ ~ Aborted /\ Live = Pend /\ Live' = Pend'
              /\ Pend' = IF thread[t].op = "read" THEN Pend ELSE Pend \cup {Statement(t)}
         ELSE Live' = Live /\ Pend' = Pend
  BY <1>1, <1>2, ExecutedFacts
<1>4. ASSUME NEW w \in Own(t)
      PROVE  /\ w[1] = t /\ w \in Writes /\ WriteInv(w) /\ applied[w] \in Nat
             /\ w \in Live' => w \in Live \/ w = Statement(t)
             /\ w[2] # thread[t].n => w \notin Live'
  <2>1. w[1] = t /\ w \in Writes /\ WriteInv(w)
    BY OwnFacts DEF Inv, WritesInv
  <2>2. w \in Live' => w \in Live \/ w = Statement(t)
    BY <1>3
  <2>. QED  BY <1>1, <1>2, <2>1, <2>2 DEF ConnType, WriteInv, LiveOK
<1>5. ASSUME NEW w \in Own(t), w[2] = thread[t].n  PROVE WriteInv(w)'
  <2>1. applied[w] > 0 => w \in unsure \cup exposed
    BY <1>1, <1>4, <1>5 DEF WriteInv, OnceOK
  <2>2. LiveOK(w)'
    BY <1>4, <1>5, <2>1 DEF LiveOK, Holding, history
  <2>3. OnceOK(w)'
    BY <1>1, <1>4, <1>5, <2>1 DEF OnceOK, history
  <2>4. CursorOK(w) /\ thread[t].pc \in UsesCursor
    BY <1>4 DEF WriteInv, UsesCursor
  <2>5. CursorOK(w)'
    BY <1>4, <1>5, <2>4 DEF CursorOK, history
  <2>6. DoneOK(w)'
    <3>1. CASE w \in Done(t)
      BY <1>3, <1>4, <3>1 DEF WriteInv, DoneOK, history
    <3>2. CASE w = Statement(t) /\ thread[t].op # "read"
      BY <1>3, <1>4, <1>5, <2>4, <3>2 DEF CursorOK, DoneOK, history
    <3>. QED  BY <1>4, <3>1, <3>2 DEF DoneOK
  <2>7. AckedOK(w)'
    BY <1>4 DEF WriteInv, AckedOK, history
  <2>. QED  BY <2>2, <2>3, <2>5, <2>6, <2>7 DEF WriteInv
<1>6. Grows
  BY DEF Grows, history
<1>. QED  BY <1>1, <1>4, <1>5, <1>6, OwnStep DEF history

LEMMA ExecuteStep == ASSUME Inv, NEW t \in Threads, Execute(t)  PROVE Inv'
<1>. DEFINE c == thread[t].cur
<1>1. thread[t].pc = "execute" /\ UNCHANGED <<current, applied, acked, exposed, unsure>>
  BY DEF Execute, At
<1>2. /\ ThreadType /\ ConnType /\ c \in 1 .. MaxConns /\ ThreadOK(thread[t])
      /\ thread[t] \in ThreadStates
  BY <1>1 DEF Inv, ThreadType, ThreadOK, UsesCursor
<1>3. ASSUME NEW pc \in {"finish", "recover", "reconnect"}, Goto(t, pc)
      PROVE  /\ Moves(t)
             /\ thread'[t].n = thread[t].n /\ thread'[t].pc = pc /\ thread'[t].op = thread[t].op
             /\ thread'[t].part = thread[t].part /\ thread'[t].cur = thread[t].cur
  <2>1. pc \in InQuery \cup InTrans
    BY DEF InQuery
  <2>2. ThreadOK([thread[t] EXCEPT !.pc = pc])
    BY <1>1, <1>2 DEF ThreadOK, ThreadStates, InQuery, InTrans, UsesCursor
  <2>. QED  BY <1>2, <1>3, <2>1, <2>2, GotoFacts
<1>4. CASE Executed(t, c) /\ Goto(t, "finish") /\ UNCHANGED disturbed
  <2>1. Statement(t) \in Own(t)
    BY <1>1, ThreadFacts DEF At
  <2>2. Seen(t)
    BY <1>1, <1>2, <1>4, <2>1, ExecutedSeen DEF Seen
  <2>3. Moves(t) /\ thread'[t].n = thread[t].n /\ thread'[t].pc = "finish" /\ thread'[t].op = thread[t].op
        /\ thread'[t].cur = thread[t].cur
    BY <1>3, <1>4
  <2>4. thread[t].part = 0 /\ thread[t].op \in {"read", "write"}
    BY <1>1, <1>2 DEF ThreadOK, InQuery
  <2>5. ASSUME NEW w \in Own(t), w \in Done(t)'  PROVE w = Statement(t) /\ thread[t].op # "read"
    <3>1. w[2] = thread[t].n /\ w[3] = 0 /\ thread[t].op = "write"
      BY <2>3, <2>5 DEF Done, At
    <3>2. w = <<t, thread[t].n, 0>>
      BY <3>1, OwnFacts, WriteFacts
    <3>. QED  BY <2>4, <3>1, <3>2 DEF Statement
  <2>6. \A p \in {1, 2} : LET w == <<t, thread[t].n, p>> IN w \notin Live => w \notin Live'
    <3>1. Live' = Live \/ Live' = Live \cup {Statement(t)}
      BY <1>1, <1>2, <1>4, <2>1, ExecutedFacts, OwnFacts
    <3>. QED  BY <2>4, <3>1 DEF Statement
  <2>7. Grows
    BY <2>2 DEF Seen
  <2>8. PairInv(t, thread[t].n)'
    BY <1>1, <2>3, <2>6, <2>7, QueryPair DEF InQuery
  <2>9. (\A w \in Own(t) : WriteInv(w)') /\ \A n \in 1 .. MaxOps : PairInv(t, n)'
    BY <1>1, <1>4, <2>3, <2>5, <2>8, ExecutedOwn DEF history
  <2>10. Open' = Open /\ Aborted' = Aborted
    BY <1>1, <1>2, <1>4, <2>1, ExecutedFacts, OwnFacts
  <2>11. AbortedOK'
    BY <1>1, <2>3, <2>10, AbortedStep
  <2>. QED  BY <1>1, <2>2, <2>3, <2>9, <2>11, ActorStep
<1>5. CASE StatementFails(t, c) /\ Goto(t, "recover")
  <2>1. Seen(t) /\ Live' = Live
    BY <1>1, <1>2, <1>5, FailsSeen, FailsFacts DEF Seen
  <2>2. Moves(t) /\ thread'[t].n = thread[t].n /\ thread'[t].pc = "recover"
    BY <1>3, <1>5
  <2>3. Quiet(t)
    BY <1>1, <2>1, <2>2 DEF Quiet, At, UsesCursor
  <2>. QED  BY <1>1, <2>1, <2>2, <2>3, QuietQuery DEF InQuery
<1>6. CASE StatementSevered(c) /\ Caught(t) /\ UNCHANGED disturbed
  <2>0. PICK pc \in {"reconnect", "recover"} : Goto(t, pc)
    BY <1>6 DEF Caught
  <2>1. conn' = [conn EXCEPT ![c].state = "closed"] /\ Others(t) \in SUBSET Writes
    BY <1>6 DEF StatementSevered, Others
  <2>2. Seen(t) /\ Live' \subseteq Live /\ (Open' => Open) /\ Aborted' = Aborted
    BY <1>1, <1>2, <1>6, <2>1, DropSeen, DropFacts DEF Seen
  <2>3. Moves(t) /\ thread'[t].n = thread[t].n /\ thread'[t].pc = pc
    BY <1>3, <2>0
  <2>4. Quiet(t)
    BY <1>1, <2>2, <2>3 DEF Quiet, At, UsesCursor, Holding
  <2>. QED  BY <1>1, <2>2, <2>3, <2>4, QuietQuery DEF InQuery
<1>. QED  BY <1>4, <1>5, <1>6 DEF Execute

(* A commit puts what t has executed into the database.                    *)
LEMMA CommitOwn ==
  ASSUME Inv, NEW t \in Threads, thread[t].pc \in {"finish", "commit"}, Grows, Live' = {},
         NEW done \in SUBSET Live, applied' = AppliedOf(done),
         thread'[t].n = thread[t].n, thread'[t].pc \notin UsesCursor,
         thread'[t].pc \in {"idle", "recover"} \/ done \subseteq unsure',
         \A w \in Own(t) : w \in acked' => \/ w \in acked
                                           \/ w[2] = thread[t].n /\ (w \in disturbed' \/ applied[w] > 0 \/ w \in done),
         PairInv(t, thread[t].n)'
  PROVE  /\ \A w \in Own(t) : WriteInv(w)'
         /\ \A n \in 1 .. MaxOps : PairInv(t, n)'
<1>1. thread[t].n \in Nat
  BY DEF Inv, ThreadType, ThreadStates
<1>2. ASSUME NEW w \in Own(t)
      PROVE  /\ w[1] = t /\ w \in Writes /\ WriteInv(w) /\ applied[w] \in Nat
             /\ applied'[w] = IF w \in done THEN applied[w] + 1 ELSE applied[w]
             /\ w \in done => w[2] = thread[t].n
  <2>1. w[1] = t /\ w \in Writes /\ WriteInv(w) /\ applied[w] \in Nat
    BY OwnFacts DEF Inv, WritesInv, ConnType
  <2>. QED  BY <2>1 DEF AppliedOf, WriteInv, LiveOK
<1>3. ASSUME NEW w \in Own(t), w[2] = thread[t].n  PROVE WriteInv(w)'
  <2>1. applied[w] > 0 => w \in unsure \cup exposed
    BY <1>1, <1>2, <1>3 DEF WriteInv, OnceOK
  <2>2. LiveOK(w)' /\ CursorOK(w)' /\ DoneOK(w)'
    BY <1>2 DEF LiveOK, CursorOK, DoneOK, Done, At, UsesCursor
  <2>3. OnceOK(w)'
    <3>1. applied'[w] > 0 /\ w \notin unsure' \cup exposed' => w \in done /\ applied'[w] = 1
      BY <1>2, <2>1 DEF Grows
    <3>. QED  BY <1>1, <1>2, <1>3, <3>1 DEF OnceOK
  <2>4. AckedOK(w)'
    BY <1>2 DEF WriteInv, AckedOK, Grows
  <2>. QED  BY <2>2, <2>3, <2>4 DEF WriteInv
<1>. QED  BY <1>1, <1>2, <1>3, OwnStep

LEMMA FinishWriteStep == ASSUME Inv, NEW t \in Threads, FinishWrite(t)  PROVE Inv'
<1>. DEFINE n == thread[t].n
<1>1. thread[t].pc = "finish" /\ thread[t].op = "write" /\ current' = current
  BY DEF FinishWrite, At
<1>2. /\ ThreadType /\ ConnType /\ ThreadOK(thread[t]) /\ thread[t] \in ThreadStates /\ thread[t].part = 0
  BY <1>1 DEF Inv, ThreadType, ThreadOK, InQuery
<1>3. ASSUME NEW pc \in {"recover", "reconnect"}, Goto(t, pc)
      PROVE  Moves(t) /\ thread'[t].n = thread[t].n /\ thread'[t].pc = pc
  <2>1. pc \in InQuery \cup InTrans
    BY DEF InQuery
  <2>2. ThreadOK([thread[t] EXCEPT !.pc = pc])
    BY <1>1, <1>2 DEF ThreadOK, ThreadStates, InQuery, InTrans, UsesCursor
  <2>. QED  BY <1>2, <1>3, <2>1, <2>2, GotoFacts
<1>4. Statement(t) \in Own(t) /\ Statement(t) \in Writes /\ WriteInv(Statement(t)) /\ Statement(t)[2] = thread[t].n
      /\ Statement(t)[3] = 0 /\ Statement(t)[1] = t
  <2>1. Statement(t) \in Own(t)
    BY <1>1, ThreadFacts DEF At
  <2>2. Statement(t) \in Writes /\ WriteInv(Statement(t))
    BY <2>1, OwnFacts DEF Inv, WritesInv
  <2>. QED  BY <1>2, <2>1, <2>2 DEF Statement
<1>5. \A p \in {1, 2} : <<t, thread[t].n, p>> \in Own(t) /\ <<t, thread[t].n, p>> \in Writes
  <2>1. \A p \in 0 .. 2 : <<t, thread[t].n, p>> \in Own(t) /\ <<t, thread[t].n, p>> \in Writes
    BY <1>1, ThreadFacts DEF At
  <2>. QED  BY <2>1
<1>6. CASE /\ Committed(t) /\ UNCHANGED <<disturbed, unsure>>
           /\ \/ End(t) /\ acked' = IF thread[t].unbound THEN acked ELSE acked \cup {Statement(t)}
              \/ Goto(t, "recover") /\ acked' = acked
  <2>1. PICK done \in SUBSET Pend : /\ done = IF Aborted THEN {} ELSE Pend
                                    /\ applied' = AppliedOf(done)
    BY <1>1, <1>2, <1>6, CommittedFacts
  <2>2. Live' = {} /\ Live = Pend /\ ~ Aborted'
    BY <1>1, <1>2, <1>6, CommittedFacts
  <2>3. Seen(t)
    BY <1>1, <1>2, <1>6, CommittedSeen DEF Seen
  <2>4. Moves(t) /\ thread'[t].n = thread[t].n /\ thread'[t].pc \in {"idle", "recover"}
    BY <1>2, <1>3, <1>6, EndFacts
  <2>5. Grows
    BY <2>3 DEF Seen
  <2>6. PairInv(t, thread[t].n)'
    <3>1. \A p \in {1, 2} : LET w == <<t, thread[t].n, p>>
                            IN  w \notin Live => applied'[w] = applied[w] /\ w \notin Live'
      BY <1>5, <2>1, <2>2 DEF AppliedOf
    <3>. QED  BY <1>1, <2>4, <2>5, <3>1, QueryPair DEF InQuery
  <2>7. Statement(t) \in disturbed \/ applied[Statement(t)] > 0 \/ Statement(t) \in done
    BY <1>1, <1>4, <2>1 DEF WriteInv, DoneOK, Done, At
  <2>8. \A w \in Own(t) : w \in acked' => \/ w \in acked
                                          \/ w[2] = thread[t].n /\ (w \in disturbed' \/ applied[w] > 0 \/ w \in done)
    BY <1>4, <1>6, <2>7
  <2>9. (\A w \in Own(t) : WriteInv(w)') /\ \A m \in 1 .. MaxOps : PairInv(t, m)'
    BY <1>1, <2>1, <2>2, <2>4, <2>5, <2>6, <2>8, CommitOwn DEF UsesCursor
  <2>10. AbortedOK'
    BY <2>2, <2>4, AbortedStep
  <2>11. acked' \subseteq acked \cup Own(t)
    BY <1>4, <1>6
  <2>. QED  BY <2>3, <2>4, <2>9, <2>10, <2>11, ActorStep
<1>7. CASE CommitSevered(t) /\ Caught(t) /\ UNCHANGED <<acked, exposed>>
  <2>0. PICK pc \in {"reconnect", "recover"} : Goto(t, pc)
    BY <1>7 DEF Caught
  <2>1. PICK done \in SUBSET Live : applied' = AppliedOf(done) /\ done \subseteq unsure'
    <3>1. CASE UNCHANGED <<applied, unsure>>
      <4>1. applied' = AppliedOf({})
        BY <1>2, <3>1 DEF AppliedOf, ConnType
      <4>. QED  BY <4>1
    <3>2. CASE Live = Pend /\ applied' = AppliedOf(Pend) /\ unsure' = unsure \cup Pend
      BY <3>2
    <3>. QED  BY <1>1, <1>2, <1>7, <3>1, <3>2, CommitSeveredFacts
  <2>2. Live' = {} /\ ~ Aborted'
    BY <1>1, <1>2, <1>7, CommitSeveredFacts
  <2>3. Seen(t)
    BY <1>1, <1>2, <1>7, CommitSeveredSeen DEF Seen
  <2>4. Moves(t) /\ thread'[t].n = thread[t].n /\ thread'[t].pc = pc
    BY <1>3, <2>0
  <2>5. Grows
    BY <2>3 DEF Seen
  <2>6. PairInv(t, thread[t].n)'
    <3>1. \A p \in {1, 2} : LET w == <<t, thread[t].n, p>>
                            IN  w \notin Live => applied'[w] = applied[w] /\ w \notin Live'
      BY <1>5, <2>1, <2>2 DEF AppliedOf
    <3>. QED  BY <1>1, <2>4, <2>5, <3>1, QueryPair DEF InQuery
  <2>7. (\A w \in Own(t) : WriteInv(w)') /\ \A m \in 1 .. MaxOps : PairInv(t, m)'
    BY <1>1, <1>7, <2>1, <2>2, <2>4, <2>5, <2>6, CommitOwn DEF UsesCursor
  <2>8. AbortedOK'
    BY <2>2, <2>4, AbortedStep
  <2>. QED  BY <1>7, <2>3, <2>4, <2>7, <2>8, ActorStep
<1>8. CASE /\ conn[current].state = "closed" /\ Goto(t, "recover")
           /\ UNCHANGED <<conn, applied>> /\ UNCHANGED history
  <2>1. Seen(t) /\ Live' = Live /\ Open' = Open
    BY <1>1, <1>2, <1>8, QuietSeen DEF Seen, history, Others
  <2>2. Moves(t) /\ thread'[t].n = thread[t].n /\ thread'[t].pc = "recover"
    BY <1>3, <1>8
  <2>3. Quiet(t)
    BY <1>1, <1>8, <2>1, <2>2 DEF Quiet, At, UsesCursor, history
  <2>. QED  BY <1>1, <1>8, <2>1, <2>2, <2>3, QuietQuery DEF InQuery, history
<1>. QED  BY <1>6, <1>7, <1>8 DEF FinishWrite

(* Rolling back, and failing to.                                           *)
LEMMA RollbackFacts ==
  ASSUME Inv, NEW t \in Threads, UNCHANGED <<current, applied, exposed, unsure>>,
         \/ RolledBack(t)
         \/ /\ conn[current].state # "open"
            /\ conn' = [conn EXCEPT ![current].state = "closed"]
            /\ UNCHANGED disturbed
  PROVE  Seen(t) /\ Live' = {} /\ ~ (Open' /\ Aborted')
<1>1. ConnType /\ Others(t) \in SUBSET Writes /\ current \in 1 .. MaxConns
  BY DEF Inv, ConnType, Others
<1>2. CASE RolledBack(t)
  BY <1>1, <1>2, RolledBackSeen, RolledBackFacts DEF Seen
<1>3. CASE conn' = [conn EXCEPT ![current].state = "closed"] /\ UNCHANGED disturbed
  BY <1>1, <1>3, DropSeen, DropFacts DEF Seen
<1>. QED  BY <1>2, <1>3

LEMMA FinishReadStep == ASSUME Inv, NEW t \in Threads, FinishRead(t)  PROVE Inv'
<1>1. thread[t].pc = "finish" /\ thread[t].op = "read" /\ UNCHANGED <<current, applied, acked, exposed, unsure>>
  BY DEF FinishRead, At
<1>2. /\ ThreadType /\ ThreadOK(thread[t]) /\ thread[t] \in ThreadStates
  BY DEF Inv, ThreadType
<1>3. ASSUME NEW pc \in {"recover", "reconnect"}, Goto(t, pc)
      PROVE  Moves(t) /\ thread'[t].n = thread[t].n /\ thread'[t].pc = pc
  <2>1. pc \in InQuery \cup InTrans
    BY DEF InQuery
  <2>2. ThreadOK([thread[t] EXCEPT !.pc = pc])
    BY <1>1, <1>2 DEF ThreadOK, ThreadStates, InQuery, InTrans, UsesCursor
  <2>. QED  BY <1>2, <1>3, <2>1, <2>2, GotoFacts
<1>4. Moves(t) /\ thread'[t].n = thread[t].n /\ thread'[t].pc \in {"idle", "recover", "reconnect"}
  BY <1>2, <1>3, EndFacts DEF FinishRead, Caught
<1>5. Seen(t) /\ Live' = {} /\ ~ (Open' /\ Aborted')
  BY <1>1, RollbackFacts DEF FinishRead
<1>6. Quiet(t)
  BY <1>1, <1>4, <1>5 DEF Quiet, At, UsesCursor
<1>. QED  BY <1>1, <1>4, <1>5, <1>6, QuietQuery DEF InQuery

LEMMA RecoverStep == ASSUME Inv, NEW t \in Threads, Recover(t)  PROVE Inv'
<1>1. thread[t].pc = "recover" /\ UNCHANGED <<current, applied, acked, exposed, unsure>>
  BY DEF Recover, At
<1>2. Moves(t) /\ thread'[t].n = thread[t].n /\ thread'[t].pc = "idle"
  BY EndFacts DEF Recover, Inv
<1>3. Seen(t) /\ Live' = {} /\ ~ (Open' /\ Aborted')
  BY <1>1, RollbackFacts DEF Recover
<1>4. Quiet(t)
  BY <1>1, <1>2, <1>3 DEF Quiet, At, UsesCursor
<1>. QED  BY <1>1, <1>2, <1>3, <1>4, QuietQuery DEF InQuery

LEMMA ExitStep == ASSUME Inv, NEW t \in Threads, Exit(t)  PROVE Inv'
<1>1. thread[t].pc = "exit" /\ UNCHANGED <<current, applied, acked, exposed, unsure>>
  BY DEF Exit, At
<1>2. Moves(t) /\ thread'[t].n = thread[t].n /\ thread'[t].pc = "idle"
  BY EndFacts DEF Exit, Inv
<1>3. Seen(t) /\ Live' = {} /\ ~ (Open' /\ Aborted')
  BY <1>1, RollbackFacts DEF Exit
<1>4. Quiet(t)
  BY <1>1, <1>2, <1>3 DEF Quiet, At, UsesCursor
<1>5. Grows
  BY <1>3 DEF Seen
<1>6. PairInv(t, thread[t].n)'
  <2>1. PICK n \in 1 .. MaxOps : n = thread[t].n /\ PairInv(t, n)
    BY <1>1, ThreadFacts DEF At
  <2>. DEFINE f == <<t, n, 1>>  s == <<t, n, 2>>
  <2>2. f \in disturbed \/ s \in disturbed \/ Settled(f, s)
    BY <1>1, <2>1 DEF PairInv, At, InQuery
  <2>3. Settled(f, s) => Settled(f, s)'
    BY <1>1 DEF Settled
  <2>4. PairInv(t, n)'
    BY <1>2, <1>5, <2>2, <2>3 DEF PairInv, At, Grows
  <2>. QED  BY <1>2, <2>1, <2>4
<1>7. (\A w \in Own(t) : WriteInv(w)') /\ \A n \in 1 .. MaxOps : PairInv(t, n)'
  BY <1>4, <1>5, <1>6, QuietOwn
<1>8. AbortedOK'
  BY <1>2, <1>3, AbortedStep
<1>. QED  BY <1>1, <1>2, <1>3, <1>7, <1>8, ActorStep

LEMMA SeverStep == ASSUME Inv, NEW c \in DOMAIN conn, Sever(c)  PROVE Inv'
<1>1. /\ c \in 1 .. MaxConns /\ conn' = [conn EXCEPT ![c].state = "severed"]
      /\ UNCHANGED <<current, thread, applied>> /\ UNCHANGED history
      /\ ConnType /\ Writes \in SUBSET Writes
  BY DEF Sever, Inv, ConnType
<1>2. ConnType' /\ Grows /\ Keep(Writes) /\ (Open' => Open) /\ Aborted' = Aborted
  BY <1>1, DropSeen, DropFacts DEF history
<1>3. ASSUME NEW w \in Writes  PROVE WriteInv(w)'
  <2>1. WriteInv(w)
    BY DEF Inv, WritesInv
  <2>. QED  BY <1>1, <1>2, <2>1, ForeignWrites DEF history
<1>4. ASSUME NEW t \in Threads, NEW n \in 1 .. MaxOps  PROVE PairInv(t, n)'
  <2>1. <<t, n, 1>> \in Writes /\ <<t, n, 2>> \in Writes
    BY WriteFacts, 1 \in 0 .. 2, 2 \in 0 .. 2
  <2>2. WriteInv(<<t, n, 1>>) /\ WriteInv(<<t, n, 2>>) /\ PairInv(t, n)
    BY <2>1 DEF Inv, WritesInv, PairsInv
  <2>. QED  BY <1>1, <1>2, <2>1, <2>2, ForeignPairs DEF WriteInv
<1>5. ThreadType' /\ AbortedOK' /\ acked' \subseteq Writes
  BY <1>1, <1>2 DEF Inv, ThreadType, AbortedOK, history
<1>. QED  BY <1>2, <1>3, <1>4, <1>5 DEF Inv, WritesInv, PairsInv

LEMMA RunStatementStep == ASSUME Inv, NEW t \in Threads, RunStatement(t)  PROVE Inv'
<1>. DEFINE c == thread[t].cur
<1>1. thread[t].pc = "statement" /\ UNCHANGED <<current, applied, acked, exposed, unsure>>
  BY DEF RunStatement, At
<1>2. /\ ThreadType /\ ConnType /\ c \in 1 .. MaxConns /\ ThreadOK(thread[t])
      /\ thread[t] \in ThreadStates /\ thread[t].part \in {1, 2} /\ thread[t].op = "transaction"
  BY <1>1 DEF Inv, ThreadType, ThreadOK, UsesCursor, InTrans
<1>3. ASSUME NEW pc \in {"exit", "commit"}, Goto(t, pc), pc = "commit" => thread[t].part = 2
      PROVE  /\ Moves(t)
             /\ thread'[t].n = thread[t].n /\ thread'[t].pc = pc
             /\ thread'[t].part = thread[t].part /\ thread'[t].cur = thread[t].cur
  <2>1. pc \in InQuery \cup InTrans
    BY DEF InTrans
  <2>2. ThreadOK([thread[t] EXCEPT !.pc = pc])
    BY <1>1, <1>2, <1>3 DEF ThreadOK, ThreadStates, InQuery, InTrans, UsesCursor
  <2>. QED  BY <1>2, <1>3, <2>1, <2>2, GotoFacts
<1>4. PICK n \in 1 .. MaxOps : n = thread[t].n /\ PairInv(t, n)
  BY <1>1, ThreadFacts DEF At
<1>. DEFINE f == <<t, n, 1>>  s == <<t, n, 2>>
<1>5. /\ f \in Own(t) /\ s \in Own(t) /\ f \in Writes /\ s \in Writes /\ f # s
      /\ f[1] = t /\ f[2] = n /\ f[3] = 1 /\ s[1] = t /\ s[2] = n /\ s[3] = 2
  <2>1. f \in Own(t) /\ s \in Own(t) /\ f \in Writes /\ s \in Writes
    BY OwnFacts, WriteFacts, 1 \in 0 .. 2, 2 \in 0 .. 2
  <2>. QED  BY <2>1
<1>6. Live \subseteq Pend /\ applied[f] \in Nat /\ applied[s] \in Nat /\ CursorOK(f)
  BY <1>2, <1>5, ConnFacts DEF ConnType, Inv, WritesInv, WriteInv
<1>7. c = current \/ f \in disturbed
  BY <1>1, <1>4, <1>5, <1>6 DEF CursorOK, UsesCursor
<1>8. \/ f \in disturbed \/ s \in disturbed
      \/ thread[t].part = 1 /\ Untouched(f) /\ Untouched(s)
      \/ thread[t].part = 2 /\ (Held(f) \/ Early(f)) /\ Untouched(s)
  BY <1>1, <1>4 DEF PairInv, At, InQuery
<1> HIDE DEF c
<1>9. CASE Executed(t, c) /\ UNCHANGED disturbed
           /\ thread' = IF thread[t].part = 1 THEN [thread EXCEPT ![t].part = 2]
                                              ELSE [thread EXCEPT ![t].pc = "commit"]
  <2>1. Statement(t) \in Own(t) /\ Statement(t) \in Writes /\ Statement(t) = <<t, n, thread[t].part>>
    <3>1. Statement(t) \in Own(t)
      BY <1>1, ThreadFacts DEF At
    <3>. QED  BY <1>4, <3>1, OwnFacts DEF Statement
  <2>2. Seen(t)
    BY <1>1, <1>2, <1>9, <2>1, ExecutedSeen DEF Seen
  <2>3. /\ Aborted' = Aborted /\ Open' = Open
        /\ IF c = current
           THEN ~ Aborted /\ Live = Pend /\ Live' = Pend' /\ Pend' = Pend \cup {Statement(t)}
           ELSE Live' = Live /\ Pend' = Pend
    BY <1>1, <1>2, <1>9, <2>1, ExecutedFacts
  <2>4. /\ Moves(t) /\ thread'[t].n = n /\ thread'[t].cur = c
        /\ thread'[t].part = 2
        /\ thread'[t].pc = IF thread[t].part = 1 THEN "statement" ELSE "commit"
    <3>1. CASE thread[t].part = 1
      <4>1. thread' = [thread EXCEPT ![t].part = 2]
        BY <1>9, <3>1
      <4>2. thread' \in [Threads -> ThreadStates] /\ \A u \in Threads \ {t} : thread'[u] = thread[u]
        BY <1>2, <4>1 DEF ThreadType, ThreadStates
      <4>3. /\ thread'[t].n = n /\ thread'[t].cur = c /\ thread'[t].op = "transaction"
            /\ thread'[t].part = 2 /\ thread'[t].pc = "statement"
        BY <1>1, <1>2, <1>4, <4>1 DEF ThreadType, ThreadStates, c
      <4>4. ThreadOK(thread'[t])
        BY <1>2, <1>4, <4>3 DEF ThreadOK, InQuery, InTrans, UsesCursor
      <4>. QED  BY <3>1, <4>2, <4>3, <4>4 DEF Moves
    <3>2. CASE thread[t].part = 2
      <4>1. Goto(t, "commit")
        BY <1>9, <3>2 DEF Goto
      <4>. QED  BY <1>3, <1>4, <3>2, <4>1 DEF c
    <3>. QED  BY <1>2, <3>1, <3>2
  <2>5. \A w \in Own(t) : w \in Done(t)' => w \in Done(t) \/ (w = Statement(t) /\ thread[t].op # "read")
    <3>1. SUFFICES ASSUME NEW w \in Own(t), w \in Done(t)', w # Statement(t)
                   PROVE  w \in Done(t)
      BY <1>2
    <3>2. w[2] = n /\ w[3] \in {1, 2}
      BY <2>4, <3>1 DEF Done, At
    <3>3. w = <<t, n, w[3]>>
      BY <3>2, OwnFacts, WriteFacts
    <3>4. w[3] # thread[t].part
      BY <2>1, <3>1, <3>3
    <3>5. CASE thread[t].part = 1
      BY <2>4, <3>1, <3>2, <3>4, <3>5 DEF Done, At
    <3>6. CASE thread[t].part = 2
      BY <1>1, <1>4, <3>2, <3>4, <3>6 DEF Done, At
    <3>. QED  BY <1>2, <3>5, <3>6
  <2>6. PairInv(t, n)'
    <3>1. CASE c = current /\ thread[t].part = 1 /\ Untouched(f) /\ Untouched(s)
      <4>1. Held(f)' /\ Untouched(s)'
        BY <1>1, <1>5, <2>1, <2>3, <3>1 DEF Held, Untouched
      <4>. QED  BY <2>4, <3>1, <4>1 DEF PairInv, At
    <3>2. CASE c = current /\ thread[t].part = 2 /\ (Held(f) \/ Early(f)) /\ Untouched(s)
      <4>1. Held(s)' /\ (Held(f)' \/ Early(f)')
        BY <1>1, <1>5, <2>1, <2>3, <3>2 DEF Held, Untouched, Early
      <4>. QED  BY <2>4, <3>2, <4>1 DEF PairInv, At
    <3>. QED  BY <1>7, <1>8, <1>9, <3>1, <3>2 DEF PairInv
  <2>7. (\A w \in Own(t) : WriteInv(w)') /\ \A m \in 1 .. MaxOps : PairInv(t, m)'
    BY <1>1, <1>4, <1>9, <2>4, <2>5, <2>6, ExecutedOwn DEF history, c
  <2>8. AbortedOK'
    BY <1>1, <2>3, <2>4, AbortedStep
  <2>. QED  BY <1>1, <2>2, <2>4, <2>7, <2>8, ActorStep
<1>10. CASE \/ StatementFails(t, c) /\ Goto(t, "exit")
            \/ StatementSevered(c) /\ Goto(t, "exit") /\ UNCHANGED disturbed
  <2>1. Moves(t) /\ thread'[t].n = n /\ thread'[t].pc = "exit"
    BY <1>3, <1>4, <1>10
  <2>2. Others(t) \in SUBSET Writes
    BY DEF Others
  <2>3. Seen(t) /\ Live' \subseteq Live /\ (c = current => Live' = {} \/ Aborted')
    <3>1. CASE StatementFails(t, c)
      BY <1>1, <1>2, <3>1, FailsSeen, FailsFacts DEF Seen
    <3>2. CASE StatementSevered(c) /\ UNCHANGED disturbed
      BY <1>1, <1>2, <2>2, <3>2, DropSeen, DropFacts DEF Seen, StatementSevered
    <3>. QED  BY <1>10, <3>1, <3>2
  <2>4. Quiet(t) /\ Grows
    BY <1>1, <1>4, <2>1, <2>3 DEF Quiet, At, UsesCursor, Seen
  <2>5. Settled(f, s) \/ f \in disturbed \/ s \in disturbed
    BY <1>8 DEF Settled, Untouched, Held, Early
  <2>6. Settled(f, s) => Settled(f, s)'
    BY <1>1 DEF Settled
  <2>7. f \in Live' \/ s \in Live' => Aborted' \/ f \in disturbed
    BY <1>7, <2>3
  <2>8. PairInv(t, n)'
    BY <2>1, <2>4, <2>5, <2>6, <2>7 DEF PairInv, At, Grows
  <2>9. (\A w \in Own(t) : WriteInv(w)') /\ \A m \in 1 .. MaxOps : PairInv(t, m)'
    <3>1. PairInv(t, thread[t].n)'
      BY <2>1, <2>8
    <3>. QED  BY <2>4, <3>1, QuietOwn
  <2>10. AbortedOK'
    BY <2>1, AbortedStep
  <2>. QED  BY <1>1, <2>1, <2>3, <2>9, <2>10, ActorStep
<1>. QED  BY <1>9, <1>10 DEF RunStatement, c

LEMMA CommitTransactionStep == ASSUME Inv, NEW t \in Threads, CommitTransaction(t)  PROVE Inv'
<1>1. thread[t].pc = "commit" /\ current' = current
  BY DEF CommitTransaction, At
<1>2. /\ ThreadType /\ ConnType /\ ThreadOK(thread[t]) /\ thread[t] \in ThreadStates
  BY DEF Inv, ThreadType
<1>3. ASSUME Goto(t, "exit")
      PROVE  Moves(t) /\ thread'[t].n = thread[t].n /\ thread'[t].pc = "exit"
  <2>1. "exit" \in InQuery \cup InTrans
    BY DEF InTrans
  <2>2. ThreadOK([thread[t] EXCEPT !.pc = "exit"])
    BY <1>1, <1>2 DEF ThreadOK, ThreadStates, InQuery, InTrans, UsesCursor
  <2>. QED  BY <1>2, <1>3, <2>1, <2>2, GotoFacts
<1>4. PICK n \in 1 .. MaxOps : n = thread[t].n /\ PairInv(t, n)
  BY <1>1, ThreadFacts DEF At
<1>. DEFINE f == <<t, n, 1>>  s == <<t, n, 2>>
<1>5. /\ f \in Own(t) /\ s \in Own(t) /\ f \in Writes /\ s \in Writes
      /\ f[2] = n /\ f[3] = 1 /\ s[2] = n /\ s[3] = 2 /\ f[1] = t /\ s[1] = t
  <2>1. f \in Own(t) /\ s \in Own(t) /\ f \in Writes /\ s \in Writes
    BY OwnFacts, WriteFacts, 1 \in 0 .. 2, 2 \in 0 .. 2
  <2>. QED  BY <2>1
<1>6. /\ Live \subseteq Pend /\ applied[f] \in Nat /\ applied[s] \in Nat /\ DoneOK(f) /\ DoneOK(s)
  BY <1>2, <1>5, ConnFacts DEF ConnType, Inv, WritesInv, WriteInv
<1>7. \A w \in {f, s} : w \in disturbed \/ applied[w] > 0 \/ (w \in Pend /\ ~ Aborted)
  BY <1>1, <1>4, <1>5, <1>6 DEF DoneOK, Done, At
<1>8. \/ f \in disturbed \/ s \in disturbed
      \/ Held(f) /\ Held(s)
      \/ Early(f) /\ (Held(s) \/ Early(s))
  BY <1>1, <1>4 DEF PairInv, At, InQuery
<1> HIDE DEF f, s
<1>9. CASE /\ Committed(t) /\ UNCHANGED <<disturbed, unsure>> /\ End(t)
           /\ acked' = acked \cup {<<t, thread[t].n, 1>>, <<t, thread[t].n, 2>>}
  <2>1. PICK done \in SUBSET Pend : /\ done = IF Aborted THEN {} ELSE Pend
                                    /\ applied' = AppliedOf(done) /\ exposed \subseteq exposed'
    BY <1>1, <1>2, <1>9, CommittedFacts
  <2>2. Live' = {} /\ Live = Pend /\ ~ Aborted'
    BY <1>1, <1>2, <1>9, CommittedFacts
  <2>3. Seen(t)
    BY <1>1, <1>2, <1>9, CommittedSeen DEF Seen
  <2>4. Moves(t) /\ thread'[t].n = n /\ thread'[t].pc = "idle"
    BY <1>2, <1>4, <1>9, EndFacts
  <2>5. Grows
    BY <2>3 DEF Seen
  <2>6. PairInv(t, thread[t].n)'
    <3>1. /\ applied'[f] = IF f \in done THEN applied[f] + 1 ELSE applied[f]
          /\ applied'[s] = IF s \in done THEN applied[s] + 1 ELSE applied[s]
      BY <1>5, <2>1 DEF AppliedOf
    <3>2. ASSUME Held(f), Held(s)  PROVE Settled(f, s)'
      BY <2>1, <3>1, <3>2 DEF Held, Settled
    <3>3. ASSUME Early(f), Held(s) \/ Early(s)  PROVE Settled(f, s)'
      BY <2>1, <2>2, <3>1, <3>3 DEF Held, Early, Settled
    <3>4. f \in disturbed \/ s \in disturbed \/ Settled(f, s)'
      BY <1>8, <3>2, <3>3
    <3>5. PairInv(t, n)'
      BY <2>4, <2>5, <3>4 DEF PairInv, At, Grows, f, s
    <3>. QED  BY <2>4, <3>5
  <2>7. \A w \in Own(t) : w \in acked' => \/ w \in acked
                                          \/ w[2] = thread[t].n /\ (w \in disturbed' \/ applied[w] > 0 \/ w \in done)
    BY <1>4, <1>5, <1>7, <1>9, <2>1 DEF f, s
  <2>8. (\A w \in Own(t) : WriteInv(w)') /\ \A m \in 1 .. MaxOps : PairInv(t, m)'
    BY <1>1, <1>4, <2>1, <2>2, <2>4, <2>5, <2>6, <2>7, CommitOwn DEF UsesCursor
  <2>9. AbortedOK'
    BY <2>2, <2>4, AbortedStep
  <2>10. acked' \subseteq acked \cup Own(t)
    BY <1>4, <1>5, <1>9 DEF f, s
  <2>. QED  BY <2>3, <2>4, <2>8, <2>9, <2>10, ActorStep
<1>10. CASE CommitSevered(t) /\ Goto(t, "exit") /\ UNCHANGED <<acked, exposed>>
  <2>1. PICK done \in SUBSET Live : /\ applied' = AppliedOf(done) /\ done \subseteq unsure'
                                    /\ done = {} \/ (done = Pend /\ Live = Pend)
    <3>1. CASE UNCHANGED <<applied, unsure>>
      <4>1. applied' = AppliedOf({})
        BY <1>2, <3>1 DEF AppliedOf, ConnType
      <4>. QED  BY <4>1
    <3>2. CASE Live = Pend /\ applied' = AppliedOf(Pend) /\ unsure' = unsure \cup Pend
      BY <3>2
    <3>. QED  BY <1>1, <1>2, <1>10, <3>1, <3>2, CommitSeveredFacts
  <2>2. Live' = {} /\ ~ Aborted'
    BY <1>1, <1>2, <1>10, CommitSeveredFacts
  <2>3. Seen(t)
    BY <1>1, <1>2, <1>10, CommitSeveredSeen DEF Seen
  <2>4. Moves(t) /\ thread'[t].n = n /\ thread'[t].pc = "exit"
    BY <1>3, <1>4, <1>10
  <2>5. Grows
    BY <2>3 DEF Seen
  <2>6. PairInv(t, thread[t].n)'
    <3>1. /\ applied'[f] = IF f \in done THEN applied[f] + 1 ELSE applied[f]
          /\ applied'[s] = IF s \in done THEN applied[s] + 1 ELSE applied[s]
      BY <1>5, <2>1 DEF AppliedOf
    <3>2. ASSUME Held(f), Held(s)  PROVE Settled(f, s)'
      BY <2>1, <3>1, <3>2 DEF Held, Settled
    <3>3. ASSUME Early(f), Held(s) \/ Early(s)  PROVE Settled(f, s)'
      BY <1>10, <2>1, <2>5, <3>1, <3>3 DEF Held, Early, Settled, Grows
    <3>4. f \in disturbed \/ s \in disturbed \/ Settled(f, s)'
      BY <1>8, <3>2, <3>3
    <3>5. PairInv(t, n)'
      BY <2>2, <2>4, <2>5, <3>4 DEF PairInv, At, Grows, f, s
    <3>. QED  BY <2>4, <3>5
  <2>7. (\A w \in Own(t) : WriteInv(w)') /\ \A m \in 1 .. MaxOps : PairInv(t, m)'
    BY <1>1, <1>4, <1>10, <2>1, <2>2, <2>4, <2>5, <2>6, CommitOwn DEF UsesCursor
  <2>8. AbortedOK'
    BY <2>2, <2>4, AbortedStep
  <2>. QED  BY <1>10, <2>3, <2>4, <2>7, <2>8, ActorStep
<1>11. CASE /\ conn[current].state = "closed" /\ Goto(t, "exit")
            /\ UNCHANGED <<conn, applied>> /\ UNCHANGED history
  <2>1. Seen(t) /\ Grows /\ Live' = Live /\ Open' = Open /\ Live = {}
    BY <1>1, <1>2, <1>11, QuietSeen, ConnFacts DEF Seen, history, Others, Open
  <2>2. Moves(t) /\ thread'[t].n = n /\ thread'[t].pc = "exit"
    BY <1>3, <1>4, <1>11
  <2>3. Quiet(t)
    BY <1>1, <1>4, <1>11, <2>1, <2>2 DEF Quiet, At, UsesCursor, history
  <2>4. PairInv(t, thread[t].n)'
    <3>1. f \in disturbed \/ s \in disturbed \/ Settled(f, s)
      BY <1>8 DEF Held, Early, Settled
    <3>2. Settled(f, s) => Settled(f, s)'
      BY <1>11 DEF Settled, history
    <3>3. PairInv(t, n)'
      BY <2>1, <2>2, <3>1, <3>2 DEF PairInv, At, Grows, f, s
    <3>. QED  BY <2>2, <3>3
  <2>5. (\A w \in Own(t) : WriteInv(w)') /\ \A m \in 1 .. MaxOps : PairInv(t, m)'
    BY <2>1, <2>3, <2>4, QuietOwn
  <2>6. AbortedOK'
    BY <2>2, AbortedStep
  <2>. QED  BY <1>11, <2>1, <2>2, <2>5, <2>6, ActorStep DEF history
<1>. QED  BY <1>9, <1>10, <1>11 DEF CommitTransaction

LEMMA StutterStep == ASSUME Inv, UNCHANGED vars  PROVE Inv'
<1>1. UNCHANGED <<conn, current, thread, applied>> /\ UNCHANGED history
  BY DEF vars, history
<1>2. ConnType' /\ Grows /\ Keep(Writes) /\ Aborted' = Aborted /\ Open' = Open
  BY <1>1, QuietSeen DEF history, Inv
<1>3. ASSUME NEW w \in Writes  PROVE WriteInv(w)'
  BY <1>1, <1>2, ForeignWrites DEF Inv, WritesInv, history
<1>4. ASSUME NEW t \in Threads, NEW n \in 1 .. MaxOps  PROVE PairInv(t, n)'
  <2>1. <<t, n, 1>> \in Writes /\ <<t, n, 2>> \in Writes
    BY WriteFacts, 1 \in 0 .. 2, 2 \in 0 .. 2
  <2>2. WriteInv(<<t, n, 1>>) /\ WriteInv(<<t, n, 2>>) /\ PairInv(t, n) /\ ConnType
    BY <2>1 DEF Inv, WritesInv, PairsInv
  <2>. QED  BY <1>1, <1>2, <2>1, <2>2, ForeignPairs DEF WriteInv
<1>5. ThreadType' /\ AbortedOK' /\ acked' \subseteq Writes
  BY <1>1, <1>2 DEF Inv, ThreadType, AbortedOK, history
<1>. QED  BY <1>2, <1>3, <1>4, <1>5 DEF Inv, WritesInv, PairsInv

LEMMA InitInv == Init => Inv
<1>. SUFFICES ASSUME Init  PROVE Inv
  OBVIOUS
<1>1. ConnType
  BY NewConnFacts, SqlAssumption DEF Init, ConnType
<1>2. \A t \in Threads : /\ thread[t] = Idle(0) /\ thread[t].n = 0 /\ thread[t].pc = "idle"
  BY DEF Init, Idle, Begin
<1>3. Idle(0) \in ThreadStates /\ ThreadOK(Idle(0))
  BY SqlAssumption DEF Idle, Begin, ThreadStates, ThreadOK, InQuery, InTrans, UsesCursor
<1>4. ThreadType
  BY <1>3 DEF Init, ThreadType
<1>5. Pend = {} /\ Live = {} /\ ~ Aborted
  BY NewConnFacts, SqlAssumption DEF Init, Pend, Live, Aborted
<1>6. ASSUME NEW w \in Writes  PROVE WriteInv(w)
  <2>1. w[1] \in Threads /\ applied[w] = 0 /\ w \notin acked
    BY WriteFacts DEF Init
  <2>. QED  BY <1>2, <1>5, <2>1 DEF WriteInv, LiveOK, OnceOK, CursorOK, DoneOK, Done, At, AckedOK, UsesCursor
<1>7. PairsInv
  BY <1>2 DEF PairsInv, PairInv
<1>8. acked \subseteq Writes
  BY DEF Init
<1>. QED  BY <1>1, <1>4, <1>5, <1>6, <1>7, <1>8 DEF Inv, WritesInv, AbortedOK
-----------------------------------------------------------------------------
(* Inv, which implies the four properties below, is inductive.             *)
THEOREM Invariance == Spec => []Inv
<1>1. Inv /\ [Next]_vars => Inv'
  <2>. SUFFICES ASSUME Inv, [Next]_vars  PROVE Inv'
    OBVIOUS
  <2>1. ASSUME NEW t \in Threads, StartQuery(t) \/ StartTransaction(t)  PROVE Inv'
    BY <2>1, StartQueryStep, StartTransactionStep
  <2>2. ASSUME NEW t \in Threads, Query(t)  PROVE Inv'
    BY <2>2, CheckConnectionStep, OpenCursorStep, ExecuteStep, FinishWriteStep, FinishReadStep,
       ReconnectStep, RecoverStep DEF Query
  <2>3. ASSUME NEW t \in Threads, InTransaction(t)  PROVE Inv'
    BY <2>3, EnterStep, RunStatementStep, CommitTransactionStep, ExitStep DEF InTransaction
  <2>4. ASSUME NEW c \in DOMAIN conn, Sever(c)  PROVE Inv'
    BY <2>4, SeverStep
  <2>5. CASE UNCHANGED vars
    BY <2>5, StutterStep
  <2>. QED  BY <2>1, <2>2, <2>3, <2>4, <2>5 DEF Next
<1>. QED  BY <1>1, InitInv, PTL DEF Spec

(* AckedIsDurable: a write whose commit (line 69) was reported to the      *)
(* caller of query is in the database, unless another thread disturbed it. *)
THEOREM DurableTheorem == Spec => []AckedIsDurable
<1>1. Inv => AckedIsDurable
  BY DEF Inv, WritesInv, WriteInv, AckedOK, AckedIsDurable, ConnType
<1>. QED  BY <1>1, Invariance, PTL

(* AppliedOnce: the retry of query (line 87) applies a statement twice     *)
(* only if the reply to its first commit was lost, or another thread had   *)
(* committed it.                                                           *)
THEOREM OnceTheorem == Spec => []AppliedOnce
<1>1. Inv => AppliedOnce
  BY DEF Inv, WritesInv, WriteInv, OnceOK, AppliedOnce, ConnType
<1>. QED  BY <1>1, Invariance, PTL

(* TransactionAtomic: a finished Transaction (lines 121-186) has taken     *)
(* effect as a whole or not at all, unless another thread ended it on the  *)
(* shared connection.                                                      *)
THEOREM AtomicTheorem == Spec => []TransactionAtomic
<1>1. ASSUME Inv, NEW t \in Threads, NEW n \in 1 .. MaxOps, thread[t] = Idle(n)
      PROVE  \/ <<t, n, 1>> \in disturbed \/ <<t, n, 2>> \in disturbed
             \/ Settled(<<t, n, 1>>, <<t, n, 2>>)
  <2>1. thread[t].n = n /\ thread[t].pc = "idle"
    BY <1>1 DEF Idle, Begin
  <2>2. PairInv(t, n)
    BY <1>1 DEF Inv, PairsInv
  <2>. QED  BY <2>1, <2>2 DEF PairInv, At, InQuery
<1>2. Inv => TransactionAtomic
  BY <1>1 DEF TransactionAtomic, Settled
<1>. QED  BY <1>2, Invariance, PTL

(* NothingHalfDone: when every thread is idle, the handlers of query and   *)
(* __exit__ have left nothing uncommitted on the connection.               *)
THEOREM HalfDoneTheorem == Spec => []NothingHalfDone
<1>1. ASSUME Inv, \A t \in Threads : At(t, "idle"), Open  PROVE Pend = {} /\ ~ Aborted
  <2>1. ~ Aborted
    BY <1>1 DEF Inv, AbortedOK, At
  <2>2. Pend \subseteq Writes /\ Live = Pend
    BY <1>1, ConnFacts DEF Inv
  <2>3. \A w \in Writes : w[1] \in Threads /\ w \notin Live
    BY <1>1, WriteFacts DEF Inv, WritesInv, WriteInv, LiveOK, Holding, At
  <2>. QED  BY <2>1, <2>2, <2>3
<1>2. Inv => NothingHalfDone
  BY <1>1 DEF NothingHalfDone, Open, Pend, Aborted
<1>. QED  BY <1>2, Invariance, PTL
-----------------------------------------------------------------------------
(* How often a write can still be executed by the operation it belongs to: *)
(* each try of a query executes it once at most, and Reconnect stops at    *)
(* maxretry.  What it has taken effect, is pending and can still be        *)
(* executed make up no more than MaxRetry.                                 *)
LeftOf(th, w) ==
  IF w[2] # th.n THEN IF w[2] > th.n THEN MaxRetry ELSE 0
  ELSE IF w[3] = 0
       THEN IF th.pc \in {"check", "cursor", "execute"} THEN th.retries
            ELSE IF th.pc \in {"finish", "reconnect", "recover"} THEN th.retries - 1 ELSE 0
       ELSE IF th.pc \in {"enter", "statement"} /\ w[3] >= th.part THEN 1 ELSE 0

Used(w) == applied[w] + IF w \in Pend THEN 1 ELSE 0

TriesOK(th) == th.pc \in InQuery => th.retries \in 1 .. MaxRetry

HistoryOK == disturbed \subseteq Writes /\ exposed \subseteq Writes /\ unsure \subseteq Writes

Bounded ==
  /\ HistoryOK
  /\ current \in Connected /\ \A t \in Threads : thread[t].cur \in Connected \cup {0}
  /\ \A t \in Threads : TriesOK(thread[t])
  /\ \A w \in Writes : Used(w) + LeftOf(thread[w[1]], w) <= MaxRetry

Typed == ConnType /\ ThreadType

(* What every step but an execution does to the connections and writes.    *)
Effects ==
  /\ HistoryOK' /\ Connected \subseteq Connected' /\ current' \in Connected'
  /\ \A w \in Writes : Used(w)' <= Used(w)

LEMMA UsedFacts ==
  ASSUME Typed
  PROVE  /\ \A w \in Writes : applied[w] \in Nat /\ Used(w) \in Nat
                              /\ Used(w) = IF w \in Pend THEN applied[w] + 1 ELSE applied[w]
         /\ \A c \in 1 .. MaxConns : conn[c].pending \subseteq Writes
         /\ \A t \in Threads : UnderWay(t) \subseteq Writes
<1>1. \A w \in Writes : applied[w] \in Nat
  BY DEF Typed, ConnType
<1>2. \A c \in 1 .. MaxConns : conn[c].pending \subseteq Writes
  BY DEF Typed, ConnType, Conns
<1>3. \A t \in Threads : UnderWay(t) \subseteq Writes
  BY <1>2 DEF Typed, ConnType, UnderWay
<1>. QED  BY <1>1, <1>2, <1>3 DEF Used

LEMMA UsedNext == ASSUME Typed'  PROVE \A w \in Writes : Used(w)' \in Nat
BY DEF Typed, ConnType, Used

LEMMA LinkFacts ==
  ASSUME Typed, Bounded, NEW c \in 1 .. MaxConns, NEW k \in Conns, k.state # "none",
         conn' = [conn EXCEPT ![c] = k], current' \in {current, c}
  PROVE  Connected \subseteq Connected' /\ current' \in Connected'
<1>1. DOMAIN conn = 1 .. MaxConns /\ DOMAIN conn' = 1 .. MaxConns
  BY DEF Typed, ConnType
<1>2. conn'[c] = k /\ \A d \in 1 .. MaxConns : d # c => conn'[d] = conn[d]
  BY DEF Typed, ConnType
<1>. QED  BY <1>1, <1>2 DEF Bounded, Connected

LEMMA CommittedEffects ==
  ASSUME Typed, Typed', Bounded, NEW t \in Threads, Committed(t), UNCHANGED <<current, disturbed, unsure>>
  PROVE  Effects
<1>1. PICK done \in SUBSET Pend : applied' = AppliedOf(done) /\ exposed' = exposed \cup (done \ Own(t))
  BY CommittedFacts DEF Typed
<1>2. Pend' = {} /\ Pend \subseteq Writes
  BY CommittedFacts, ConnFacts DEF Typed
<1>3. HistoryOK'
  BY <1>1, <1>2 DEF Bounded, HistoryOK
<1>4. \A w \in Writes : Used(w)' <= Used(w)
  BY <1>1, <1>2, UsedFacts DEF Used, AppliedOf
<1>5. Connected \subseteq Connected' /\ current' \in Connected'
  BY LinkFacts, NewConnFacts DEF Committed, Typed, ConnType
<1>. QED  BY <1>3, <1>4, <1>5 DEF Effects

LEMMA CommitSeveredEffects ==
  ASSUME Typed, Typed', Bounded, NEW t \in Threads, CommitSevered(t), UNCHANGED <<current, exposed>>
  PROVE  Effects
<1>1. /\ Pend' = {} /\ disturbed' = disturbed \cup (Pend \ Own(t))
      /\ \/ UNCHANGED <<applied, unsure>>
         \/ applied' = AppliedOf(Pend) /\ unsure' = unsure \cup Pend
  BY CommitSeveredFacts DEF Typed
<1>2. Pend \subseteq Writes
  BY ConnFacts DEF Typed
<1>3. HistoryOK'
  BY <1>1, <1>2 DEF Bounded, HistoryOK
<1>4. \A w \in Writes : Used(w)' <= Used(w)
  BY <1>1, <1>2, UsedFacts DEF Used, AppliedOf
<1>5. Connected \subseteq Connected' /\ current' \in Connected'
  BY LinkFacts, NewConnFacts DEF CommitSevered, Typed, ConnType
<1>. QED  BY <1>3, <1>4, <1>5 DEF Effects

LEMMA RolledBackEffects ==
  ASSUME Typed, Typed', Bounded, NEW t \in Threads, RolledBack(t),
         UNCHANGED <<current, applied, exposed, unsure>>
  PROVE  Effects
<1>1. Pend' = {} /\ disturbed' = disturbed \cup (Pend \ Own(t)) /\ Pend \subseteq Writes
  BY RolledBackFacts, ConnFacts DEF Typed
<1>2. HistoryOK'
  BY <1>1 DEF Bounded, HistoryOK
<1>3. \A w \in Writes : Used(w)' <= Used(w)
  BY <1>1, UsedFacts DEF Used
<1>4. Connected \subseteq Connected' /\ current' \in Connected'
  BY LinkFacts, NewConnFacts DEF RolledBack, Typed, ConnType
<1>. QED  BY <1>2, <1>3, <1>4 DEF Effects

LEMMA FailsEffects ==
  ASSUME Typed, Typed', Bounded, NEW t \in Threads, NEW c \in 1 .. MaxConns, StatementFails(t, c),
         UNCHANGED <<current, applied, exposed, unsure>>
  PROVE  Effects
<1>1. /\ conn[c].state = "open" /\ conn' = [conn EXCEPT ![c] = [conn[c] EXCEPT !.aborted = TRUE]]
      /\ disturbed' = disturbed \cup (conn[c].pending \ Own(t))
  BY DEF StatementFails
<1>2. Pend' = Pend
  BY FailsFacts DEF Typed
<1>3. HistoryOK'
  BY <1>1, UsedFacts DEF Bounded, HistoryOK
<1>4. \A w \in Writes : Used(w)' <= Used(w)
  BY <1>2, UsedFacts DEF Used
<1>5. [conn[c] EXCEPT !.aborted = TRUE] \in Conns /\ [conn[c] EXCEPT !.aborted = TRUE].state # "none"
  BY <1>1 DEF Typed, ConnType, Conns
<1>6. Connected \subseteq Connected' /\ current' \in Connected'
  BY <1>1, <1>5, LinkFacts
<1>. QED  BY <1>3, <1>4, <1>6 DEF Effects

LEMMA DropEffects ==
  ASSUME Typed, Typed', Bounded, NEW c \in 1 .. MaxConns, NEW s \in {"severed", "closed"},
         conn' = [conn EXCEPT ![c].state = s], UNCHANGED <<current, applied, disturbed, exposed, unsure>>
  PROVE  Effects
<1>1. Pend' = Pend
  BY DropFacts DEF Typed
<1>2. HistoryOK'
  BY DEF Bounded, HistoryOK
<1>3. \A w \in Writes : Used(w)' <= Used(w)
  BY <1>1, UsedFacts DEF Used
<1>4. [conn[c] EXCEPT !.state = s] \in Conns /\ [conn[c] EXCEPT !.state = s].state # "none"
  BY DEF Typed, ConnType, Conns
<1>5. Connected \subseteq Connected' /\ current' \in Connected'
  BY <1>4, LinkFacts
<1>. QED  BY <1>2, <1>3, <1>5 DEF Effects

LEMMA ConnectEffects ==
  ASSUME Typed, Typed', Bounded, NEW t \in Threads, Connect(t) \/ UNCHANGED <<conn, current, disturbed>>,
         UNCHANGED <<applied, exposed, unsure>>
  PROVE  Effects
<1>1. CASE UNCHANGED <<conn, current, disturbed>>
  <2>1. Pend' = Pend /\ Connected' = Connected
    BY <1>1 DEF Pend, Connected
  <2>. QED  BY <1>1, <2>1, UsedFacts DEF Effects, Bounded, HistoryOK, Used
<1>2. CASE \E c \in DOMAIN conn : /\ conn' = [conn EXCEPT ![c] = NewConn] /\ current' = c
                                  /\ disturbed' = disturbed \cup UnderWay(t)
  <2>1. PICK c \in 1 .. MaxConns : /\ conn' = [conn EXCEPT ![c] = NewConn] /\ current' = c
                                   /\ disturbed' = disturbed \cup UnderWay(t)
    BY <1>2 DEF Typed, ConnType
  <2>2. Pend' = {}
    BY <2>1, NewConnFacts DEF Typed, ConnType, Pend
  <2>3. HistoryOK'
    BY <2>1, UsedFacts DEF Bounded, HistoryOK
  <2>4. \A w \in Writes : Used(w)' <= Used(w)
    BY <2>2, UsedFacts DEF Used
  <2>5. Connected \subseteq Connected' /\ current' \in Connected'
    BY <2>1, LinkFacts, NewConnFacts
  <2>. QED  BY <2>3, <2>4, <2>5 DEF Effects
<1>. QED  BY <1>1, <1>2 DEF Connect

LEMMA QuietEffects ==
  ASSUME Typed, Bounded, UNCHANGED <<conn, current, applied>>, UNCHANGED history
  PROVE  Effects
<1>1. Pend' = Pend /\ Connected' = Connected
  BY DEF Pend, Connected
<1>. QED  BY <1>1, UsedFacts DEF Effects, Bounded, HistoryOK, Used, history
-----------------------------------------------------------------------------
(* How a thread goes on with its operation, or ends it, without executing. *)
Proceeds(a, b) ==
  /\ b.n = a.n
  /\ \/ b.pc = "idle"
     \/ a.pc \in InQuery /\ b.pc \in {"reconnect", "recover"} /\ b.retries = a.retries
     \/ <<a.pc, b.pc>> \in {<<"check", "cursor">>, <<"cursor", "execute">>} /\ b.retries = a.retries
     \/ a.pc = "reconnect" /\ b.pc = "check" /\ a.retries > 1 /\ b.retries = a.retries - 1
     \/ a.pc = "enter" /\ b.pc \in {"enter", "statement"} /\ b.part = a.part
     \/ a.pc \in InTrans /\ b.pc = "exit"

LEMMA LeftFacts ==
  ASSUME NEW th \in ThreadStates, TriesOK(th), NEW w \in Writes
  PROVE  LeftOf(th, w) \in Nat
BY WriteFacts, SqlAssumption DEF LeftOf, TriesOK, InQuery, ThreadStates

LEMMA ProceedsFacts ==
  ASSUME NEW a \in ThreadStates, NEW b \in ThreadStates, TriesOK(a), Proceeds(a, b)
  PROVE  TriesOK(b) /\ \A w \in Writes : LeftOf(b, w) <= LeftOf(a, w)
<1>1. a.retries \in Int /\ b.retries \in Int
  BY DEF ThreadStates
<1>2. TriesOK(b)
  BY <1>1, SqlAssumption DEF Proceeds, TriesOK, InQuery, InTrans
<1>3. ASSUME NEW w \in Writes  PROVE LeftOf(b, w) <= LeftOf(a, w)
  <2>1. LeftOf(a, w) \in Nat
    BY LeftFacts
  <2>2. CASE w[2] # a.n
    BY <2>1, <2>2 DEF Proceeds, LeftOf
  <2>3. CASE w[2] = a.n /\ w[3] = 0
    BY <1>1, <2>1, <2>3 DEF Proceeds, LeftOf, TriesOK, InQuery, InTrans
  <2>4. CASE w[2] = a.n /\ w[3] # 0
    BY <2>1, <2>4 DEF Proceeds, LeftOf, InQuery, InTrans
  <2>. QED  BY <2>2, <2>3, <2>4
<1>. QED  BY <1>2, <1>3

(* The writes of other threads are executed by them only.                  *)
LEMMA BudgetStep ==
  ASSUME Typed, Typed', Bounded, NEW t \in Threads,
         HistoryOK', Connected \subseteq Connected', current' \in Connected',
         \A u \in Threads \ {t} : thread'[u] = thread[u],
         TriesOK(thread'[t]), thread'[t].cur \in {0, current, thread[t].cur},
         \A w \in Writes \ Own(t) : Used(w)' <= Used(w),
         \A w \in Own(t) : Used(w)' + LeftOf(thread'[t], w) <= Used(w) + LeftOf(thread[t], w)
  PROVE  Bounded'
<1>1. ASSUME NEW u \in Threads
      PROVE  TriesOK(thread'[u]) /\ thread'[u].cur \in Connected' \cup {0}
  BY DEF Bounded
<1>2. ASSUME NEW w \in Writes  PROVE Used(w)' + LeftOf(thread'[w[1]], w) <= MaxRetry
  <2>1. w[1] \in Threads /\ (w \in Own(t) <=> w[1] = t)
    BY WriteFacts DEF Own
  <2>2. /\ Used(w)' \in Nat /\ Used(w) \in Nat /\ MaxRetry \in Nat
        /\ Used(w) + LeftOf(thread[w[1]], w) <= MaxRetry
    BY UsedFacts, UsedNext, SqlAssumption DEF Bounded
  <2>3. LeftOf(thread[w[1]], w) \in Nat /\ LeftOf(thread'[w[1]], w) \in Nat
    BY <1>1, <2>1, LeftFacts DEF Typed, ThreadType, Bounded
  <2>4. CASE w[1] = t
    <3>1. Used(w)' + LeftOf(thread'[w[1]], w) <= Used(w) + LeftOf(thread[w[1]], w)
      BY <2>1, <2>4
    <3>. QED  BY <2>2, <2>3, <3>1
  <2>5. CASE w[1] # t
    <3>1. thread'[w[1]] = thread[w[1]] /\ Used(w)' <= Used(w)
      BY <2>1, <2>5
    <3>. QED  BY <2>2, <2>3, <3>1
  <2>. QED  BY <2>4, <2>5
<1>3. \A w \in Writes : (LeftOf(thread[w[1]], w))' = LeftOf(thread'[w[1]], w)
  BY DEF LeftOf
<1>4. \A u \in Threads : (TriesOK(thread[u]))' <=> TriesOK(thread'[u])
  BY DEF TriesOK
<1>. QED  BY <1>1, <1>2, <1>3, <1>4 DEF Bounded

LEMMA BoundedStep ==
  ASSUME Typed, Typed', Bounded, NEW t \in Threads, Effects,
         \A u \in Threads \ {t} : thread'[u] = thread[u],
         Proceeds(thread[t], thread'[t]), thread'[t].cur \in {0, current, thread[t].cur}
  PROVE  Bounded'
<1>1. thread[t] \in ThreadStates /\ thread'[t] \in ThreadStates /\ TriesOK(thread[t])
  BY DEF Typed, ThreadType, Bounded
<1>2. TriesOK(thread'[t]) /\ \A w \in Writes : LeftOf(thread'[t], w) <= LeftOf(thread[t], w)
  BY <1>1, ProceedsFacts
<1>3. ASSUME NEW w \in Own(t)
      PROVE  Used(w)' + LeftOf(thread'[t], w) <= Used(w) + LeftOf(thread[t], w)
  <2>1. w \in Writes
    BY OwnFacts
  <2>2. /\ LeftOf(thread'[t], w) \in Nat /\ LeftOf(thread[t], w) \in Nat
        /\ LeftOf(thread'[t], w) <= LeftOf(thread[t], w)
    BY <1>1, <1>2, <2>1, LeftFacts
  <2>3. Used(w)' \in Nat /\ Used(w) \in Nat /\ Used(w)' <= Used(w)
    BY <2>1, UsedFacts, UsedNext DEF Effects
  <2>. QED  BY <2>2, <2>3
<1>. QED  BY <1>2, <1>3, BudgetStep DEF Effects

LEMMA GotoBounded ==
  ASSUME Typed, Typed', Bounded, NEW t \in Threads, NEW pc, Goto(t, pc), Effects,
         \/ pc \in {"reconnect", "recover"} /\ thread[t].pc \in InQuery
         \/ pc = "cursor" /\ thread[t].pc = "check"
         \/ pc = "exit" /\ thread[t].pc \in InTrans
  PROVE  Bounded'
<1>1. /\ thread'[t].n = thread[t].n /\ thread'[t].pc = pc /\ thread'[t].cur = thread[t].cur
      /\ thread'[t].retries = thread[t].retries /\ \A u \in Threads \ {t} : thread'[u] = thread[u]
  BY DEF Goto, Typed, ThreadType, ThreadStates
<1>2. Proceeds(thread[t], thread'[t])
  BY <1>1 DEF Proceeds
<1>. QED  BY <1>1, <1>2, BoundedStep

LEMMA EndBounded ==
  ASSUME Typed, Typed', Bounded, NEW t \in Threads, End(t), Effects
  PROVE  Bounded'
<1>1. thread'[t] = Idle(thread[t].n) /\ \A u \in Threads \ {t} : thread'[u] = thread[u]
  BY DEF End, Typed, ThreadType
<1>2. thread'[t].n = thread[t].n /\ thread'[t].pc = "idle" /\ thread'[t].cur = 0
  BY <1>1 DEF Idle, Begin
<1>3. Proceeds(thread[t], thread'[t])
  BY <1>2 DEF Proceeds
<1>. QED  BY <1>1, <1>2, <1>3, BoundedStep
-----------------------------------------------------------------------------
LEMMA StartBounded ==
  ASSUME Typed, Typed', Bounded, NEW t \in Threads, StartQuery(t) \/ StartTransaction(t)
  PROVE  Bounded'
<1>1. /\ thread[t].pc = "idle" /\ UNCHANGED <<conn, current, applied>> /\ UNCHANGED history
      /\ \E op, pc, part : \E retries \in Nat :
           /\ thread' = [thread EXCEPT ![t] = Begin(thread[t].n + 1, op, pc, retries, part)]
           /\ \/ pc = "check" /\ retries = MaxRetry /\ part = 0
              \/ pc = "enter" /\ retries = 2 /\ part = 1
  BY SqlAssumption DEF StartQuery, StartTransaction, At
<1>2. PICK op, pc, part : \E retries \in Nat :
           /\ thread' = [thread EXCEPT ![t] = Begin(thread[t].n + 1, op, pc, retries, part)]
           /\ \/ pc = "check" /\ retries = MaxRetry /\ part = 0
              \/ pc = "enter" /\ retries = 2 /\ part = 1
  BY <1>1
<1>3. PICK retries \in Nat :
           /\ thread' = [thread EXCEPT ![t] = Begin(thread[t].n + 1, op, pc, retries, part)]
           /\ \/ pc = "check" /\ retries = MaxRetry /\ part = 0
              \/ pc = "enter" /\ retries = 2 /\ part = 1
  BY <1>2
<1>4. /\ thread'[t] = Begin(thread[t].n + 1, op, pc, retries, part)
      /\ \A u \in Threads \ {t} : thread'[u] = thread[u]
  BY <1>3 DEF Typed, ThreadType
<1>5. /\ thread'[t].n = thread[t].n + 1 /\ thread'[t].pc = pc /\ thread'[t].cur = 0
      /\ thread'[t].retries = retries /\ thread'[t].part = part
  BY <1>4 DEF Begin
<1>6. TriesOK(thread'[t])
  BY <1>3, <1>5, SqlAssumption DEF TriesOK, InQuery
<1>7. Effects
  BY <1>1, QuietEffects
<1>8. ASSUME NEW w \in Own(t)
      PROVE  Used(w)' + LeftOf(thread'[t], w) <= Used(w) + LeftOf(thread[t], w)
  <2>1. w \in Writes /\ w[2] \in Nat /\ thread[t].n \in Nat /\ thread[t] \in ThreadStates
        /\ TriesOK(thread[t]) /\ thread'[t] \in ThreadStates /\ MaxRetry \in Nat \ {0}
    BY OwnFacts, SqlAssumption DEF Typed, ThreadType, ThreadStates, Bounded
  <2>2. LeftOf(thread'[t], w) \in Nat /\ LeftOf(thread[t], w) \in Nat
    BY <1>6, <2>1, LeftFacts
  <2>3. LeftOf(thread'[t], w) <= LeftOf(thread[t], w)
    <3>1. CASE w[2] > thread[t].n + 1
      <4>1. LeftOf(thread'[t], w) = MaxRetry /\ LeftOf(thread[t], w) = MaxRetry
        BY <2>1, <1>5, <3>1 DEF LeftOf
      <4>. QED  BY <2>1, <4>1
    <3>2. CASE w[2] = thread[t].n + 1
      <4>1. LeftOf(thread[t], w) = MaxRetry
        BY <2>1, <3>2 DEF LeftOf
      <4>2. LeftOf(thread'[t], w) \in {0, 1, MaxRetry}
        BY <1>3, <1>5, <3>2 DEF LeftOf
      <4>. QED  BY <2>1, <4>1, <4>2
    <3>3. CASE w[2] <= thread[t].n
      <4>1. LeftOf(thread'[t], w) = 0
        BY <2>1, <1>5, <3>3 DEF LeftOf
      <4>. QED  BY <2>2, <4>1
    <3>. QED  BY <2>1, <3>1, <3>2, <3>3
  <2>4. Used(w)' \in Nat /\ Used(w) \in Nat /\ Used(w)' <= Used(w)
    BY <1>7, <2>1, UsedFacts, UsedNext DEF Effects
  <2>. QED  BY <2>2, <2>3, <2>4
<1>. QED  BY <1>4, <1>5, <1>6, <1>7, <1>8, BudgetStep, OwnFacts DEF Effects

(* An execution spends a try of its query, or the statement of its         *)
(* transaction, and adds the write to what is pending.                     *)
LEMMA ExecutedBounded ==
  ASSUME Typed, Typed', Bounded, NEW t \in Threads, NEW c \in 1 .. MaxConns, Executed(t, c),
         Statement(t) \in Own(t), UNCHANGED <<current, applied, disturbed, exposed, unsure>>,
         \A u \in Threads \ {t} : thread'[u] = thread[u], thread'[t].n = thread[t].n,
         thread'[t].cur = thread[t].cur, thread'[t].retries = thread[t].retries,
         \/ thread[t].pc = "execute" /\ thread'[t].pc = "finish" /\ thread[t].part = 0
         \/ /\ thread[t].pc = "statement" /\ thread'[t].pc \in {"statement", "commit"}
            /\ thread[t].part \in {1, 2}
            /\ thread'[t].pc = "statement" => thread'[t].part = thread[t].part + 1
  PROVE  Bounded'
<1>1. /\ conn[c].state = "open"
      /\ conn' = [conn EXCEPT ![c] = [conn[c] EXCEPT !.pending =
           IF thread[t].op = "read" THEN conn[c].pending ELSE conn[c].pending \cup {Statement(t)}]]
  BY DEF Executed
<1>2. PICK p \in SUBSET Writes : conn' = [conn EXCEPT ![c] = [conn[c] EXCEPT !.pending = p]]
  <2>1. conn[c].pending \subseteq Writes /\ Statement(t) \in Writes
    BY UsedFacts, OwnFacts
  <2>. QED  BY <1>1, <2>1
<1>3. [conn[c] EXCEPT !.pending = p] \in Conns /\ [conn[c] EXCEPT !.pending = p].state # "none"
  BY <1>1 DEF Typed, ConnType, Conns
<1>4. Connected \subseteq Connected' /\ current' \in Connected'
  BY <1>2, <1>3, LinkFacts
<1>5. HistoryOK'
  BY DEF Bounded, HistoryOK
<1>6. Pend' \subseteq Pend \cup {Statement(t)}
  BY ExecutedFacts, OwnFacts DEF Typed
<1>7. \A w \in Writes : /\ Used(w)' \in Nat /\ Used(w) \in Nat
                        /\ Used(w)' <= Used(w) + 1 /\ (w # Statement(t) => Used(w)' <= Used(w))
  BY <1>6, UsedFacts DEF Used
<1>8. thread[t] \in ThreadStates /\ thread'[t] \in ThreadStates /\ TriesOK(thread[t])
  BY DEF Typed, ThreadType, Bounded
<1>9. TriesOK(thread'[t])
  BY <1>8 DEF TriesOK, InQuery
<1>10. ASSUME NEW w \in Own(t)
       PROVE  /\ LeftOf(thread'[t], w) <= LeftOf(thread[t], w)
              /\ w = Statement(t) => LeftOf(thread'[t], w) + 1 <= LeftOf(thread[t], w)
  <2>1. w \in Writes /\ w[2] \in Nat /\ w[3] \in 0 .. 2 /\ thread[t].n \in Nat /\ thread[t].retries \in Int
    BY <1>8, OwnFacts DEF ThreadStates
  <2>2. w = Statement(t) => w[2] = thread[t].n /\ w[3] = thread[t].part
    BY DEF Statement
  <2>3. CASE w[2] # thread[t].n
    BY <2>1, <2>2, <2>3, SqlAssumption DEF LeftOf
  <2>4. CASE w[2] = thread[t].n /\ thread[t].pc = "execute"
    <3>1. CASE w[3] = 0
      <4>1. LeftOf(thread[t], w) = thread[t].retries /\ LeftOf(thread'[t], w) = thread[t].retries - 1
        BY <2>4, <3>1 DEF LeftOf
      <4>. QED  BY <2>1, <4>1
    <3>2. CASE w[3] # 0
      <4>1. LeftOf(thread[t], w) = 0 /\ LeftOf(thread'[t], w) = 0 /\ w # Statement(t)
        BY <2>2, <2>4, <3>2 DEF LeftOf
      <4>. QED  BY <4>1
    <3>. QED  BY <3>1, <3>2
  <2>5. CASE w[2] = thread[t].n /\ thread[t].pc = "statement"
    <3>1. CASE w[3] = 0
      <4>1. LeftOf(thread[t], w) = 0 /\ LeftOf(thread'[t], w) = 0 /\ w # Statement(t)
        BY <2>2, <2>5, <3>1 DEF LeftOf
      <4>. QED  BY <4>1
    <3>2. CASE w[3] # 0
      <4>1. LeftOf(thread[t], w) = IF w[3] >= thread[t].part THEN 1 ELSE 0
        BY <2>5, <3>2 DEF LeftOf
      <4>2. LeftOf(thread'[t], w) =
              IF thread'[t].pc = "statement" /\ w[3] >= thread[t].part + 1 THEN 1 ELSE 0
        BY <2>5, <3>2 DEF LeftOf
      <4>. QED  BY <2>1, <2>2, <2>5, <4>1, <4>2
    <3>. QED  BY <3>1, <3>2
  <2>. QED  BY <2>3, <2>4, <2>5
<1>11. ASSUME NEW w \in Own(t)
       PROVE  Used(w)' + LeftOf(thread'[t], w) <= Used(w) + LeftOf(thread[t], w)
  <2>1. LeftOf(thread'[t], w) \in Nat /\ LeftOf(thread[t], w) \in Nat
    BY <1>8, <1>9, LeftFacts, OwnFacts
  <2>2. w \in Writes
    BY OwnFacts
  <2>. QED  BY <1>7, <1>10, <2>1, <2>2
<1>. QED  BY <1>4, <1>5, <1>7, <1>9, <1>11, BudgetStep
-----------------------------------------------------------------------------
LEMMA CheckBounded ==
  ASSUME Typed, Typed', Bounded, NEW t \in Threads, CheckConnection(t)  PROVE Bounded'
<1>1. Effects
  BY ConnectEffects DEF CheckConnection
<1>. QED  BY <1>1, GotoBounded DEF CheckConnection, At

LEMMA OpenCursorBounded ==
  ASSUME Typed, Typed', Bounded, NEW t \in Threads, OpenCursor(t)  PROVE Bounded'
<1>1. Effects
  BY QuietEffects DEF OpenCursor
<1>2. \E pc \in {"execute", "reconnect", "recover"} :
        \/ pc = "execute" /\ thread' = [thread EXCEPT ![t].cur = current, ![t].pc = pc]
        \/ pc # "execute" /\ thread' = [thread EXCEPT ![t].unbound = TRUE, ![t].pc = pc]
  BY DEF OpenCursor
<1>3. /\ thread'[t].n = thread[t].n /\ thread'[t].retries = thread[t].retries
      /\ thread'[t].pc \in {"execute", "reconnect", "recover"}
      /\ thread'[t].cur \in {current, thread[t].cur}
      /\ \A u \in Threads \ {t} : thread'[u] = thread[u]
  BY <1>2 DEF Typed, ThreadType, ThreadStates
<1>4. Proceeds(thread[t], thread'[t])
  BY <1>3 DEF Proceeds, OpenCursor, At, InQuery
<1>. QED  BY <1>1, <1>3, <1>4, BoundedStep

LEMMA ExecuteBounded ==
  ASSUME Inv, Typed, Typed', Bounded, NEW t \in Threads, Execute(t)  PROVE Bounded'
<1> DEFINE c == thread[t].cur
<1>1. /\ thread[t].pc = "execute" /\ UNCHANGED <<current, applied, acked, exposed, unsure>>
      /\ \/ Executed(t, c) /\ Goto(t, "finish") /\ UNCHANGED disturbed
         \/ StatementFails(t, c) /\ Goto(t, "recover")
         \/ StatementSevered(c) /\ Caught(t) /\ UNCHANGED disturbed
  BY DEF Execute, At
<1>2. c \in 1 .. MaxConns /\ thread[t].part = 0 /\ Statement(t) \in Own(t)
  BY <1>1, ThreadFacts DEF At, ThreadOK, UsesCursor, InQuery
<1>3. CASE Executed(t, c) /\ Goto(t, "finish") /\ UNCHANGED disturbed
  <2>1. /\ thread'[t].n = thread[t].n /\ thread'[t].cur = c /\ thread'[t].pc = "finish"
        /\ thread'[t].retries = thread[t].retries /\ \A u \in Threads \ {t} : thread'[u] = thread[u]
    BY <1>3 DEF Goto, Typed, ThreadType, ThreadStates
  <2>. QED  BY <1>1, <1>2, <1>3, <2>1, ExecutedBounded
<1>4. CASE StatementFails(t, c) /\ Goto(t, "recover")
  BY <1>1, <1>2, <1>4, FailsEffects, GotoBounded DEF InQuery
<1>5. CASE StatementSevered(c) /\ Caught(t) /\ UNCHANGED disturbed
  <2>1. PICK pc \in {"reconnect", "recover"} : Goto(t, pc)
    BY <1>5 DEF Caught
  <2>. QED
    BY <1>1, <1>2, <1>5, <2>1, DropEffects, GotoBounded DEF InQuery, StatementSevered
<1>. QED  BY <1>1, <1>3, <1>4, <1>5

LEMMA FinishBounded ==
  ASSUME Typed, Typed', Bounded, NEW t \in Threads, FinishWrite(t) \/ FinishRead(t)  PROVE Bounded'
<1>1. thread[t].pc \in InQuery /\ current' = current
  BY DEF FinishWrite, FinishRead, At, InQuery
<1>2. Effects
  <2>1. CASE FinishWrite(t)
    <3>1. \/ Committed(t) /\ UNCHANGED <<current, disturbed, unsure>>
          \/ CommitSevered(t) /\ UNCHANGED <<current, exposed>>
          \/ UNCHANGED <<conn, current, applied>> /\ UNCHANGED history
      BY <2>1 DEF FinishWrite
    <3>. QED  BY <3>1, CommittedEffects, CommitSeveredEffects, QuietEffects
  <2>2. CASE FinishRead(t)
    <3>1. /\ UNCHANGED <<current, applied, exposed, unsure>>
          /\ \/ RolledBack(t)
             \/ conn' = [conn EXCEPT ![current].state = "closed"] /\ UNCHANGED disturbed
      BY <2>2 DEF FinishRead
    <3>2. current \in 1 .. MaxConns
      BY DEF Typed, ConnType
    <3>. QED  BY <3>1, <3>2, RolledBackEffects, DropEffects
  <2>. QED  BY <2>1, <2>2
<1>3. End(t) \/ \E pc \in {"reconnect", "recover"} : Goto(t, pc)
  BY DEF FinishWrite, FinishRead, Caught
<1>. QED  BY <1>1, <1>2, <1>3, EndBounded, GotoBounded

LEMMA ReconnectBounded ==
  ASSUME Typed, Typed', Bounded, NEW t \in Threads, Reconnect(t)  PROVE Bounded'
<1>1. Effects
  BY ConnectEffects DEF Reconnect
<1>2. CASE thread[t].retries > 1
  <2>1. thread' = [thread EXCEPT ![t].retries = thread[t].retries - 1, ![t].pc = "check"]
    BY <1>2 DEF Reconnect
  <2>2. /\ thread'[t].n = thread[t].n /\ thread'[t].retries = thread[t].retries - 1
        /\ thread'[t].pc = "check" /\ thread'[t].cur = thread[t].cur
        /\ \A u \in Threads \ {t} : thread'[u] = thread[u]
    BY <2>1 DEF Typed, ThreadType, ThreadStates
  <2>3. Proceeds(thread[t], thread'[t])
    BY <1>2, <2>2 DEF Proceeds, Reconnect, At
  <2>. QED  BY <1>1, <2>2, <2>3, BoundedStep
<1>3. CASE ~ (thread[t].retries > 1)
  BY <1>1, <1>3, EndBounded DEF Reconnect
<1>. QED  BY <1>2, <1>3

LEMMA GiveUpBounded ==
  ASSUME Typed, Typed', Bounded, NEW t \in Threads, Recover(t) \/ Exit(t)  PROVE Bounded'
<1>1. /\ UNCHANGED <<current, applied, exposed, unsure>> /\ End(t)
      /\ \/ RolledBack(t)
         \/ conn' = [conn EXCEPT ![current].state = "closed"] /\ UNCHANGED disturbed
  BY DEF Recover, Exit
<1>2. current \in 1 .. MaxConns
  BY DEF Typed, ConnType
<1>. QED  BY <1>1, <1>2, RolledBackEffects, DropEffects, EndBounded

LEMMA EnterBounded ==
  ASSUME Typed, Typed', Bounded, NEW t \in Threads, Enter(t)  PROVE Bounded'
<1>1. Effects
  BY ConnectEffects DEF Enter
<1>2. CASE End(t)
  BY <1>1, <1>2, EndBounded
<1>3. CASE \/ thread' = [thread EXCEPT ![t].cur = current, ![t].pc = "statement"]
           \/ thread' = [thread EXCEPT ![t].retries = thread[t].retries - 1]
  <2>1. /\ thread'[t].n = thread[t].n /\ thread'[t].part = thread[t].part
        /\ thread'[t].pc \in {"statement", thread[t].pc} /\ thread'[t].cur \in {current, thread[t].cur}
        /\ \A u \in Threads \ {t} : thread'[u] = thread[u]
    BY <1>3 DEF Typed, ThreadType, ThreadStates
  <2>2. Proceeds(thread[t], thread'[t])
    BY <2>1 DEF Proceeds, Enter, At
  <2>. QED  BY <1>1, <2>1, <2>2, BoundedStep
<1>. QED  BY <1>2, <1>3 DEF Enter

LEMMA RunStatementBounded ==
  ASSUME Inv, Typed, Typed', Bounded, NEW t \in Threads, RunStatement(t)  PROVE Bounded'
<1> DEFINE c == thread[t].cur
           next == IF thread[t].part = 1 THEN [thread EXCEPT ![t].part = 2]
                                         ELSE [thread EXCEPT ![t].pc = "commit"]
<1>1. /\ thread[t].pc = "statement" /\ UNCHANGED <<current, applied, acked, exposed, unsure>>
      /\ \/ Executed(t, c) /\ thread' = next /\ UNCHANGED disturbed
         \/ StatementFails(t, c) /\ Goto(t, "exit")
         \/ StatementSevered(c) /\ Goto(t, "exit") /\ UNCHANGED disturbed
  BY DEF RunStatement, At
<1>2. c \in 1 .. MaxConns /\ thread[t].part \in {1, 2} /\ Statement(t) \in Own(t)
  BY <1>1, ThreadFacts DEF At, ThreadOK, UsesCursor
<1>3. CASE Executed(t, c) /\ thread' = next /\ UNCHANGED disturbed
  <2>1. /\ thread'[t].n = thread[t].n /\ thread'[t].cur = c
        /\ thread'[t].pc \in {"statement", "commit"}
        /\ thread'[t].pc = "statement" => thread'[t].part = thread[t].part + 1
        /\ thread'[t].retries = thread[t].retries /\ \A u \in Threads \ {t} : thread'[u] = thread[u]
    BY <1>1, <1>2, <1>3 DEF Typed, ThreadType, ThreadStates
  <2>. QED  BY <1>1, <1>2, <1>3, <2>1, ExecutedBounded
<1>4. CASE StatementFails(t, c) /\ Goto(t, "exit")
  BY <1>1, <1>2, <1>4, FailsEffects, GotoBounded DEF InTrans
<1>5. CASE StatementSevered(c) /\ Goto(t, "exit") /\ UNCHANGED disturbed
  BY <1>1, <1>2, <1>5, DropEffects, GotoBounded DEF InTrans, StatementSevered
<1>. QED  BY <1>1, <1>3, <1>4, <1>5

LEMMA CommitBounded ==
  ASSUME Typed, Typed', Bounded, NEW t \in Threads, CommitTransaction(t)  PROVE Bounded'
<1>1. /\ thread[t].pc \in InTrans
      /\ \/ Committed(t) /\ UNCHANGED <<current, disturbed, unsure>>
         \/ CommitSevered(t) /\ UNCHANGED <<current, exposed>>
         \/ UNCHANGED <<conn, current, applied>> /\ UNCHANGED history
      /\ End(t) \/ Goto(t, "exit")
  BY DEF CommitTransaction, At, InTrans
<1>2. Effects
  BY <1>1, CommittedEffects, CommitSeveredEffects, QuietEffects
<1>. QED  BY <1>1, <1>2, EndBounded, GotoBounded

LEMMA StillBounded ==
  ASSUME Typed, Typed', Bounded, Effects, UNCHANGED thread  PROVE Bounded'
<1>1. ASSUME NEW w \in Writes  PROVE Used(w)' + LeftOf(thread[w[1]], w) <= MaxRetry
  <2>1. /\ Used(w)' \in Nat /\ Used(w) \in Nat /\ Used(w)' <= Used(w) /\ MaxRetry \in Nat
        /\ Used(w) + LeftOf(thread[w[1]], w) <= MaxRetry
    BY UsedFacts, UsedNext, SqlAssumption DEF Effects, Bounded
  <2>2. LeftOf(thread[w[1]], w) \in Nat
    BY WriteFacts, LeftFacts DEF Typed, ThreadType, Bounded
  <2>. QED  BY <2>1, <2>2
<1>2. \A w \in Writes : (LeftOf(thread[w[1]], w))' = LeftOf(thread[w[1]], w)
  BY DEF LeftOf
<1>. QED  BY <1>1, <1>2 DEF Bounded, Effects, TriesOK

(* A write takes effect at most MaxRetry times, by one query and all its   *)
(* retries (line 87), whatever other threads commit for it; and what the   *)
(* variables hold has the shape of TypeOK.                                 *)
THEOREM BoundedTheorem == Spec => []Bounded
<1>1. Init => Bounded
  <2>. SUFFICES ASSUME Init  PROVE Bounded
    OBVIOUS
  <2>1. /\ conn = [c \in 1 .. MaxConns |-> IF c = 1 THEN NewConn ELSE NoConn] /\ current = 1
        /\ disturbed = {} /\ exposed = {} /\ unsure = {}
        /\ \A w \in Writes : applied[w] = 0
        /\ \A t \in Threads : thread[t] = Idle(0)
    BY DEF Init
  <2>2. 1 \in 1 .. MaxConns /\ conn[1] = NewConn /\ MaxRetry \in Nat
    BY <2>1, SqlAssumption
  <2>3. current \in Connected /\ Pend = {}
    BY <2>1, <2>2, NewConnFacts DEF Connected, Pend
  <2>4. Idle(0).n = 0 /\ Idle(0).pc = "idle" /\ Idle(0).cur = 0
    BY DEF Idle, Begin
  <2>5. ASSUME NEW w \in Writes  PROVE Used(w) + LeftOf(thread[w[1]], w) <= MaxRetry
    <3>1. w[1] \in Threads /\ w[2] > 0
      BY WriteFacts
    <3>2. LeftOf(thread[w[1]], w) = MaxRetry
      BY <2>1, <2>4, <3>1 DEF LeftOf
    <3>3. Used(w) = 0
      BY <2>1, <2>3 DEF Used
    <3>. QED  BY <2>2, <3>2, <3>3
  <2>. QED  BY <2>1, <2>3, <2>4, <2>5 DEF Bounded, HistoryOK, TriesOK, InQuery
<1>2. Inv /\ Inv' /\ Bounded /\ [Next]_vars => Bounded'
  <2>. SUFFICES ASSUME Inv, Inv', Bounded, [Next]_vars  PROVE Bounded'
    OBVIOUS
  <2>1. Typed /\ Typed'
    BY DEF Inv, Typed
  <2>2. ASSUME NEW t \in Threads, StartQuery(t) \/ StartTransaction(t)  PROVE Bounded'
    BY <2>1, <2>2, StartBounded
  <2>3. ASSUME NEW t \in Threads, Query(t)  PROVE Bounded'
    BY <2>1, <2>3, CheckBounded, OpenCursorBounded, ExecuteBounded, FinishBounded,
       ReconnectBounded, GiveUpBounded DEF Query
  <2>4. ASSUME NEW t \in Threads, InTransaction(t)  PROVE Bounded'
    BY <2>1, <2>4, EnterBounded, RunStatementBounded, CommitBounded, GiveUpBounded DEF InTransaction
  <2>5. ASSUME NEW c \in DOMAIN conn, Sever(c)  PROVE Bounded'
    <3>1. /\ c \in 1 .. MaxConns /\ conn' = [conn EXCEPT ![c].state = "severed"]
          /\ UNCHANGED <<current, applied, disturbed, exposed, unsure>> /\ UNCHANGED thread
      BY <2>1, <2>5 DEF Sever, Typed, ConnType, history
    <3>. QED  BY <2>1, <3>1, DropEffects, StillBounded
  <2>6. CASE UNCHANGED vars
    <3>1. UNCHANGED <<conn, current, applied>> /\ UNCHANGED history /\ UNCHANGED thread
      BY <2>6 DEF vars, history
    <3>. QED  BY <2>1, <3>1, QuietEffects, StillBounded
  <2>. QED  BY <2>2, <2>3, <2>4, <2>5, <2>6 DEF Next
<1>. QED  BY <1>1, <1>2, Invariance, PTL DEF Spec

(* TypeOK: every variable has the shape the code gives it; in particular   *)
(* no statement takes effect more often than query may try it.             *)
THEOREM TypeCorrect == Spec => []TypeOK
<1>1. Inv /\ Bounded => TypeOK
  <2>. SUFFICES ASSUME Inv, Bounded  PROVE TypeOK
    OBVIOUS
  <2>1. Typed
    BY DEF Inv, Typed
  <2>2. ASSUME NEW w \in Writes  PROVE applied[w] \in 0 .. MaxRetry
    <3>1. /\ applied[w] \in Nat /\ Used(w) \in Nat /\ Used(w) \in {applied[w], applied[w] + 1}
          /\ Used(w) + LeftOf(thread[w[1]], w) <= MaxRetry /\ MaxRetry \in Nat
      BY <2>1, UsedFacts, SqlAssumption DEF Bounded
    <3>2. LeftOf(thread[w[1]], w) \in Nat
      BY <2>1, WriteFacts, LeftFacts DEF Typed, ThreadType, Bounded
    <3>. QED  BY <3>1, <3>2
  <2>3. applied \in [Writes -> 0 .. MaxRetry]
    BY <2>1, <2>2 DEF Typed, ConnType
  <2>4. \A c \in DOMAIN conn : conn[c] \in Conns
    BY <2>1 DEF Typed, ConnType
  <2>. QED  BY <2>3, <2>4 DEF TypeOK, Inv, Bounded, HistoryOK, Conns
<1>. QED  BY <1>1, Invariance, BoundedTheorem, PTL
=============================================================================
