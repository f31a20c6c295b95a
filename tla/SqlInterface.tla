---------------------------- MODULE SqlInterface ----------------------------
(***************************************************************************)
(* kh_common/sql/__init__.py: queries and transactions of several threads  *)
(* over the one connection SqlInterface._conn.                             *)
(*                                                                         *)
(* A cursor belongs to the connection it was made from, but commit and     *)
(* rollback go to whatever connection SqlInterface._conn is by then, and   *)
(* they end the transaction of every thread that works on it.              *)
(*                                                                         *)
(* psycopg2 and the database are modelled from how the code uses them: a   *)
(* statement or a commit may find the connection severed, a statement may  *)
(* fail and abort the transaction, a commit may be applied and its reply   *)
(* lost, a cursor cannot be had from a closed connection.                  *)
(***************************************************************************)
EXTENDS Integers, FiniteSets

CONSTANTS
  Threads,
  Ops,        \* what the threads run: "write" (commit=True), "read", "transaction"
  MaxRetry,   \* the parameter maxretry of query
  Severs,     \* may the server drop a connection, or the reply of a commit?
  Errors,     \* may a statement fail?
  MaxOps,     \* operations of one thread, for model checking only
  MaxConns    \* connections the server grants, for model checking only

ASSUME SqlAssumption ==
  /\ Ops \subseteq {"write", "read", "transaction"}
  /\ MaxRetry \in Nat \ {0}
  /\ Severs \in BOOLEAN /\ Errors \in BOOLEAN
  /\ MaxOps \in Nat /\ MaxConns \in Nat \ {0}

(* the writes: that of the n-th operation of t, if it is a query (part 0), *)
(* or the two of it, if it is a transaction (parts 1 and 2)                *)
Writes == Threads \X (1 .. MaxOps) \X (0 .. 2)

VARIABLES
  conn,       \* conn[c]: state of the c-th connection and what is uncommitted on it
  current,    \* SqlInterface._conn
  thread,
  applied,    \* applied[w]: how many times w has been committed in the database
  acked,      \* history: writes whose commit was reported to their caller
  disturbed,  \* history: writes another thread rolled back, aborted or cut off,
              \* or whose connection it replaced under their cursor
  exposed,    \* history: writes another thread committed
  unsure      \* history: writes whose commit's reply was lost

vars == <<conn, current, thread, applied, acked, disturbed, exposed, unsure>>
history == <<acked, disturbed, exposed, unsure>>

NewConn == [state |-> "open", aborted |-> FALSE, pending |-> {}]
NoConn == [NewConn EXCEPT !.state = "none"]
Connected == {c \in DOMAIN conn : conn[c].state # "none"}

(* the local variables of a thread whose n-th operation is op *)
Begin(n, op, pc, retries, part) ==
  [op |-> op, n |-> n, pc |-> pc, cur |-> 0, retries |-> retries, part |-> part, unbound |-> FALSE]

Idle(n) == Begin(n, "none", "idle", 0, 0)

Init ==
  /\ conn = [c \in 1 .. MaxConns |-> IF c = 1 THEN NewConn ELSE NoConn]
  /\ current = 1
  /\ thread = [t \in Threads |-> Idle(0)]
  /\ applied = [w \in Writes |-> 0]
  /\ acked = {} /\ disturbed = {} /\ exposed = {} /\ unsure = {}
-----------------------------------------------------------------------------
At(t, pc) == thread[t].pc = pc

Own(t) == {w \in Writes : w[1] = t}

(* the statement t's query is about to run, or has run *)
Statement(t) == <<t, thread[t].n, thread[t].part>>

Goto(t, pc) == thread' = [thread EXCEPT ![t].pc = pc]

(* what psycopg2 raises on a lost connection is a ConnectionException or not *)
Caught(t) == \E handler \in {"reconnect", "recover"} : Goto(t, handler)

End(t) == thread' = [thread EXCEPT ![t] = Idle(thread[t].n)]

(* what other threads have under way on the current connection *)
UnderWay(t) ==
  (conn[current].pending \ Own(t)) \cup
  {w \in Writes \ Own(t) : LET u == thread[w[1]]
                           IN  /\ u.cur = current /\ u.n = w[2]
                               /\ u.pc \in {"execute", "finish", "statement", "commit"}}

(* _sql_connect: a new connection, or none (then _conn stays as it is) *)
Connect(t) ==
  \/ UNCHANGED <<conn, current, disturbed>>
  \/ \E c \in DOMAIN conn \ Connected :
       /\ \A d \in DOMAIN conn \ Connected : c <= d
       /\ conn' = [conn EXCEPT ![c] = NewConn]
       /\ current' = c
       /\ disturbed' = disturbed \cup UnderWay(t)

(* SqlInterface._conn.commit() succeeds: an aborted transaction is rolled  *)
(* back by the server without an error                                     *)
Committed(t) ==
  LET done == IF conn[current].aborted THEN {} ELSE conn[current].pending
  IN  /\ conn[current].state = "open"
      /\ applied' = [w \in Writes |-> IF w \in done THEN applied[w] + 1 ELSE applied[w]]
      /\ exposed' = exposed \cup (done \ Own(t))
      /\ conn' = [conn EXCEPT ![current] = NewConn]

(* ... or it fails: the connection is known to be lost, and possibly only  *)
(* after the server has committed                                          *)
CommitSevered(t) ==
  /\ Severs \/ conn[current].state = "severed"
  /\ conn[current].state \in {"open", "severed"}
  /\ conn' = [conn EXCEPT ![current] = [NewConn EXCEPT !.state = "closed"]]
  /\ disturbed' = disturbed \cup (conn[current].pending \ Own(t))
  /\ \/ UNCHANGED <<applied, unsure>>
     \/ LET done == conn[current].pending
        IN  /\ Severs /\ conn[current].state = "open" /\ ~ conn[current].aborted
            /\ applied' = [w \in Writes |-> IF w \in done THEN applied[w] + 1 ELSE applied[w]]
            /\ unsure' = unsure \cup done

(* SqlInterface._conn.rollback() succeeds *)
RolledBack(t) ==
  /\ conn[current].state = "open"
  /\ conn' = [conn EXCEPT ![current] = NewConn]
  /\ disturbed' = disturbed \cup (conn[current].pending \ Own(t))

(* cur.execute fails, and with it the transaction on its connection *)
StatementFails(t, c) ==
  /\ Errors \/ conn[c].aborted
  /\ conn[c].state = "open"
  /\ conn' = [conn EXCEPT ![c].aborted = TRUE]
  /\ disturbed' = disturbed \cup (conn[c].pending \ Own(t))

(* cur.execute finds the connection severed, or closed by another thread *)
StatementSevered(c) ==
  /\ conn[c].state # "open"
  /\ conn' = [conn EXCEPT ![c].state = "closed"]

Executed(t, c) ==
  /\ conn[c].state = "open" /\ ~ conn[c].aborted
  /\ conn' = [conn EXCEPT ![c].pending =
       IF thread[t].op = "read" THEN @ ELSE @ \cup {Statement(t)}]
-----------------------------------------------------------------------------
(* query(sql, params, commit, ..., maxretry) *)

StartQuery(t) ==
  /\ At(t, "idle") /\ thread[t].n < MaxOps
  /\ \E op \in Ops \ {"transaction"} :
       thread' = [thread EXCEPT ![t] = Begin(thread[t].n + 1, op, "check", MaxRetry, 0)]
  /\ UNCHANGED <<conn, current, applied>> /\ UNCHANGED history

(* if SqlInterface._conn.closed : self._sql_connect() *)
CheckConnection(t) ==
  /\ At(t, "check")
  /\ IF conn[current].state = "closed" THEN Connect(t)
                                       ELSE UNCHANGED <<conn, current, disturbed>>
  /\ Goto(t, "cursor")
  /\ UNCHANGED <<applied, acked, exposed, unsure>>

(* cur = SqlInterface._conn.cursor(); if that fails the name cur is not    *)
(* bound, and the finally clause of this call raises in place of whatever  *)
(* the call or its retry would have returned                               *)
OpenCursor(t) ==
  /\ At(t, "cursor")
  /\ \/ /\ conn[current].state # "closed"
        /\ thread' = [thread EXCEPT ![t].cur = current, ![t].pc = "execute"]
     \/ /\ conn[current].state = "closed"
        /\ \E handler \in {"reconnect", "recover"} :
             thread' = [thread EXCEPT ![t].unbound = TRUE, ![t].pc = handler]
  /\ UNCHANGED <<conn, current, applied>> /\ UNCHANGED history

Execute(t) ==
  /\ At(t, "execute")
  /\ LET c == thread[t].cur
     IN  \/ Executed(t, c) /\ Goto(t, "finish") /\ UNCHANGED disturbed
         \/ StatementFails(t, c) /\ Goto(t, "recover")
         \/ StatementSevered(c) /\ Caught(t) /\ UNCHANGED disturbed
  /\ UNCHANGED <<current, applied, acked, exposed, unsure>>

(* mutants: a failed commit goes unnoticed; a failure to fetch what a       *)
(* committed statement returned is taken for a lost connection             *)
FinishWrite_Swallowed(t) ==
  /\ At(t, "finish") /\ thread[t].op = "write"
  /\ \/ Committed(t) /\ UNCHANGED <<disturbed, unsure>>
     \/ CommitSevered(t) /\ UNCHANGED exposed
  /\ End(t)
  /\ acked' = acked \cup {Statement(t)}
  /\ UNCHANGED current

FinishWrite_Again(t) ==
  /\ At(t, "finish") /\ thread[t].op = "write"
  /\ Committed(t)
  /\ Goto(t, "reconnect")
  /\ UNCHANGED <<current, acked, disturbed, unsure>>

(* commit, and fetch what the statement returned, for a query that writes; *)
(* if there is nothing to fetch the caller gets an exception all the same  *)
FinishWrite(t) ==
  /\ At(t, "finish") /\ thread[t].op = "write"
  /\ \/ /\ Committed(t)
        /\ End(t)
        /\ acked' = IF thread[t].unbound THEN acked ELSE acked \cup {Statement(t)}
        /\ UNCHANGED <<disturbed, unsure>>
     \/ /\ Errors /\ Committed(t)
        /\ Goto(t, "recover")
        /\ UNCHANGED <<acked, disturbed, unsure>>
     \/ CommitSevered(t) /\ Caught(t) /\ UNCHANGED <<acked, exposed>>
     \/ /\ conn[current].state = "closed"
        /\ Goto(t, "recover")
        /\ UNCHANGED <<conn, applied>> /\ UNCHANGED history
  /\ UNCHANGED current

(* rollback, for a query that does not *)
FinishRead(t) ==
  /\ At(t, "finish") /\ thread[t].op = "read"
  /\ \/ RolledBack(t) /\ (End(t) \/ (Errors /\ Goto(t, "recover")))
     \/ /\ conn[current].state # "open"
        /\ conn' = [conn EXCEPT ![current].state = "closed"]
        /\ Caught(t)
        /\ UNCHANGED disturbed
  /\ UNCHANGED <<current, applied, acked, exposed, unsure>>

(* mutants: one try too many; tries without end *)
Reconnect_OneMore(t) ==
  /\ At(t, "reconnect")
  /\ IF thread[t].retries > 0
     THEN /\ Connect(t)
          /\ thread' = [thread EXCEPT ![t].retries = thread[t].retries - 1, ![t].pc = "check"]
     ELSE End(t) /\ UNCHANGED <<conn, current, disturbed>>
  /\ UNCHANGED <<applied, acked, exposed, unsure>>

Reconnect_NoLimit(t) ==
  /\ At(t, "reconnect")
  /\ Connect(t)
  /\ Goto(t, "check")
  /\ UNCHANGED <<applied, acked, exposed, unsure>>

(* except ConnectionException: connect and try again, or give up *)
Reconnect(t) ==
  /\ At(t, "reconnect")
  /\ IF thread[t].retries > 1
     THEN /\ Connect(t)
          /\ thread' = [thread EXCEPT ![t].retries = thread[t].retries - 1, ![t].pc = "check"]
     ELSE End(t) /\ UNCHANGED <<conn, current, disturbed>>
  /\ UNCHANGED <<applied, acked, exposed, unsure>>

(* except Exception: roll back and raise; raise all the same if that fails *)
Recover(t) ==
  /\ At(t, "recover")
  /\ \/ RolledBack(t)
     \/ /\ conn[current].state # "open"
        /\ conn' = [conn EXCEPT ![current].state = "closed"]
        /\ UNCHANGED disturbed
  /\ End(t)
  /\ UNCHANGED <<current, applied, acked, exposed, unsure>>
-----------------------------------------------------------------------------
(* with sql.transaction() as transaction : two statements, then commit *)

StartTransaction(t) ==
  /\ At(t, "idle") /\ thread[t].n < MaxOps /\ "transaction" \in Ops
  /\ thread' = [thread EXCEPT ![t] = Begin(thread[t].n + 1, "transaction", "enter", 2, 1)]
  /\ UNCHANGED <<conn, current, applied>> /\ UNCHANGED history

(* __enter__ tries twice, and raises what is not a ConnectionException *)
Enter(t) ==
  /\ At(t, "enter")
  /\ \/ /\ conn[current].state # "closed" /\ thread[t].retries > 0
        /\ thread' = [thread EXCEPT ![t].cur = current, ![t].pc = "statement"]
        /\ UNCHANGED <<conn, current, disturbed>>
     \/ /\ conn[current].state = "closed" /\ thread[t].retries > 0
        /\ \/ Connect(t) /\ thread' = [thread EXCEPT ![t].retries = thread[t].retries - 1]
           \/ End(t) /\ UNCHANGED <<conn, current, disturbed>>
     \/ thread[t].retries = 0 /\ End(t) /\ UNCHANGED <<conn, current, disturbed>>
  /\ UNCHANGED <<applied, acked, exposed, unsure>>

(* mutant: a statement that finds the connection severed is tried again on *)
(* a new one                                                               *)
RunStatement_Retried(t) ==
  /\ At(t, "statement")
  /\ LET c == thread[t].cur
     IN  \/ /\ Executed(t, c)
            /\ thread' = IF thread[t].part = 1
                         THEN [thread EXCEPT ![t].part = 2]
                         ELSE [thread EXCEPT ![t].pc = "commit"]
            /\ UNCHANGED <<current, disturbed>>
         \/ /\ conn[c].state # "open" /\ Connect(t)
            /\ thread' = [thread EXCEPT ![t].cur = current']
  /\ UNCHANGED <<applied, acked, exposed, unsure>>

RunStatement(t) ==
  /\ At(t, "statement")
  /\ LET c == thread[t].cur
     IN  \/ /\ Executed(t, c)
            /\ thread' = IF thread[t].part = 1
                         THEN [thread EXCEPT ![t].part = 2]
                         ELSE [thread EXCEPT ![t].pc = "commit"]
            /\ UNCHANGED disturbed
         \/ StatementFails(t, c) /\ Goto(t, "exit")
         \/ StatementSevered(c) /\ Goto(t, "exit") /\ UNCHANGED disturbed
  /\ UNCHANGED <<current, applied, acked, exposed, unsure>>

CommitTransaction(t) ==
  /\ At(t, "commit")
  /\ \/ /\ Committed(t)
        /\ End(t)
        /\ acked' = acked \cup {<<t, thread[t].n, 1>>, <<t, thread[t].n, 2>>}
        /\ UNCHANGED <<disturbed, unsure>>
     \/ CommitSevered(t) /\ Goto(t, "exit") /\ UNCHANGED <<acked, exposed>>
     \/ /\ conn[current].state = "closed"
        /\ Goto(t, "exit")
        /\ UNCHANGED <<conn, applied>> /\ UNCHANGED history
  /\ UNCHANGED current

(* mutant: the transaction is left as it is *)
Exit_NoRollback(t) ==
  /\ At(t, "exit")
  /\ End(t)
  /\ UNCHANGED <<conn, current, applied>> /\ UNCHANGED history

(* __exit__ after an exception: roll back, and raise *)
Exit(t) ==
  /\ At(t, "exit")
  /\ \/ RolledBack(t)
     \/ /\ conn[current].state # "open"
        /\ conn' = [conn EXCEPT ![current].state = "closed"]
        /\ UNCHANGED disturbed
  /\ End(t)
  /\ UNCHANGED <<current, applied, acked, exposed, unsure>>
-----------------------------------------------------------------------------
(* The server drops a connection; its client does not know yet. *)
Sever(c) ==
  /\ Severs
  /\ conn[c].state = "open"
  /\ conn' = [conn EXCEPT ![c].state = "severed"]
  /\ UNCHANGED <<current, thread, applied>> /\ UNCHANGED history

Query(t) ==
  CheckConnection(t) \/ OpenCursor(t) \/ Execute(t) \/ FinishWrite(t) \/ FinishRead(t)
  \/ Reconnect(t) \/ Recover(t)

InTransaction(t) == Enter(t) \/ RunStatement(t) \/ CommitTransaction(t) \/ Exit(t)

Next ==
  \/ \E t \in Threads : StartQuery(t) \/ StartTransaction(t) \/ Query(t) \/ InTransaction(t)
  \/ \E c \in DOMAIN conn : Sever(c)

Spec == Init /\ [][Next]_vars

(* a thread that is in an operation keeps running *)
FairSpec == Spec /\ \A t \in Threads : WF_vars(Query(t) \/ InTransaction(t))
-----------------------------------------------------------------------------
(* Every variable has the shape the code gives it. *)
TypeOK ==
  /\ \A c \in DOMAIN conn : /\ conn[c].state \in {"none", "open", "severed", "closed"}
                            /\ conn[c].aborted \in BOOLEAN
                            /\ conn[c].pending \subseteq Writes
  /\ current \in Connected
  /\ applied \in [Writes -> 0 .. MaxRetry]
  /\ \A t \in Threads : thread[t].cur \in Connected \cup {0}
  /\ acked \subseteq Writes /\ disturbed \subseteq Writes
  /\ exposed \subseteq Writes /\ unsure \subseteq Writes

(* AckedIsDurable: a write whose commit was reported to its caller is in   *)
(* the database, unless another thread rolled back or aborted its          *)
(* transaction between its execute (line 66) and its commit (line 69), or  *)
(* replaced the shared connection between its cursor (line 62) and commit. *)
AckedIsDurable == \A w \in acked \ disturbed : applied[w] > 0

(* AppliedOnce: a retry repeats a statement (line 87); the statement takes *)
(* effect twice only if the reply to its first commit was lost, or if      *)
(* another thread had already committed it before the connection broke.    *)
AppliedOnce == \A w \in Writes : applied[w] > 1 => w \in unsure \cup exposed

(* TransactionAtomic: when a transaction is over, both of its statements   *)
(* have taken effect or neither has, unless another thread ended the       *)
(* transaction on the shared connection in the middle of it.               *)
TransactionAtomic ==
  \A t \in Threads, n \in 1 .. MaxOps :
    LET first == <<t, n, 1>>  second == <<t, n, 2>>
    IN  thread[t] = Idle(n) /\ applied[first] # applied[second] =>
          \/ applied[second] = 0 /\ applied[first] = 1 /\ first \in exposed
          \/ {first, second} \cap disturbed # {}

(* NothingHalfDone: when no thread is in an operation, nothing is left     *)
(* uncommitted on the connection for the next commit to pick up.           *)
NothingHalfDone ==
  (\A t \in Threads : At(t, "idle")) /\ conn[current].state = "open" =>
    conn[current].pending = {} /\ ~ conn[current].aborted

(* QueriesEnd: retries and reconnections come to an end. *)
QueriesEnd == \A t \in Threads : ~ At(t, "idle") ~> At(t, "idle")
=============================================================================
