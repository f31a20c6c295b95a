------------------------------ MODULE Receiver ------------------------------
(***************************************************************************)
(* The message queue Receiver (kh_common/message_queue.py).  consumer      *)
(* yields the messages one at a time, receiveAll collects them first; both *)
(* acknowledge all of them at once, when the queue runs dry.  A message    *)
(* that is not acknowledged when its connection closes goes back to its    *)
(* place in the queue.  It does so at once, while the loop goes on with    *)
(* what the client has fetched (a caller that takes longer than the        *)
(* heartbeat allows is cut off like this): another receiver may get the    *)
(* same message meanwhile.  receiveJson changes nothing: json is not       *)
(* imported, so it raises NameError before it connects.                    *)
(***************************************************************************)
EXTENDS Integers, Sequences, FiniteSetsExt

CONSTANTS
  Receivers,   \* processes that receive from the same queue
  Messages,    \* in the order in which they were published
  Empty,       \* those whose body is empty
  MaxTroubles  \* bound on lost connections, crashes and abandoned loops

ASSUME ReceiverAssumption ==
  Messages \subseteq Nat /\ Empty \subseteq Messages /\ MaxTroubles \in Nat

VARIABLES
  ready,     \* messages the broker may deliver
  receiver,  \* per process: its channel, loop and list
  times,     \* history: how often the callers have dealt with each message
  forfeited, \* history: acknowledged messages that died with a caller's list
  troubles

receiverVars == <<ready, receiver, times, forfeited, troubles>>

(* tags: the channel's deliveries, a message's delivery tag is its index;  *)
(* ack: 0 where the code has -1                                            *)
Disconnected == [pc |-> "idle", mode |-> "stream", connected |-> FALSE,
                 tags |-> <<>>, yielded |-> 0, ack |-> 0, list |-> {}]

ReceiverInit ==
  /\ ready = Messages /\ times = [m \in Messages |-> 0] /\ forfeited = {} /\ troubles = 0
  /\ receiver = [r \in Receivers |-> Disconnected]

consumed == {m \in Messages : times[m] > 0}

Fetched(r) == LET tags == receiver[r].tags IN {tags[i] : i \in DOMAIN tags}

Unacked(r) == IF receiver[r].connected THEN Fetched(r) ELSE {}

Pending == ready \cup UNION {Unacked(r) : r \in Receivers}

ListedBesides(r) == UNION {receiver[o].list : o \in Receivers \ {r}}

Delivery(r) == receiver[r].tags[receiver[r].yielded]

Trouble == troubles < MaxTroubles /\ troubles' = troubles + 1

(* the connection closes: a stream is over, a list goes to its caller *)
Closed(r) ==
  LET list == receiver[r].list IN
  receiver' = [receiver EXCEPT ![r] =
    IF list = {} THEN Disconnected ELSE [Disconnected EXCEPT !.pc = "returned", !.list = list]]
-----------------------------------------------------------------------------
OpenChannel(r) ==
  /\ receiver[r].pc = "idle"
  /\ \E mode \in {"stream", "list"} :
       receiver' = [receiver EXCEPT ![r].pc = "receiving", ![r].mode = mode,
                                    ![r].connected = TRUE]
  /\ UNCHANGED <<ready, times, forfeited, troubles>>

Deliver(r) ==
  /\ receiver[r].connected /\ receiver[r].pc \in {"receiving", "handling"} /\ ready # {}
  /\ receiver' = [receiver EXCEPT ![r].tags = Append(@, Min(ready))]
  /\ ready' = ready \ {Min(ready)}
  /\ UNCHANGED <<times, forfeited, troubles>>

(* yield body: receiveAll takes it and asks for the next at once *)
Yielded(loop, next) ==
  IF loop.mode = "stream"
  THEN [loop EXCEPT !.pc = "handling", !.yielded = next]
  ELSE [loop EXCEPT !.yielded = next, !.ack = next, !.list = @ \cup {loop.tags[next]}]

(* mutant: an empty body is skipped, and there is no inactivity timeout *)
NextDelivery_Waits(r) ==
  LET next == receiver[r].yielded + 1 IN
  /\ receiver[r].pc = "receiving" /\ next <= Len(receiver[r].tags)
  /\ receiver' = [receiver EXCEPT ![r] =
       IF @.tags[next] \in Empty THEN [@ EXCEPT !.yielded = next] ELSE Yielded(@, next)]
  /\ UNCHANGED <<ready, times, forfeited, troubles>>

(* An empty body, or none for the inactivity timeout, ends the loop. *)
NextDelivery(r) ==
  LET next == receiver[r].yielded + 1
      ends == next > Len(receiver[r].tags) \/ receiver[r].tags[next] \in Empty
  IN  /\ receiver[r].pc = "receiving"
      /\ receiver' = [receiver EXCEPT ![r] =
           IF ends THEN [@ EXCEPT !.pc = "acking"] ELSE Yielded(@, next)]
      /\ UNCHANGED <<ready, times, forfeited, troubles>>

(* The consumer's caller has dealt with the message and asks for the next. *)
Handle(r) ==
  /\ receiver[r].pc = "handling"
  /\ times' = [times EXCEPT ![Delivery(r)] = @ + 1]
  /\ receiver' = [receiver EXCEPT ![r].pc = "receiving", ![r].ack = receiver[r].yielded]
  /\ UNCHANGED <<ready, forfeited, troubles>>

HandleListed(r) ==
  /\ receiver[r].pc = "returned"
  /\ \E m \in receiver[r].list : LET rest == receiver[r].list \ {m} IN
       /\ times' = [times EXCEPT ![m] = @ + 1]
       /\ receiver' = [receiver EXCEPT ![r] =
            IF rest = {} THEN Disconnected ELSE [@ EXCEPT !.list = rest]]
  /\ UNCHANGED <<ready, forfeited, troubles>>

(* The caller raises or breaks out of its loop: the generator is closed,   *)
(* and its bare except swallows the GeneratorExit.                         *)
Abandon(r) ==
  /\ receiver[r].pc = "handling" /\ Trouble
  /\ Closed(r) /\ ready' = ready \cup Unacked(r)
  /\ UNCHANGED <<times, forfeited>>

(* mutant: the acknowledgement covers whatever has been delivered *)
Acknowledged_All(r) == Unacked(r)

(* basic_ack(ack, multiple=True) *)
Acknowledged(r) == {receiver[r].tags[i] : i \in 1 .. receiver[r].ack}

(* The queue gets the acknowledgement. *)
Acknowledge(r) ==
  /\ receiver[r].pc = "acking" /\ receiver[r].connected
  /\ Closed(r) /\ ready' = ready \cup (Unacked(r) \ Acknowledged(r))
  /\ UNCHANGED <<times, forfeited, troubles>>

(* The broker gives the connection up, whatever its receiver is doing. *)
Disconnect(r) ==
  /\ receiver[r].connected /\ Trouble
  /\ receiver' = [receiver EXCEPT ![r].connected = FALSE]
  /\ ready' = ready \cup Unacked(r)
  /\ UNCHANGED <<times, forfeited>>

(* The next use of the connection raises.  Any error is logged; what       *)
(* receiveAll has collected is returned.                                   *)
Notice(r) ==
  /\ receiver[r].pc \in {"receiving", "acking"} /\ ~ receiver[r].connected
  /\ Closed(r)
  /\ UNCHANGED <<ready, times, forfeited, troubles>>

(* What only a killed caller still had is lost with its list. *)
Crash(r) ==
  /\ receiver[r].pc # "idle" /\ Trouble
  /\ receiver' = [receiver EXCEPT ![r] = Disconnected]
  /\ ready' = ready \cup Unacked(r)
  /\ forfeited' = forfeited \cup (receiver[r].list \ (Pending \cup consumed \cup ListedBesides(r)))
  /\ UNCHANGED times

ReceiverStep(r) ==
  OpenChannel(r) \/ NextDelivery(r) \/ Handle(r) \/ HandleListed(r)
    \/ Acknowledge(r) \/ Notice(r)

ReceiverNext ==
  \E r \in Receivers : ReceiverStep(r) \/ Deliver(r) \/ Abandon(r) \/ Disconnect(r) \/ Crash(r)

ReceiverSpec == ReceiverInit /\ [][ReceiverNext]_receiverVars
-----------------------------------------------------------------------------
(* GoneIsHandled: a message leaves the queue only after a caller has dealt *)
(* with it or while it is in the list of a caller that was not killed      *)
(* (message_queue.py:58-67).  receiveAll acknowledges before its caller    *)
(* begins: those of a killed caller are forfeited.  A message may be with  *)
(* two receivers, when the connection of one was lost or its               *)
(* acknowledgement was; but callers deal with it again at most once for    *)
(* every lost connection, abandoned loop or killed process.                *)
GoneIsHandled ==
  /\ Messages \ Pending \subseteq consumed \cup forfeited \cup UNION {receiver[r].list : r \in Receivers}
  /\ \A m \in Messages : times[m] <= 1 + troubles

(* KeepsMessages: the receivers keep the contract of Delivery: a message   *)
(* is acknowledged only when its caller has it or is done with it, and     *)
(* what a caller drops is still in the queue or was dealt with, unless it  *)
(* was acknowledged and the caller was killed (message_queue.py:24-81).    *)
(* What a client had fetched when its connection was lost may still reach  *)
(* the caller.                                                             *)
WithCaller(r) ==
  receiver[r].list
    \cup (IF receiver[r].pc = "handling" THEN {Delivery(r)} ELSE {})
    \cup (IF receiver[r].connected THEN {} ELSE Fetched(r))

MessageContract == INSTANCE Delivery
  WITH Items <- Messages, kept <- Pending, held <- UNION {WithCaller(r) : r \in Receivers},
       handled <- consumed, lost <- forfeited

KeepsMessages == MessageContract!DeliverySpec

(* What makes GoneIsHandled inductive: a channel acknowledges nothing that *)
(* its caller has not dealt with, or does not have in its list; no two     *)
(* channels hold a message; and whoever may still deal with a message      *)
(* counts as if he had.                                                    *)
ReceiverTypeOK ==
  /\ ready \subseteq Messages /\ times \in [Messages -> Nat] /\ troubles \in Nat
  /\ receiver \in [Receivers ->
       [pc : {"idle", "receiving", "handling", "acking", "returned"}, mode : {"stream", "list"},
        connected : BOOLEAN, tags : Seq(Messages), yielded : Nat, ack : Nat, list : SUBSET Messages]]

LoopOK(loop) ==
  /\ loop.pc = "handling" => loop.mode = "stream"
  /\ loop.yielded = (IF loop.pc = "handling" THEN loop.ack + 1 ELSE loop.ack)
  /\ loop.yielded <= Len(loop.tags)
  /\ loop.pc \in {"idle", "returned"} => loop.tags = <<>> /\ ~ loop.connected
  /\ loop.pc = "idle" => loop.list = {}
  /\ \A i, j \in DOMAIN loop.tags : loop.tags[i] = loop.tags[j] => i = j
  /\ \A i \in 1 .. loop.ack :
       loop.tags[i] \in (IF loop.mode = "stream" THEN consumed ELSE loop.list)
  /\ loop.pc # "returned" => \A m \in loop.list :
       loop.mode = "list" /\ \E i \in 1 .. loop.ack : loop.tags[i] = m

ChannelsOK ==
  /\ \A r, s \in Receivers : r # s => Unacked(r) \cap Unacked(s) = {}
  /\ \A r \in Receivers : Unacked(r) \cap ready = {}

MayHandle(loop, m) ==
  m \in loop.list \/ \E i \in DOMAIN loop.tags : i > loop.ack /\ loop.tags[i] = m

Holders(m) == {r \in Receivers : MayHandle(receiver[r], m)}

Counted ==
  \A m \in Messages : /\ IsFiniteSet(Holders(m))
                      /\ times[m] + Cardinality(Holders(m)) + (IF m \in ready THEN 1 ELSE 0) <= 1 + troubles

ReceiverInv ==
  ReceiverTypeOK /\ GoneIsHandled /\ ChannelsOK /\ Counted /\ \A r \in Receivers : LoopOK(receiver[r])

(* EventuallyHandled: a message that no empty one precedes is dealt with   *)
(* in the end, or forfeited with a list, however the connections fare      *)
(* (message_queue.py:58-81).  One behind an empty message may never be: it *)
(* comes back to the front of the queue every time.                        *)
EventuallyHandled ==
  \A m \in Messages : (\A e \in Empty : m < e) => <>(m \in consumed \cup forfeited)
=============================================================================
