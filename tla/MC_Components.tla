---------------------------- MODULE MC_Components ----------------------------
(***************************************************************************)
(* Model of the components that a program uses side by side and that share *)
(* no state: a behaviour is one of one of them, while the others stay      *)
(* where they begin.                                                       *)
(***************************************************************************)
EXTENDS Listener, Requests, Receiver, Server, Query, Aggregate, SplitMessage, Crc,
        Integer

(* text_breaks: the best first *)
MCBreaks == <<"newline", "space">>

Bits(n) == {bit \in 0 .. 15 : (n \div 2^bit) % 2 = 1}

(* two widths, with the polynomials and start values of tests/test_crc.py and others *)
MCCrcs ==
  [bitlength : {8}, polynomial : {Bits(7), Bits(29)}, init_value : {Bits(0), Bits(255)},
   xor_out : {Bits(0), Bits(255)}]
    \cup [bitlength : {16}, polynomial : {Bits(4129), Bits(32773)},
          init_value : {Bits(7439), Bits(65535)}, xor_out : {Bits(0), Bits(65535)}]

MCBytes == {Bits(0), Bits(1), Bits(116), Bits(255)}

VARIABLE part

Parts == {"listener", "requests", "receiver", "server", "query", "aggregate", "split", "crc", "integer"}

ComponentsInit ==
  /\ part \in Parts
  /\ Init /\ RequestsInit /\ ReceiverInit /\ ServerInit /\ QueryInit
  /\ AggregateInit /\ SplitInit /\ CrcInit /\ IntegerInit

ComponentsNext ==
  /\ UNCHANGED part
  /\ part # "listener" => UNCHANGED vars
  /\ part # "requests" => UNCHANGED requestVars
  /\ part # "receiver" => UNCHANGED receiverVars
  /\ part # "server" => UNCHANGED serverVars
  /\ part # "query" => UNCHANGED queryVars
  /\ part # "aggregate" => UNCHANGED aggregateVars
  /\ part # "split" => UNCHANGED splitVars
  /\ part # "crc" => UNCHANGED crcVars
  /\ part # "integer" => UNCHANGED integerVars
  /\ \/ part = "listener" /\ Next
     \/ part = "requests" /\ RequestsNext
     \/ part = "receiver" /\ ReceiverNext
     \/ part = "server" /\ ServerNext
     \/ part = "query" /\ QueryNext
     \/ part = "aggregate" /\ AggregateNext
     \/ part = "split" /\ SplitNext
     \/ part = "crc" /\ CrcNext
     \/ part = "integer" /\ IntegerNext

(* the Listener's fairness; receivers go on, and the broker gets its       *)
(* deliveries out                                                          *)
ComponentsFairness ==
  /\ WF_vars(part = "listener" /\ Poll)
  /\ SF_vars(part = "listener" /\ Serve) /\ SF_vars(part = "listener" /\ Receive)
  /\ \A w \in Workers : WF_vars(part = "listener" /\ (Take(w) \/ Finish(w) \/ Leave(w)))
  /\ \A r \in Receivers : /\ WF_receiverVars(part = "receiver" /\ ReceiverStep(r))
                          /\ SF_receiverVars(part = "receiver" /\ Deliver(r))

ComponentsSpec ==
  ComponentsInit /\ [][ComponentsNext]_<<part, vars, requestVars, receiverVars, serverVars,
                                        queryVars, aggregateVars, splitVars, crcVars, integerVars>>
    /\ ComponentsFairness

(* EventuallyHandled for the behaviours of the receivers *)
MessagesHandled == part = "receiver" => EventuallyHandled
=============================================================================
