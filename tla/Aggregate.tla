------------------------------ MODULE Aggregate ------------------------------
(***************************************************************************)
(* Aggregate (kh_common/caching): calls only feed an aggregator, until one *)
(* comes after the time span is over and runs the function on the result.  *)
(* A call does all of this without a pause, in async functions too.        *)
(* Numbers are multiplied by Unit, so that the running means are whole.    *)
(***************************************************************************)
EXTENDS Integers, Sequences

CONSTANTS
  Keys,      \* the arguments that are aggregated
  MaxValue,  \* bound on the values
  MaxWindow, \* bound on the calls of a window
  Unit       \* what the model counts one as

(* a value has as many parts as a window may have calls, whatever number that is *)
ASSUME AggregateAssumption ==
  /\ MaxValue \in Nat /\ MaxWindow \in Nat \ {0} /\ Unit \in Nat \ {0}
  /\ \A n \in 1 .. MaxWindow : \E d \in 1 .. Unit : Unit = n * d

VARIABLES
  aggregator,  \* the kind of aggregator and what it holds
  window,      \* history: the calls since the last result
  spoiled,     \* history: one of them raised in update
  result       \* what the latest call ran the function on, if it did

aggregateVars == <<aggregator, window, spoiled, result>>

Absent == -1
NoResult == [kind |-> "none"]

(* one mean for the sum or average, and the sum of squares; both default to 0 *)
NewAggregator(kind) ==
  [kind |-> kind, count |-> 0, keys |-> {}, mean |-> [k \in Keys |-> 0], q |-> [k \in Keys |-> 0]]

AggregateInit ==
  /\ aggregator = NewAggregator("none") /\ window = <<>> /\ spoiled = FALSE
  /\ result = NoResult

(* the decorator is built with an aggregator of its own *)
Decorate ==
  /\ aggregator.kind = "none"
  /\ \E kind \in {"Sum", "Average", "StandardDeviation"} : aggregator' = NewAggregator(kind)
  /\ UNCHANGED <<window, spoiled, result>>
-----------------------------------------------------------------------------
(* update, with the numbers of these arguments *)
Update(data, keys) ==
  LET n == aggregator.count + 1
      mean == [k \in Keys |->
        IF k \notin keys THEN aggregator.mean[k]
        ELSE IF aggregator.kind = "Sum" THEN aggregator.mean[k] + Unit * data[k]
        ELSE aggregator.mean[k] + (Unit * data[k] - aggregator.mean[k]) \div n]
  IN  [aggregator EXCEPT !.count = n, !.keys = @ \cup keys, !.mean = mean,
         !.q = [k \in Keys |->
           IF k \notin keys THEN @[k]
           ELSE @[k] + (Unit * data[k] - aggregator.mean[k]) * (Unit * data[k] - mean[k])]]

(* mutant: the next window goes on counting *)
Reset_Count == [NewAggregator(aggregator.kind) EXCEPT !.count = aggregator.count]

Reset == NewAggregator(aggregator.kind)

(* result(): StandardDeviation divides by count - 1 before the aggregator  *)
(* is reset, and of a single call there is no deviation: ZeroDivisionError *)
Called(data) ==
  LET keys == {k \in Keys : data[k] # Absent}
      updated == Update(data, keys)
      fails == aggregator.kind = "StandardDeviation" /\ updated.count = 1 /\ updated.keys # {}
  IN  \/ /\ aggregator' = updated /\ window' = Append(window, data)
         /\ UNCHANGED spoiled /\ result' = NoResult
      \/ /\ ~ fails
         /\ aggregator' = Reset /\ window' = <<>> /\ spoiled' = FALSE
         /\ result' = IF spoiled THEN NoResult ELSE
                      [kind |-> aggregator.kind, keys |-> updated.keys, mean |-> updated.mean, q |-> updated.q,
                       divisor |-> updated.count - 1, window |-> Append(window, data)]

(* An argument that is no number raises TypeError in update, after some of *)
(* the others have been counted; it has an entry from then on.             *)
CalledWithoutNumber(data) ==
  LET given == {k \in Keys : data[k] # Absent} IN
  /\ \E bad \in given : \E keys \in SUBSET (given \ {bad}) :
       aggregator' = [Update(data, keys) EXCEPT !.keys = @ \cup {bad}]
  /\ window' = Append(window, data) /\ spoiled' = TRUE
  /\ result' = NoResult

AggregateNext ==
  \/ Decorate
  \/ /\ aggregator.kind # "none" /\ Len(window) < MaxWindow
     /\ \E data \in [Keys -> (0 .. MaxValue) \cup {Absent}] : Called(data) \/ CalledWithoutNumber(data)

AggregateSpec == AggregateInit /\ [][AggregateNext]_aggregateVars
-----------------------------------------------------------------------------
(* the sum of some numbers *)
Total(numbers) ==
  LET sum[n \in 0 .. Len(numbers)] == IF n = 0 THEN 0 ELSE sum[n - 1] + numbers[n]
  IN  sum[Len(numbers)]

(* what the calls gave for an argument, and how far that is from a number, squared *)
Measured(calls, k) == [i \in 1 .. Len(calls) |-> Unit * calls[i][k]]
Squares(numbers, m) == [i \in 1 .. Len(numbers) |-> (numbers[i] - m) * (numbers[i] - m)]

(* WindowExact: the function gets the sum, the mean and the sample         *)
(* variance of the calls since the last result, for every argument that    *)
(* all of them gave (caching/__init__.py:287-405), after a call has failed *)
(* for want of a second one too.  Not after a call without a number, and   *)
(* not for an argument that some calls left to its default: the mean takes *)
(* it for 0 before its first value and for the mean after it.              *)
WindowExact ==
  result.kind # "none" =>
    LET calls == result.window IN
    \A k \in Keys : (\A i \in DOMAIN calls : calls[i][k] # Absent) =>
      /\ k \in result.keys
      /\ result.kind = "Sum" => result.mean[k] = Total(Measured(calls, k))
      /\ result.kind # "Sum" => Len(calls) * result.mean[k] = Total(Measured(calls, k))
      /\ result.kind = "StandardDeviation" =>
           /\ result.divisor = Len(calls) - 1
           /\ result.q[k] = Total(Squares(Measured(calls, k), result.mean[k]))
=============================================================================
