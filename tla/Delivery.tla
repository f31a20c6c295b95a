------------------------------ MODULE Delivery ------------------------------
(***************************************************************************)
(* What a consumer promises the sender of some items, over a service that  *)
(* keeps an item and hands it out again until it is confirmed: no item is  *)
(* forgotten by everybody before it is handled, unless a crash loses it.   *)
(***************************************************************************)
CONSTANT Items

VARIABLES kept,     \* items the service has, and those still to be sent
          held,     \* items in the memory of a consumer
          handled,  \* items some consumer has dealt with
          lost      \* items whose last holder was killed

deliveryVars == <<kept, held, handled, lost>>

DeliveryInit == kept = Items /\ held = {} /\ handled = {} /\ lost = {}

Fetch ==
  /\ held \subseteq held' /\ held' \ held \subseteq kept
  /\ UNCHANGED <<kept, handled, lost>>

(* one consumer is done with an item; another may hold it still *)
Handle ==
  /\ \E i \in held : handled' = handled \cup {i} /\ held' \in {held, held \ {i}}
  /\ UNCHANGED <<kept, lost>>

Confirm ==
  /\ kept' \subseteq kept /\ kept \ kept' \subseteq held \cup handled \cup lost
  /\ UNCHANGED <<held, handled, lost>>

(* what the service does not have any more, and nobody has dealt with, is  *)
(* lost with its last holder                                               *)
LetGo ==
  /\ held' \subseteq held /\ held \ held' \subseteq kept \cup handled \cup lost'
  /\ lost \subseteq lost' /\ lost' \subseteq lost \cup held
  /\ UNCHANGED <<kept, handled>>

DeliveryNext == Fetch \/ Handle \/ Confirm \/ LetGo

DeliverySpec == DeliveryInit /\ [][DeliveryNext]_deliveryVars

(* NothingForgotten: what the service has let go of is with a consumer,    *)
(* dealt with, or lost.  Every implementation of the contract inherits it. *)
NothingForgotten == Items \ kept \subseteq held \cup handled \cup lost
=============================================================================
