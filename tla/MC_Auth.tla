------------------------------- MODULE MC_Auth ------------------------------
(* Small instances of Auth: tokens that are good, revocable, removable,    *)
(* that expire or whose key does, and one for each defect that is refused. *)
EXTENDS Auth, TLC

CONSTANTS good, revocable, removable, expiring, aging,
           unknown, malformed, keyless, forged, mismatched

Claim(key, expires) ==
  [version |-> "1", key |-> key, expires |-> expires, scope |-> {"user"},
   signed |-> TRUE, matches |-> TRUE]

ClaimsOf ==
  good :> [Claim(1, 9) EXCEPT !.scope = {"user", "admin"}]
  @@ revocable :> Claim(1, 9)
  @@ removable :> Claim(2, 9)
  @@ expiring :> Claim(2, 0)
  @@ aging :> Claim(3, 9)
  @@ unknown :> [Claim(1, 9) EXCEPT !.version = "unknown"]
  @@ malformed :> [Claim(1, 9) EXCEPT !.version = "malformed"]
  @@ keyless :> Claim(0, 9)
  @@ forged :> [Claim(2, 9) EXCEPT !.signed = FALSE]
  @@ mismatched :> [Claim(2, 9) EXCEPT !.matches = FALSE]

ExpiresOf == <<9, 9, 0>>

FateOf == [k \in Tokens |-> IF k = revocable THEN "inactive"
                           ELSE IF k = removable THEN "gone" ELSE "active"]

HeldTogether ==
  {{good, revocable}, {removable}, {good, expiring}, {good, aging},
   {forged, mismatched, keyless}, {good, unknown, malformed}}

Symmetry == Permutations(Requests)
=============================================================================
