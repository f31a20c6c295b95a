---------------------------- MODULE MC_AuthStore ----------------------------
(* A small instance of AuthStore: two tokens that may be revoked, one with *)
(* each end a record can come to.                                          *)
EXTENDS AuthStore, TLC

CONSTANTS revocable, removable, forged

ClaimsOf == [k \in Tokens |->
  [version |-> "1", key |-> 1, expires |-> 9, scope |-> {"user"},
   signed |-> k # forged, matches |-> TRUE]]

ExpiresOf == <<9>>

FateOf == [k \in Tokens |-> IF k = revocable THEN "inactive"
                           ELSE IF k = removable THEN "gone" ELSE "active"]

HeldTogether == {{k} : k \in Tokens}

Symmetry == Permutations(Requests) \cup Permutations(Readers)
=============================================================================
