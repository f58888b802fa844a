------------------------------- MODULE VaultRekey -------------------------------
(***************************************************************************)
(* What key rotation promises, seen from a device: the vault is a set of   *)
(* items that can be read and edited; it may be frozen; while it is frozen *)
(* nothing changes until it thaws as it was, or thaws under a new key with *)
(* every item reading exactly as before.  There is no state in which an    *)
(* item is unreadable, or in which part of the vault has moved to the key. *)
(***************************************************************************)
CONSTANTS Items, Readings, Keys

VARIABLES key, reading, frozen

vars == <<key, reading, frozen>>

Init ==
  /\ key \in Keys
  /\ reading \in [Items -> Readings]
  /\ frozen = FALSE

Edit(i, r) ==
  /\ ~frozen
  /\ reading' = [reading EXCEPT ![i] = r]
  /\ UNCHANGED <<key, frozen>>

Freeze == ~frozen /\ frozen' = TRUE /\ UNCHANGED <<key, reading>>

Thaw == frozen /\ frozen' = FALSE /\ UNCHANGED <<key, reading>>

Rekey(k) ==
  /\ frozen /\ frozen' = FALSE
  /\ key' = k /\ k # key
  /\ UNCHANGED reading

Next ==
  \/ \E i \in Items, r \in Readings : Edit(i, r)
  \/ Freeze
  \/ Thaw
  \/ \E k \in Keys : Rekey(k)

Spec == Init /\ [][Next]_vars

=============================================================================
