-------------------------- MODULE MCSyncDelivery --------------------------
(***************************************************************************)
(* Instances of SyncDelivery for TLC: the facts of a small store.          *)
(***************************************************************************)
EXTENDS SyncDelivery, TLC

CONSTANTS a1, a2, d1, d2, r1, r2, none

RelaySymmetry == Permutations({r1, r2})

(* Facts 1 and 2 are versions 1 and 2 of the rate a1; fact 4 lists version *)
(* 1 again.  Fact 3 is of a2 and its contract does not survive the round   *)
(* trip.                                                                   *)
FourFacts == 1..4
RateAndOther == [e \in FourFacts |-> IF e = 3 THEN a2 ELSE a1]
SecondIsNewer == [e \in FourFacts |-> IF e = 2 THEN 2 ELSE 1]
ThirdInvalid == [e \in FourFacts |-> IF e = 3 THEN "invalid" ELSE "supported"]

(* Fact 1 is version 2 of the rate a1 and fact 2 lists version 1, before   *)
(* or after it; the catalogue does not publish the contract of fact 2.     *)
TwoFacts == {1, 2}
OneRate == [e \in TwoFacts |-> a1]
FirstIsNewer == [e \in TwoFacts |-> IF e = 1 THEN 2 ELSE 1]
SecondUnsupported == [e \in TwoFacts |-> IF e = 2 THEN "unsupported" ELSE "supported"]

(* Two facts of one version, committed together: only their ids order them. *)
OneVersion == [e \in TwoFacts |-> 1]
AllSupported == [e \in TwoFacts |-> "supported"]
==========================================================================
