------------------------- MODULE OrderedDelivery -------------------------
(***************************************************************************)
(* What the synchronisation promises, without outbox rows, claims, leases, *)
(* requests or acknowledgements: every fact recorded by a node reaches a   *)
(* destination at most once and after the facts of its aggregate that it   *)
(* follows, and the sender considers delivered only what the destination   *)
(* already holds.  A fact may be recorded after one that it precedes only  *)
(* when it lists an existing state again, and only then may it be late.    *)
(* docs/architecture/12-sincronizacion-y-ownership.md calls the first     *)
(* "custody" and the second "confirmation".                                *)
(***************************************************************************)
CONSTANTS
  Event,            \* identifiers of the facts the node may record
  Listed,           \* those that list an existing state again
  Destination,      \* nodes that may receive them
  Before            \* Before[e]: the facts that precede e in its aggregate

VARIABLES
  recorded,         \* facts committed in the sender's database
  follows,          \* follows[e]: those e was recorded after, or with, among Before[e]
  held,             \* held[d]: facts destination d has in custody
  late,             \* late[d]: those it put aside for review as they came
  confirmed         \* confirmed[d]: facts the sender knows d holds

avars == <<recorded, follows, held, late, confirmed>>

AInit ==
  /\ recorded = {}
  /\ follows = [e \in Event |-> {}]
  /\ held = [d \in Destination |-> {}]
  /\ late = [d \in Destination |-> {}]
  /\ confirmed = [d \in Destination |-> {}]

(* The sender commits facts; those that are not listed again precede none  *)
(* that is there.                                                          *)
RecordFacts(facts) ==
  /\ facts \cap recorded = {}
  /\ \A e \in facts \ Listed, h \in recorded : e \notin Before[h]
  /\ recorded' = recorded \cup facts
  /\ follows' = [e \in Event |-> IF e \in facts THEN Before[e] \cap (recorded \cup facts)
                                 ELSE follows[e]]
  /\ UNCHANGED <<held, late, confirmed>>

(* A destination takes custody, once, of a fact: what it follows was       *)
(* already confirmed to the sender.                                        *)
take(d, e) ==
  /\ e \in recorded \ held[d]
  /\ follows[e] \subseteq confirmed[d]
  /\ held' = [held EXCEPT ![d] = @ \cup {e}]
  /\ UNCHANGED <<recorded, follows, confirmed>>

Hold(d, e) == take(d, e) /\ UNCHANGED late

(* It puts aside only a listed fact, when it holds one that was recorded   *)
(* before it and that it precedes.                                         *)
HoldLate(d, e) ==
  /\ e \in Listed
  /\ \E h \in held[d] : e \in Before[h] \ follows[h]
  /\ take(d, e)
  /\ late' = [late EXCEPT ![d] = @ \cup {e}]

(* The sender learns that the destination holds the fact.                  *)
Confirm(d, e) ==
  /\ e \in held[d] \ confirmed[d]
  /\ confirmed' = [confirmed EXCEPT ![d] = @ \cup {e}]
  /\ UNCHANGED <<recorded, follows, held, late>>

ANext ==
  \/ \E facts \in SUBSET Event : RecordFacts(facts)
  \/ \E d \in Destination, e \in Event : Hold(d, e) \/ HoldLate(d, e) \/ Confirm(d, e)

ASpec == AInit /\ [][ANext]_avars
==========================================================================
