----------------------- MODULE SyncDeliveryProofs ------------------------
(***************************************************************************)
(* Proofs about SyncDelivery for any facts, destinations, relay workers,   *)
(* budgets and number of failures.                                         *)
(***************************************************************************)
EXTENDS SyncDelivery, TLAPS

USE NoneAssumption

-----------------------------------------------------------------------------
(* Rows.                                                                   *)

(* The budget of a row: pending rows (and rows not yet inserted) have     *)
(* attempts left, paused ones none.                                        *)
InCycle(row) ==
  /\ row.status \in {"ABSENT", "PENDING"} => row.cycle < AttemptsPerCycle
  /\ row.status = "PAUSED" => row.cycle >= AttemptsPerCycle

(* What any update may do to a row.                                        *)
Moves(old, new) ==
  /\ old.status \in {"PUBLISHED", "BLOCKED"} => new.status = old.status
  /\ old.attempts <= new.attempts
  /\ InCycle(old) => InCycle(new)

LEMMA RowsMove ==
  ASSUME NEW row \in Row
  PROVE  /\ claimedRow(row) \in Row /\ claimedRow(row).status = "PROCESSING"
         /\ isolatedRow(row) \in Row /\ isolatedRow(row).status = "BLOCKED"
         /\ publishedRow(row) \in Row /\ publishedRow(row).status = "PUBLISHED"
         /\ rescheduledRow(row) \in Row /\ rescheduledRow(row).status \in {"PAUSED", "PENDING"}
         /\ resumedRow(row) \in Row /\ resumedRow(row).status = "PENDING"
<1>1. claimedRow(row) \in Row /\ claimedRow(row).status = "PROCESSING"
  BY DEF Row, Statuses, claimedRow
<1>2. isolatedRow(row) \in Row /\ isolatedRow(row).status = "BLOCKED"
  BY DEF Row, Statuses, isolatedRow
<1>3. publishedRow(row) \in Row /\ publishedRow(row).status = "PUBLISHED"
  BY DEF Row, Statuses, publishedRow
<1>4. rescheduledRow(row) \in Row /\ rescheduledRow(row).status \in {"PAUSED", "PENDING"}
  <2>1. CASE row.cycle >= AttemptsPerCycle
    BY <2>1 DEF Row, Statuses, rescheduledRow
  <2>2. CASE ~(row.cycle >= AttemptsPerCycle)
    BY <2>2 DEF Row, Statuses, rescheduledRow
  <2> QED BY <2>1, <2>2
<1>5. resumedRow(row) \in Row /\ resumedRow(row).status = "PENDING"
  BY DEF Row, Statuses, resumedRow
<1> QED BY <1>1, <1>2, <1>3, <1>4, <1>5

LEMMA OpenRowsAdvance ==
  ASSUME NEW row \in Row, row.status \notin {"PUBLISHED", "BLOCKED"}
  PROVE  /\ Moves(row, claimedRow(row)) /\ Moves(row, isolatedRow(row))
         /\ Moves(row, publishedRow(row)) /\ Moves(row, rescheduledRow(row))
         /\ Moves(row, resumedRow(row))
<1>0. row.attempts \in Nat /\ row.cycle \in Nat /\ AttemptsPerCycle \in Nat \ {0}
  BY BoundsAssumption DEF Row
<1>1. /\ claimedRow(row).attempts = row.attempts + 1
      /\ isolatedRow(row).attempts = row.attempts
      /\ publishedRow(row).attempts = row.attempts
      /\ resumedRow(row).attempts = row.attempts /\ resumedRow(row).cycle = 0
  BY DEF Row, claimedRow, isolatedRow, publishedRow, resumedRow
<1>2. Moves(row, claimedRow(row)) /\ Moves(row, isolatedRow(row)) /\ Moves(row, publishedRow(row))
  BY <1>0, <1>1, RowsMove DEF Moves, InCycle
<1>3. Moves(row, resumedRow(row))
  BY <1>0, <1>1, RowsMove DEF Moves, InCycle
<1>4. CASE row.cycle >= AttemptsPerCycle
  <2>1. /\ rescheduledRow(row).status = "PAUSED" /\ rescheduledRow(row).cycle = row.cycle
        /\ rescheduledRow(row).attempts = row.attempts
    BY <1>4 DEF Row, rescheduledRow
  <2> QED BY <1>0, <1>2, <1>3, <1>4, <2>1 DEF Moves, InCycle
<1>5. CASE ~(row.cycle >= AttemptsPerCycle)
  <2>1. /\ rescheduledRow(row).status = "PENDING" /\ rescheduledRow(row).cycle = row.cycle
        /\ rescheduledRow(row).attempts = row.attempts
    BY <1>5 DEF Row, rescheduledRow
  <2> QED BY <1>0, <1>2, <1>3, <1>5, <2>1 DEF Moves, InCycle
<1> QED BY <1>4, <1>5

LEMMA TimedRows ==
  ASSUME NEW row \in Row
  PROVE  /\ [row EXCEPT !.leased = FALSE] \in Row
         /\ [row EXCEPT !.leased = FALSE].status = row.status
         /\ Moves(row, [row EXCEPT !.leased = FALSE])
         /\ [row EXCEPT !.due = TRUE] \in Row
         /\ [row EXCEPT !.due = TRUE].status = row.status
         /\ Moves(row, [row EXCEPT !.due = TRUE])
<1>1. row.attempts \in Nat
  BY DEF Row
<1>2. /\ [row EXCEPT !.leased = FALSE] \in Row /\ [row EXCEPT !.due = TRUE] \in Row
  BY DEF Row
<1>3. /\ [row EXCEPT !.leased = FALSE].status = row.status
      /\ [row EXCEPT !.leased = FALSE].attempts = row.attempts
      /\ [row EXCEPT !.leased = FALSE].cycle = row.cycle
      /\ [row EXCEPT !.due = TRUE].status = row.status
      /\ [row EXCEPT !.due = TRUE].attempts = row.attempts
      /\ [row EXCEPT !.due = TRUE].cycle = row.cycle
  BY DEF Row
<1> QED BY <1>1, <1>2, <1>3 DEF Moves, InCycle

LEMMA MovesCompose ==
  ASSUME NEW a \in Row, NEW b \in Row, NEW c \in Row, Moves(a, b), Moves(b, c)
  PROVE  Moves(a, c)
<1>1. a.attempts \in Nat /\ b.attempts \in Nat /\ c.attempts \in Nat
  BY DEF Row
<1> QED BY <1>1 DEF Moves

LEMMA MaterializedRows ==
  ASSUME TypeOK, NEW d \in Destination
  PROVE  /\ materialize(d) \in [Event -> Row]
         /\ \A e \in Event :
              /\ materialize(d)[e].status # "ABSENT" => e \in recorded \/ Status(d, e) # "ABSENT"
              /\ Status(d, e) = "PUBLISHED" <=> materialize(d)[e].status = "PUBLISHED"
              /\ Moves(delivery[d][e], materialize(d)[e])
<1>1. delivery[d] \in [Event -> Row]
  BY DEF TypeOK
<1>2. ASSUME NEW row \in Row, row.status = "ABSENT"
      PROVE  /\ [row EXCEPT !.status = "PENDING"] \in Row
             /\ [row EXCEPT !.status = "PENDING"].status = "PENDING"
             /\ Moves(row, [row EXCEPT !.status = "PENDING"])
  <2>1. row.attempts \in Nat /\ row.cycle \in Nat
    BY DEF Row
  <2> QED BY <1>2, <2>1 DEF Row, Statuses, Moves, InCycle
<1>3. \A row \in Row : Moves(row, row)
  BY DEF Row, Moves
<1>4. ASSUME NEW e \in Event
      PROVE  /\ materialize(d)[e] \in Row
             /\ materialize(d)[e].status # "ABSENT" => e \in recorded \/ Status(d, e) # "ABSENT"
             /\ Status(d, e) = "PUBLISHED" <=> materialize(d)[e].status = "PUBLISHED"
             /\ Moves(delivery[d][e], materialize(d)[e])
  <2> DEFINE row == delivery[d][e]
  <2>1. row \in Row
    BY <1>1
  <2>2. materialize(d)[e] = IF e \in recorded /\ row.status = "ABSENT"
                            THEN [row EXCEPT !.status = "PENDING"] ELSE row
    BY DEF materialize, Status
  <2> HIDE DEF row
  <2>3. CASE e \in recorded /\ row.status = "ABSENT"
    BY <1>2, <2>1, <2>2, <2>3 DEF row, Status
  <2>4. CASE ~(e \in recorded /\ row.status = "ABSENT")
    BY <1>3, <2>1, <2>2, <2>4 DEF row, Status
  <2> QED BY <2>3, <2>4
<1>5. materialize(d) \in [Event -> Row]
  BY <1>4 DEF materialize
<1> QED BY <1>4, <1>5

LEMMA UpdatedRows ==
  ASSUME TypeOK, NEW d \in Destination, NEW e \in Event, NEW row \in Row,
         delivery' = [delivery EXCEPT ![d][e] = row]
  PROVE  /\ delivery' \in [Destination -> [Event -> Row]]
         /\ delivery[d][e] \in Row
         /\ Status(d, e)' = row.status
         /\ \A o \in Destination, f \in Event :
              o # d \/ f # e => Status(o, f)' = Status(o, f)
  BY DEF TypeOK, Status

(* What a step may do to the rows, and what only a confirmation may.       *)
KeepsRows ==
  \A d \in Destination, e \in Event :
    /\ Moves(delivery[d][e], delivery'[d][e])
    /\ Status(d, e)' # "ABSENT" => Status(d, e) # "ABSENT" \/ e \in recorded

PublishesNothing ==
  \A d \in Destination, e \in Event :
    Status(d, e)' = "PUBLISHED" => Status(d, e) = "PUBLISHED"

LEMMA UnmovedRows ==
  ASSUME TypeOK
  PROVE  \A d \in Destination, e \in Event : Moves(delivery[d][e], delivery[d][e])
<1>1. \A d \in Destination, e \in Event : delivery[d][e].attempts \in Nat
  BY DEF TypeOK, Row
<1> QED BY <1>1 DEF Moves

LEMMA SameRows ==
  ASSUME TypeOK, delivery' = delivery PROVE KeepsRows /\ PublishesNothing
  BY UnmovedRows DEF KeepsRows, PublishesNothing, Status

LEMMA OneRow ==
  ASSUME TypeOK, NEW d \in Destination, NEW e \in Event, NEW row \in Row,
         delivery' = [delivery EXCEPT ![d][e] = row],
         Status(d, e) \notin {"ABSENT", "PUBLISHED", "BLOCKED"}, Moves(delivery[d][e], row)
  PROVE  /\ delivery' \in [Destination -> [Event -> Row]]
         /\ KeepsRows
         /\ row.status # "PUBLISHED" => PublishesNothing
<1>1. delivery' \in [Destination -> [Event -> Row]]
  BY UpdatedRows
<1>2. \A o \in Destination, f \in Event :
        Status(o, f)' = IF o = d /\ f = e THEN row.status ELSE Status(o, f)
  BY UpdatedRows DEF Status
<1>3. KeepsRows
  <2>1. \A o \in Destination, f \in Event :
          delivery'[o][f] = IF o = d /\ f = e THEN row ELSE delivery[o][f]
    BY DEF TypeOK
  <2>2. \A o \in Destination, f \in Event : Moves(delivery[o][f], delivery'[o][f])
    BY <2>1, UnmovedRows
  <2> QED BY <1>2, <2>2 DEF KeepsRows, Status
<1>4. ASSUME row.status # "PUBLISHED" PROVE PublishesNothing
  BY <1>2, <1>4 DEF PublishesNothing, Status
<1> QED BY <1>1, <1>3, <1>4

LEMMA LocalSummary ==
  ASSUME TypeOK, NEW facts
  PROVE  isolateLocally(facts) \in [Event -> {"PENDING", "PUBLISHED", "BLOCKED"}]
  BY DEF TypeOK, isolateLocally

LEMMA MarkingBlocked ==
  ASSUME TypeOK, NEW d \in Destination, NEW c, c.event \in Event, markBlocked(d, c)
  PROVE  /\ delivery' \in [Destination -> [Event -> Row]]
         /\ local' \in [Event -> {"PENDING", "PUBLISHED", "BLOCKED"}]
         /\ KeepsRows /\ PublishesNothing
<1>1. CASE ownsRow(d, c)
  <2> DEFINE row == delivery[d][c.event]
  <2>1. row \in Row /\ Status(d, c.event) = "PROCESSING"
    BY <1>1 DEF TypeOK, ownsRow
  <2>2. delivery' = [delivery EXCEPT ![d][c.event] = isolatedRow(row)]
    BY <1>1 DEF markBlocked, TypeOK
  <2>3. isolatedRow(row) \in Row /\ isolatedRow(row).status = "BLOCKED"
    BY <2>1, RowsMove
  <2>9. Moves(row, isolatedRow(row))
    BY <2>1, OpenRowsAdvance DEF Status
  <2>4. local' \in [Event -> {"PENDING", "PUBLISHED", "BLOCKED"}]
    BY <1>1, LocalSummary DEF markBlocked
  <2> QED BY <2>1, <2>2, <2>3, <2>4, <2>9, OneRow
<1>2. CASE ~ownsRow(d, c)
  BY <1>2, SameRows DEF markBlocked, TypeOK
<1> QED BY <1>1, <1>2

LEMMA Rescheduling ==
  ASSUME TypeOK, NEW d \in Destination, NEW c, c.event \in Event, reschedule(d, c)
  PROVE  /\ delivery' \in [Destination -> [Event -> Row]]
         /\ local' \in [Event -> {"PENDING", "PUBLISHED", "BLOCKED"}]
         /\ KeepsRows /\ PublishesNothing
<1>0. local' \in [Event -> {"PENDING", "PUBLISHED", "BLOCKED"}]
  BY DEF TypeOK, reschedule
<1>1. CASE ownsRow(d, c)
  <2> DEFINE row == delivery[d][c.event]
  <2>1. row \in Row /\ Status(d, c.event) = "PROCESSING"
    BY <1>1 DEF TypeOK, ownsRow
  <2>2. delivery' = [delivery EXCEPT ![d][c.event] = rescheduledRow(row)]
    BY <1>1 DEF reschedule, TypeOK
  <2>3. rescheduledRow(row) \in Row /\ rescheduledRow(row).status # "PUBLISHED"
    BY <2>1, RowsMove
  <2>9. Moves(row, rescheduledRow(row))
    BY <2>1, OpenRowsAdvance DEF Status
  <2> QED BY <1>0, <2>1, <2>2, <2>3, <2>9, OneRow
<1>2. CASE ~ownsRow(d, c)
  BY <1>0, <1>2, SameRows DEF reschedule, TypeOK
<1> QED BY <1>1, <1>2

(* Publishing touches one row, and only if the claim still owns it.        *)
LEMMA MarkingPublished ==
  ASSUME TypeOK, NEW d \in Destination, NEW c, c.event \in Event, markPublished(d, c)
  PROVE  /\ delivery' \in [Destination -> [Event -> Row]]
         /\ local' \in [Event -> {"PENDING", "PUBLISHED", "BLOCKED"}]
         /\ KeepsRows
         /\ \A o \in Destination, f \in Event :
              Status(o, f)' = "PUBLISHED" =>
                Status(o, f) = "PUBLISHED" \/ (o = d /\ f = c.event)
<1>1. CASE ownsRow(d, c)
  <2> DEFINE row == delivery[d][c.event]
  <2>1. row \in Row /\ Status(d, c.event) = "PROCESSING"
    BY <1>1 DEF TypeOK, ownsRow
  <2>2. delivery' = [delivery EXCEPT ![d][c.event] = publishedRow(row)]
    BY <1>1 DEF markPublished, TypeOK
  <2>3. publishedRow(row) \in Row
    BY <2>1, RowsMove
  <2>9. Moves(row, publishedRow(row))
    BY <2>1, OpenRowsAdvance DEF Status
  <2>4. local' \in [Event -> {"PENDING", "PUBLISHED", "BLOCKED"}]
    BY <1>1 DEF markPublished, rollUp, TypeOK
  <2>5. /\ delivery' \in [Destination -> [Event -> Row]]
        /\ KeepsRows
    BY <2>1, <2>2, <2>3, <2>9, OneRow
  <2>6. \A o \in Destination, f \in Event : o # d \/ f # c.event => Status(o, f)' = Status(o, f)
    BY <2>2, <2>3, UpdatedRows
  <2> QED BY <2>4, <2>5, <2>6
<1>2. CASE ~ownsRow(d, c)
  BY <1>2, SameRows DEF markPublished, TypeOK, Status
<1> QED BY <1>1, <1>2

(* The claim transaction.                                                  *)
LEMMA Claiming ==
  ASSUME TypeOK, NEW r \in Relay, NEW d \in Destination, ClaimAvailable(r, d)
  PROVE  /\ delivery' \in [Destination -> [Event -> Row]]
         /\ local' \in [Event -> {"PENDING", "PUBLISHED", "BLOCKED"}]
         /\ batch'[r] \in SUBSET Claim
         /\ KeepsRows /\ PublishesNothing
         /\ \A c \in batch'[r] :
              /\ c.event \in recorded
              /\ \A p \in Before[c.event] \cap recorded : Status(d, p) = "PUBLISHED"
<1> DEFINE rows == materialize(d)
           taken == claimable(d)
           claims == {e \in taken : ~unsupported(e)}
           after == [e \in Event |-> IF e \in claims THEN claimedRow(rows[e])
                                     ELSE IF e \in taken THEN isolatedRow(rows[e])
                                     ELSE rows[e]]
<1>1. rows \in [Event -> Row]
  BY MaterializedRows
<1>2. taken \subseteq candidates(d) /\ candidates(d) \subseteq recorded /\ recorded \subseteq Event
  BY DEF claimable, candidates, TypeOK
<1>3. delivery' = [delivery EXCEPT ![d] = after]
  BY DEF ClaimAvailable
<1>4. \A e \in Event : rows[e] \in Row /\ claimedRow(rows[e]) \in Row /\ isolatedRow(rows[e]) \in Row
  BY <1>1, RowsMove
<1>5. after \in [Event -> Row]
  BY <1>4
<1>6. delivery' \in [Destination -> [Event -> Row]]
  BY <1>3, <1>5 DEF TypeOK
<1>7. \A o \in Destination, e \in Event :
        Status(o, e)' = IF o = d THEN after[e].status ELSE Status(o, e)
  BY <1>3 DEF TypeOK, Status
<1>8. \A e \in Event : e \in taken => rows[e].status \in {"PENDING", "PROCESSING"}
  BY <1>2 DEF candidates, available
<1>9. \A e \in Event :
        /\ rows[e].status # "ABSENT" => e \in recorded \/ Status(d, e) # "ABSENT"
        /\ Status(d, e) = "PUBLISHED" <=> rows[e].status = "PUBLISHED"
  BY MaterializedRows
<1>10. \A e \in Event : /\ e \in claims => after[e].status = "PROCESSING"
                        /\ e \in taken \ claims => after[e].status = "BLOCKED"
                        /\ e \notin taken => after[e] = rows[e]
  <2> TAKE e \in Event
  <2>1. claimedRow(rows[e]).status = "PROCESSING" /\ isolatedRow(rows[e]).status = "BLOCKED"
    BY <1>4, RowsMove
  <2> QED BY <2>1
<1>16. \A e \in Event : Moves(delivery[d][e], after[e])
  <2> TAKE e \in Event
  <2>1. CASE e \in taken
    <3>1. Moves(rows[e], claimedRow(rows[e])) /\ Moves(rows[e], isolatedRow(rows[e]))
      BY <1>4, <1>8, <2>1, OpenRowsAdvance
    <3>2. Moves(delivery[d][e], rows[e])
      BY MaterializedRows
    <3>3. Moves(delivery[d][e], claimedRow(rows[e])) /\ Moves(delivery[d][e], isolatedRow(rows[e]))
      BY <1>4, <3>1, <3>2, MovesCompose, RowsMove DEF TypeOK
    <3> QED BY <2>1, <3>3
  <2>2. CASE e \notin taken
    BY <2>2, MaterializedRows
  <2> QED BY <2>1, <2>2
<1> HIDE DEF rows, taken, after
<1>17. \A o \in Destination, e \in Event : Moves(delivery[o][e], delivery'[o][e])
  <2> TAKE o \in Destination, e \in Event
  <2>1. delivery'[o][e] = IF o = d THEN after[e] ELSE delivery[o][e]
    BY <1>3 DEF TypeOK
  <2> QED BY <1>16, <2>1, UnmovedRows
<1>11. KeepsRows /\ PublishesNothing
  BY <1>2, <1>7, <1>8, <1>9, <1>10, <1>17 DEF KeepsRows, PublishesNothing
<1>12. local' \in [Event -> {"PENDING", "PUBLISHED", "BLOCKED"}]
  BY LocalSummary DEF ClaimAvailable
<1>13. batch'[r] = {[event |-> e, generation |-> rows[e].attempts + 1] : e \in claims}
  BY DEF ClaimAvailable, TypeOK, rows, taken
<1>14. \A c \in batch'[r] : c \in Claim /\ c.event \in claims
  <2>1. \A e \in claims : rows[e].attempts + 1 \in Nat
    BY <1>2, <1>4 DEF Row
  <2> QED BY <1>2, <1>13, <2>1 DEF Claim
<1>15. \A c \in batch'[r] :
         /\ c.event \in recorded
         /\ \A p \in Before[c.event] \cap recorded : Status(d, p) = "PUBLISHED"
  BY <1>2, <1>14 DEF candidates
<1> QED BY <1>6, <1>11, <1>12, <1>14, <1>15

(* Clocks and the operator move one row, and publish nothing.              *)
LEMMA ClockAndOperator ==
  ASSUME TypeOK, NEW d \in Destination, NEW e \in Event,
         \/ LeaseExpires(d, e) \/ LeaseOverruns(d, e)
         \/ BackoffElapses(d, e) \/ ResumeSyncDelivery(d, e)
  PROVE  /\ delivery' \in [Destination -> [Event -> Row]]
         /\ KeepsRows /\ PublishesNothing
<1> DEFINE row == delivery[d][e]
<1>0. row \in Row
  BY DEF TypeOK
<1>1. CASE LeaseExpires(d, e) \/ LeaseOverruns(d, e)
  <2>1. delivery' = [delivery EXCEPT ![d][e] = [row EXCEPT !.leased = FALSE]]
    BY <1>1 DEF LeaseExpires, LeaseOverruns, TypeOK
  <2>2. /\ [row EXCEPT !.leased = FALSE] \in Row
        /\ [row EXCEPT !.leased = FALSE].status = row.status
        /\ Moves(row, [row EXCEPT !.leased = FALSE])
    BY <1>0, TimedRows
  <2>3. row.status = "PROCESSING"
    BY <1>1 DEF LeaseExpires, LeaseOverruns, Status
  <2> QED BY <2>1, <2>2, <2>3, OneRow DEF Status
<1>2. CASE BackoffElapses(d, e)
  <2> DEFINE later == [row EXCEPT !.due = TRUE]
  <2>1. delivery' = [delivery EXCEPT ![d][e] = later]
    BY <1>2 DEF BackoffElapses, TypeOK
  <2>2. later \in Row /\ later.status = row.status /\ Moves(row, later)
    BY <1>0, TimedRows
  <2> HIDE DEF later
  <2>3. \A o \in Destination, f \in Event : Status(o, f)' = Status(o, f)
    BY <2>1, <2>2, UpdatedRows DEF Status
  <2>4. delivery' \in [Destination -> [Event -> Row]]
    BY <2>1, <2>2, UpdatedRows
  <2>5. \A o \in Destination, f \in Event : Moves(delivery[o][f], delivery'[o][f])
    <3> TAKE o \in Destination, f \in Event
    <3>1. delivery'[o][f] = IF o = d /\ f = e THEN later ELSE delivery[o][f]
      BY <2>1 DEF TypeOK
    <3> QED BY <2>2, <3>1, UnmovedRows
  <2> QED BY <2>3, <2>4, <2>5 DEF KeepsRows, PublishesNothing, Status
<1>3. CASE ResumeSyncDelivery(d, e)
  <2>1. delivery' = [delivery EXCEPT ![d][e] = resumedRow(row)]
    BY <1>3 DEF ResumeSyncDelivery, TypeOK
  <2>2. resumedRow(row) \in Row /\ resumedRow(row).status = "PENDING"
    BY <1>0, RowsMove
  <2>3. row.status = "PAUSED"
    BY <1>3 DEF ResumeSyncDelivery, Status
  <2>4. Moves(row, resumedRow(row))
    BY <1>0, <2>3, OpenRowsAdvance
  <2> QED BY <2>1, <2>2, <2>3, <2>4, OneRow DEF Status
<1> QED BY <1>1, <1>2, <1>3

-----------------------------------------------------------------------------
(* Types.                                                                  *)

LEMMA InitTypes == Init => TypeOK
  BY DEF Init, TypeOK, absentRow, Row, Statuses, CustodyStates

LEMMA Answering ==
  ASSUME TypeOK, NEW q \in wire, NEW outcome \in Outcomes, answer(q, outcome)
  PROVE  /\ wire' \in SUBSET Request
         /\ call' \in [Relay -> Call \cup {None}]
<1>1. wire' \in SUBSET Request
  BY DEF answer, TypeOK
<1>2. ASSUME NEW r \in Relay, call[r] # None
      PROVE  [call[r] EXCEPT !.ack = outcome] \in Call
  BY <1>2 DEF TypeOK, Call
<1>3. call' = [r \in Relay |->
                 IF call[r] # None /\ call[r].ack = "awaited" /\ request(r, call[r]) = q
                 THEN [call[r] EXCEPT !.ack = outcome] ELSE call[r]]
  BY DEF answer
<1>4. \A r \in Relay : call[r] \in Call \cup {None}
  BY DEF TypeOK
<1> QED BY <1>1, <1>2, <1>3, <1>4

(* The node's own use cases.                                               *)
Records ==
  \/ \E e \in Event : Record(AggregateOf[e], VersionOf[e])
  \/ \E facts \in SUBSET Listed : PublishCatalogBootstrap(facts)

(* Whatever is recorded after a fact that it precedes was listed by a cut. *)
LEMMA RecordedFacts ==
  ASSUME TypeOK, Records
  PROVE  \E facts \in SUBSET Event :
           /\ enqueue(facts)
           /\ facts \cap recorded = {}
           /\ \A p \in facts, h \in recorded : p \in Before[h] =>
                /\ p \in Listed
                /\ AggregateOf[p] \in RateHistory \/ VersionOf[p] = VersionOf[h]
<1>0. recorded \subseteq Event /\ Listed \subseteq Event /\ \A f \in Event : VersionOf[f] \in Nat
  BY MetadataAssumption DEF TypeOK
<1>1. \A p, h \in Event : p \in Before[h] =>
        AggregateOf[p] = AggregateOf[h] /\ VersionOf[p] <= VersionOf[h]
  BY <1>0 DEF Before, Precedes
<1>2. ASSUME NEW e \in Event, Record(AggregateOf[e], VersionOf[e])
      PROVE  \E facts \in SUBSET Event :
               /\ enqueue(facts)
               /\ facts \cap recorded = {}
               /\ \A p \in facts, h \in recorded : p \notin Before[h]
  <2> DEFINE facts == FactsOf(AggregateOf[e], VersionOf[e])
  <2>1. \A p \in facts : p \in Event /\ AggregateOf[p] = AggregateOf[e] /\ VersionOf[p] = VersionOf[e]
    BY DEF FactsOf
  <2>2. enqueue(facts) /\ \A h \in recorded : AggregateOf[h] = AggregateOf[e] => VersionOf[h] < VersionOf[e]
    BY <1>2 DEF Record
  <2> HIDE DEF facts
  <2>3. \A h \in recorded : AggregateOf[h] = AggregateOf[e] => ~(VersionOf[e] <= VersionOf[h])
    BY <1>0, <2>2
  <2>4. \A p \in facts, h \in recorded : p # h /\ p \notin Before[h]
    BY <1>0, <1>1, <2>1, <2>3
  <2> QED BY <2>1, <2>2, <2>4
<1>3. ASSUME NEW facts \in SUBSET Listed, PublishCatalogBootstrap(facts)
      PROVE  /\ enqueue(facts)
             /\ facts \cap recorded = {}
             /\ \A p \in facts, h \in recorded : p \in Before[h] =>
                  AggregateOf[p] \in RateHistory \/ VersionOf[p] = VersionOf[h]
  <2>1. enqueue(facts) /\ facts \cap recorded = {} /\ \A p \in facts : listable(p)
    BY <1>3 DEF PublishCatalogBootstrap
  <2> QED BY <1>0, <1>1, <2>1 DEF listable
<1> QED BY <1>0, <1>2, <1>3 DEF Records

LEMMA TypeStep ==
  ASSUME DeliveryInv, Next
  PROVE  TypeOK'
<1> USE DEF DeliveryInv
<1>1. ASSUME Records
      PROVE  TypeOK'
  <2>1. PICK facts \in SUBSET Event : enqueue(facts)
    BY <1>1, RecordedFacts
  <2>2. follows' \in [Event -> SUBSET Event]
    BY <2>1 DEF enqueue, TypeOK
  <2> QED BY <2>1, <2>2 DEF enqueue, TypeOK, relayVars
<1>2. ASSUME NEW d \in Destination, RegisterNode(d) \/ RevokeNode(d)
      PROVE  TypeOK'
  BY <1>2, BoundsAssumption DEF RegisterNode, RevokeNode, Fault, TypeOK, senderVars, relayVars
<1>3. ASSUME NEW d \in Destination, NEW a \in Aggregate, RegisterOwnedAggregate(d, a)
      PROVE  TypeOK'
  BY <1>3 DEF RegisterOwnedAggregate, TypeOK, senderVars, relayVars
<1>4. ASSUME NEW r \in Relay, NEW d \in Destination, ClaimAvailable(r, d)
      PROVE  TypeOK'
  <2>1. /\ delivery' \in [Destination -> [Event -> Row]]
        /\ local' \in [Event -> {"PENDING", "PUBLISHED", "BLOCKED"}]
        /\ batch'[r] \in SUBSET Claim
    BY <1>4, Claiming
  <2>2. batch' = [batch EXCEPT ![r] = batch'[r]]
    BY <1>4 DEF ClaimAvailable, TypeOK
  <2>3. batch' \in [Relay -> SUBSET Claim]
    BY <2>1, <2>2 DEF TypeOK
  <2> QED BY <1>4, <2>1, <2>3 DEF ClaimAvailable, TypeOK
<1>5. ASSUME NEW r \in Relay, NEW c \in batch[r], Skip(r, c)
      PROVE  TypeOK'
  BY <1>5 DEF Skip, drop, TypeOK, senderVars
<1>6. ASSUME NEW r \in Relay, NEW c \in batch[r], Isolate(r, c)
      PROVE  TypeOK'
  <2>1. target[r] \in Destination /\ c.event \in Event
    BY DEF TypeOK, Claim, idle
  <2>2. markBlocked(target[r], c)
    BY <1>6 DEF Isolate
  <2>3. /\ delivery' \in [Destination -> [Event -> Row]]
        /\ local' \in [Event -> {"PENDING", "PUBLISHED", "BLOCKED"}]
    BY <2>1, <2>2, MarkingBlocked
  <2> QED BY <1>6, <2>3 DEF Isolate, drop, TypeOK
<1>7. ASSUME NEW r \in Relay, NEW c \in batch[r], Send(r, c)
      PROVE  TypeOK'
  <2>1. target[r] \in Destination /\ c.event \in Event /\ c.generation \in Nat
    BY DEF TypeOK, Claim, idle
  <2>2. request(r, c) \in Request
    BY <2>1 DEF request, Request
  <2>3. [event |-> c.event, generation |-> c.generation, ack |-> "awaited"] \in Call
    BY <2>1 DEF Call
  <2> QED BY <1>7, <2>2, <2>3 DEF Send, drop, TypeOK, senderVars
<1>8. ASSUME NEW q \in wire, Reject(q) \/ TakeCustody(q) \/ Unavailable(q)
      PROVE  TypeOK'
  <2>1. q.to \in Destination /\ q.event \in Event
    BY DEF TypeOK, Request
  <2>2. wire' \in SUBSET Request /\ call' \in [Relay -> Call \cup {None}]
    BY <1>8, Answering DEF Reject, TakeCustody, Unavailable, Outcomes
  <2>3. CASE Reject(q)
    BY <2>2, <2>3 DEF Reject, TypeOK, senderVars
  <2>4. CASE TakeCustody(q)
    <3>1. custody' \in [Destination -> [Event -> CustodyStates]]
      <4> DEFINE class == classifyApplication(q.to, q.event)
      <4>1. class \in CustodyStates
        BY DEF classifyApplication, CustodyStates
      <4>2. \/ custody' = custody
            \/ custody' = [custody EXCEPT ![q.to][q.event] = class]
        BY <2>4 DEF TakeCustody
      <4>3. custody \in [Destination -> [Event -> CustodyStates]]
        BY DEF TypeOK
      <4> HIDE DEF class
      <4>4. ASSUME custody' = [custody EXCEPT ![q.to][q.event] = class]
            PROVE  custody' \in [Destination -> [Event -> CustodyStates]]
        BY <2>1, <4>1, <4>3, <4>4
      <4> QED BY <4>2, <4>3, <4>4
    <3> QED BY <2>2, <2>4, <3>1 DEF TakeCustody, TypeOK, senderVars
  <2>5. CASE Unavailable(q)
    BY <2>2, <2>5, BoundsAssumption DEF Unavailable, Fault, TypeOK, senderVars
  <2> QED BY <1>8, <2>3, <2>4, <2>5
<1>9. ASSUME NEW r \in Relay, Settle(r)
      PROVE  TypeOK'
  <2>1. target[r] \in Destination /\ call[r] \in Call /\ call[r].event \in Event
    BY <1>9 DEF Settle, TypeOK, Call, idle
  <2>2. \/ markPublished(target[r], call[r])
        \/ markBlocked(target[r], call[r])
        \/ reschedule(target[r], call[r])
    BY <1>9 DEF Settle, settleAs, Outcomes
  <2>3. /\ delivery' \in [Destination -> [Event -> Row]]
        /\ local' \in [Event -> {"PENDING", "PUBLISHED", "BLOCKED"}]
    BY <2>1, <2>2, MarkingPublished, MarkingBlocked, Rescheduling
  <2> QED BY <1>9, <2>3 DEF Settle, hangUp, TypeOK
<1>10. ASSUME NEW r \in Relay, Timeout(r)
       PROVE  TypeOK'
  <2>1. target[r] \in Destination /\ call[r] \in Call /\ call[r].event \in Event
    BY <1>10 DEF Timeout, TypeOK, Call, idle
  <2>2. /\ delivery' \in [Destination -> [Event -> Row]]
        /\ local' \in [Event -> {"PENDING", "PUBLISHED", "BLOCKED"}]
    BY <1>10, <2>1, Rescheduling DEF Timeout
  <2> QED BY <1>10, <2>2, BoundsAssumption DEF Timeout, Fault, hangUp, TypeOK
<1>11. ASSUME NEW r \in Relay, Truncate(r)
       PROVE  TypeOK'
  <2>1. [call[r] EXCEPT !.ack = "truncated"] \in Call
    BY <1>11 DEF Truncate, TypeOK, Call
  <2> QED BY <1>11, <2>1, BoundsAssumption DEF Truncate, Fault, TypeOK, senderVars
<1>12. ASSUME NEW r \in Relay, Crash(r)
       PROVE  TypeOK'
  BY <1>12, BoundsAssumption DEF Crash, Fault, TypeOK, senderVars
<1>13. ASSUME NEW d \in Destination, NEW e \in Event,
              \/ LeaseExpires(d, e) \/ LeaseOverruns(d, e)
              \/ BackoffElapses(d, e) \/ ResumeSyncDelivery(d, e)
       PROVE  TypeOK'
  <2>1. delivery' \in [Destination -> [Event -> Row]]
    BY <1>13, ClockAndOperator
  <2> QED BY <1>13, <2>1, BoundsAssumption
          DEF LeaseExpires, LeaseOverruns, BackoffElapses, ResumeSyncDelivery, Fault,
              TypeOK, relayVars
<1> QED
  BY <1>1, <1>2, <1>3, <1>4, <1>5, <1>6, <1>7, <1>8, <1>9, <1>10, <1>11, <1>12, <1>13
     DEF Next, Records

-----------------------------------------------------------------------------
(* The inductive invariant.                                                *)

(* What a step may do to the facts recorded.                               *)
RecordsGrow ==
  /\ recorded \subseteq recorded'
  /\ \A e \in recorded : follows'[e] = follows[e]

(* The part of DeliveryInv about the order of recording.                   *)
History ==
  /\ \A e \in recorded : follows[e] \subseteq Before[e] \cap recorded
  /\ OvertakenIsListed

LEMMA SameRecords ==
  ASSUME DeliveryInv, recorded' = recorded, follows' = follows
  PROVE  RecordsGrow /\ History'
  BY DEF DeliveryInv, RecordsGrow, History, OvertakenIsListed, Overtaken

LEMMA NewRecords ==
  ASSUME DeliveryInv, Records
  PROVE  RecordsGrow /\ History'
<1>0. TypeOK /\ recorded \subseteq Event /\ History
  BY DEF DeliveryInv, TypeOK, History
<1>1. PICK facts \in SUBSET Event :
        /\ enqueue(facts)
        /\ facts \cap recorded = {}
        /\ \A p \in facts, h \in recorded : p \in Before[h] =>
             /\ p \in Listed
             /\ AggregateOf[p] \in RateHistory \/ VersionOf[p] = VersionOf[h]
  BY <1>0, RecordedFacts
<1>2. recorded' = recorded \cup facts
  BY <1>1 DEF enqueue
<1>3. \A e \in Event : follows'[e] = IF e \in facts THEN Before[e] \cap recorded' ELSE follows[e]
  BY <1>1, <1>2 DEF enqueue
<1>4. RecordsGrow
  BY <1>0, <1>1, <1>2, <1>3 DEF RecordsGrow
<1>5. \A e \in recorded' : follows'[e] \subseteq Before[e] \cap recorded'
  BY <1>0, <1>2, <1>3 DEF History
<1>6. OvertakenIsListed'
  <2> SUFFICES ASSUME NEW p \in Event, NEW h \in Event, Overtaken(p, h)'
               PROVE  /\ p \in Listed
                      /\ AggregateOf[p] \in RateHistory \/ VersionOf[p] = VersionOf[h]
    BY DEF OvertakenIsListed
  <2>1. p \in recorded' /\ p \in Before[h] /\ h \in recorded' /\ p \notin follows'[h]
    BY DEF Overtaken
  <2>2. h \notin facts /\ h \in recorded /\ p \notin follows[h]
    BY <1>2, <1>3, <2>1
  <2>3. CASE p \in recorded
    BY <1>0, <2>1, <2>2, <2>3 DEF History, OvertakenIsListed, Overtaken
  <2>4. CASE p \in facts
    BY <1>1, <2>1, <2>2, <2>4
  <2> QED BY <1>2, <2>1, <2>3, <2>4
<1> QED BY <1>4, <1>5, <1>6 DEF History

(* The parts of DeliveryInv that outlive their step without its help.      *)
LEMMA ReadyStays ==
  ASSUME TypeOK, KeepsRows, RecordsGrow,
         NEW d \in Destination, NEW e \in Event, Ready(d, e)
  PROVE  Ready(d, e)'
<1>1. \A p \in follows[e] : p \in Event
  BY DEF TypeOK
<1> QED BY <1>1 DEF Ready, RecordsGrow, KeepsRows, Moves, Status

LEMMA OvertakenStays ==
  ASSUME RecordsGrow, NEW p, NEW h, Overtaken(p, h)
  PROVE  Overtaken(p, h)'
  BY DEF Overtaken, RecordsGrow

LEMMA InitInv == Init => DeliveryInv
<1> SUFFICES ASSUME Init PROVE DeliveryInv
  OBVIOUS
<1>1. TypeOK
  BY InitTypes
<1>2. \A d \in Destination, e \in Event : Status(d, e) = "ABSENT" /\ custody[d][e] = "NONE"
  BY DEF Init, Status, absentRow
<1>3. recorded = {} /\ wire = {} /\ \A r \in Relay : batch[r] = {} /\ call[r] = None
  BY DEF Init
<1> QED BY <1>1, <1>2, <1>3
        DEF DeliveryInv, PublishedHasCustody, OvertakenIsListed, Overtaken, LateIsOvertaken,
            inCustody, idle

(* A step that takes nothing into custody, publishes nothing and gives no  *)
(* relay or request anything new preserves the invariant.                  *)
LEMMA QuietStep ==
  ASSUME DeliveryInv, TypeOK', KeepsRows, PublishesNothing,
         RecordsGrow, History',
         custody' = custody, wire' \subseteq wire,
         \A r \in Relay :
           /\ batch'[r] \subseteq batch[r]
           /\ call'[r] \in {None, call[r]} \/ (/\ call[r] # None
                                               /\ call'[r].event = call[r].event
                                               /\ call'[r].ack # "CONFIRMED")
           /\ target'[r] = target[r]
  PROVE  DeliveryInv'
<1>2. \A d \in Destination, e \in Event : Status(d, e)' # "ABSENT" => e \in recorded'
  BY DEF DeliveryInv, KeepsRows, RecordsGrow, Status
<1>3. \A r \in Relay : ~idle(r)' => target'[r] \in Destination
  BY DEF DeliveryInv, idle
<1>4. \A d \in Destination, e \in Event : Ready(d, e) => Ready(d, e)'
  BY ReadyStays DEF DeliveryInv
<1>5. \A r \in Relay : \A c \in batch'[r] : Ready(target[r], c.event)'
  <2> TAKE r \in Relay
  <2> TAKE c \in batch'[r]
  <2>1. c \in batch[r] /\ target[r] \in Destination /\ c.event \in Event
    BY DEF DeliveryInv, TypeOK, Claim, idle
  <2>2. Ready(target[r], c.event)
    BY <2>1 DEF DeliveryInv
  <2>3. target'[r] = target[r]
    OBVIOUS
  <2> QED BY <1>4, <2>1, <2>2, <2>3 DEF Ready, Status
<1>6. \A r \in Relay : call'[r] # None => /\ Ready(target[r], call[r].event)'
                                          /\ call[r] # None
                                          /\ call'[r].event = call[r].event
  <2> SUFFICES ASSUME NEW r \in Relay, call'[r] # None
               PROVE  /\ Ready(target[r], call[r].event)'
                      /\ call[r] # None /\ call'[r].event = call[r].event
    OBVIOUS
  <2>1. call[r] # None /\ call'[r].event = call[r].event
    OBVIOUS
  <2>2. target[r] \in Destination /\ call[r].event \in Event
    BY <2>1 DEF DeliveryInv, TypeOK, Call, idle
  <2>3. Ready(target[r], call[r].event)
    BY <2>1 DEF DeliveryInv
  <2>4. target'[r] = target[r]
    OBVIOUS
  <2> QED BY <1>4, <2>1, <2>2, <2>3, <2>4 DEF Ready, Status
<1>7. \A q \in wire' : Ready(q.to, q.event)'
  BY <1>4 DEF DeliveryInv, TypeOK, Request
<1>8. \A r \in Relay : call'[r] # None /\ call'[r].ack = "CONFIRMED"
                         => inCustody(target[r], call[r].event)'
  BY <1>6 DEF DeliveryInv, inCustody
<1>9. \A d \in Destination, e \in Event : inCustody(d, e)' => Ready(d, e)'
  BY <1>4 DEF DeliveryInv, inCustody
<1>11. LateIsOvertaken'
  BY OvertakenStays DEF DeliveryInv, LateIsOvertaken, inCustody
<1>10. PublishedHasCustody'
  BY DEF DeliveryInv, PublishedHasCustody, PublishesNothing, inCustody, Status
<1> QED BY <1>2, <1>3, <1>5, <1>6, <1>7, <1>8, <1>9, <1>10, <1>11 DEF DeliveryInv, History

LEMMA ClaimInv ==
  ASSUME DeliveryInv, TypeOK', NEW r \in Relay, NEW d \in Destination, ClaimAvailable(r, d)
  PROVE  DeliveryInv'
<1> USE DEF DeliveryInv
<1>1. /\ KeepsRows /\ PublishesNothing
      /\ \A c \in batch'[r] :
           /\ c.event \in recorded
           /\ \A p \in Before[c.event] \cap recorded : Status(d, p) = "PUBLISHED"
  BY Claiming
<1>2. /\ recorded' = recorded /\ follows' = follows
      /\ custody' = custody /\ wire' = wire /\ call' = call
      /\ target'[r] = d /\ call[r] = None
      /\ \A s \in Relay \ {r} : batch'[s] = batch[s] /\ target'[s] = target[s]
  BY DEF ClaimAvailable, TypeOK, idle
<1>12. RecordsGrow /\ History'
  BY <1>2, SameRecords
<1>3. \A o \in Destination, e \in Event : Ready(o, e) => Ready(o, e)'
  BY <1>1, <1>12, ReadyStays
<1>4. \A c \in batch'[r] : c.event \in Event /\ Ready(d, c.event)
  BY <1>1 DEF Ready, TypeOK
<1>5. \A s \in Relay : \A c \in batch'[s] : Ready(target[s], c.event)'
  <2> TAKE s \in Relay
  <2> TAKE c \in batch'[s]
  <2>1. CASE s = r
    BY <1>2, <1>3, <1>4, <2>1 DEF Ready, Status
  <2>2. CASE s # r
    <3>1. c \in batch[s] /\ target[s] \in Destination /\ c.event \in Event
      BY <1>2, <2>2 DEF TypeOK, Claim, idle
    <3>2. Ready(target[s], c.event)
      BY <3>1
    <3>3. target'[s] = target[s]
      BY <1>2, <2>2
    <3> QED BY <1>3, <3>1, <3>2, <3>3 DEF Ready, Status
  <2> QED BY <2>1, <2>2
<1>6. \A s \in Relay : call'[s] # None => Ready(target[s], call[s].event)'
  <2> SUFFICES ASSUME NEW s \in Relay, call[s] # None PROVE Ready(target[s], call[s].event)'
    BY <1>2
  <2>1. s # r /\ target[s] \in Destination /\ call[s].event \in Event
    BY <1>2 DEF TypeOK, Call, idle
  <2>2. target'[s] = target[s] /\ call' = call
    BY <1>2, <2>1
  <2>3. Ready(target[s], call[s].event)
    OBVIOUS
  <2> QED BY <1>3, <2>1, <2>2, <2>3 DEF Ready, Status
<1>7. \A q \in wire' : Ready(q.to, q.event)'
  BY <1>2, <1>3 DEF TypeOK, Request
<1>8. \A s \in Relay : ~idle(s)' => target'[s] \in Destination
  BY <1>2 DEF idle
<1>9. \A s \in Relay : call'[s] # None /\ call'[s].ack = "CONFIRMED"
                         => inCustody(target[s], call[s].event)'
  BY <1>2 DEF inCustody
<1>10. \A o \in Destination, e \in Event :
         /\ Status(o, e)' # "ABSENT" => e \in recorded'
         /\ inCustody(o, e)' => Ready(o, e)'
  BY <1>1, <1>2, <1>3 DEF inCustody, KeepsRows, Status
<1>13. LateIsOvertaken'
  BY <1>2, <1>12, OvertakenStays DEF LateIsOvertaken, inCustody
<1>11. PublishedHasCustody'
  BY <1>1, <1>2 DEF PublishedHasCustody, PublishesNothing, inCustody, Status
<1> QED BY <1>5, <1>6, <1>7, <1>8, <1>9, <1>10, <1>11, <1>12, <1>13 DEF History

LEMMA SendInv ==
  ASSUME DeliveryInv, TypeOK', NEW r \in Relay, NEW c \in batch[r], Send(r, c)
  PROVE  DeliveryInv'
<1> USE DEF DeliveryInv
<1>1. /\ recorded' = recorded /\ follows' = follows
      /\ delivery' = delivery /\ custody' = custody
      /\ target' = target /\ wire' = wire \cup {request(r, c)}
      /\ \A s \in Relay : batch'[s] \subseteq batch[s]
      /\ \A s \in Relay \ {r} : call'[s] = call[s]
      /\ call'[r].event = c.event /\ call'[r].ack = "awaited"
  BY DEF Send, drop, TypeOK, senderVars
<1>2. target[r] \in Destination /\ c.event \in Event /\ Ready(target[r], c.event)
  BY DEF TypeOK, Claim, idle
<1>3. \A o \in Destination, e \in Event : Ready(o, e) <=> Ready(o, e)'
  BY <1>1 DEF Ready, Status
<1>4. \A s \in Relay : \A b \in batch'[s] : Ready(target[s], b.event)'
  BY <1>1 DEF Ready, Status
<1>5. \A s \in Relay : call'[s] # None => Ready(target[s], call[s].event)'
  BY <1>1, <1>2 DEF Ready, Status
<1>6. \A q \in wire' : Ready(q.to, q.event)'
  BY <1>1, <1>2 DEF request, Ready, Status
<1>7. \A s \in Relay : ~idle(s)' => target'[s] \in Destination
  BY <1>1, <1>2 DEF idle
<1>8. \A s \in Relay : call'[s] # None /\ call'[s].ack = "CONFIRMED"
                         => inCustody(target[s], call[s].event)'
  BY <1>1 DEF inCustody
<1>9. PublishedHasCustody'
  BY <1>1 DEF PublishedHasCustody, inCustody, Status
<1>10. RecordsGrow /\ History'
  BY <1>1, SameRecords
<1>11. LateIsOvertaken'
  BY <1>1, <1>10, OvertakenStays DEF LateIsOvertaken, inCustody
<1> QED BY <1>1, <1>3, <1>4, <1>5, <1>6, <1>7, <1>8, <1>9, <1>10, <1>11
        DEF History, inCustody, Status

LEMMA TakeCustodyInv ==
  ASSUME DeliveryInv, TypeOK', NEW q \in wire, TakeCustody(q)
  PROVE  DeliveryInv'
<1> USE DEF DeliveryInv
<1>1. /\ recorded' = recorded /\ follows' = follows
      /\ delivery' = delivery /\ batch' = batch
      /\ target' = target /\ wire' = wire \ {q}
  BY DEF TakeCustody, answer, senderVars
<1>2. q.to \in Destination /\ q.event \in Event /\ Ready(q.to, q.event)
  BY DEF TypeOK, Request
<1>3. \A r \in Relay :
        \/ call'[r] = call[r]
        \/ /\ call[r] # None /\ call'[r].event = call[r].event
           /\ target[r] = q.to /\ call[r].event = q.event
  BY DEF TakeCustody, answer, request, TypeOK, Call
<1>13. RecordsGrow /\ History'
  BY <1>1, SameRecords
<1>4. inCustody(q.to, q.event)'
  BY <1>2 DEF TakeCustody, classifyApplication, inCustody, TypeOK
<1>5. \A d \in Destination, e \in Event :
        d # q.to \/ e # q.event => custody'[d][e] = custody[d][e]
  BY <1>2 DEF TakeCustody, TypeOK
<1>6. \A d \in Destination, e \in Event :
        /\ inCustody(d, e) => inCustody(d, e)'
        /\ inCustody(d, e)' => Ready(d, e)'
  BY <1>1, <1>2, <1>4, <1>5 DEF inCustody, Ready, Status
<1>7. \A r \in Relay : \A c \in batch'[r] : Ready(target[r], c.event)'
  BY <1>1 DEF Ready, Status
<1>8. \A r \in Relay : call'[r] # None => Ready(target[r], call[r].event)'
  BY <1>1, <1>2, <1>3 DEF Ready, Status
<1>9. \A o \in wire' : Ready(o.to, o.event)'
  BY <1>1 DEF Ready, Status
<1>10. \A r \in Relay : ~idle(r)' => target'[r] \in Destination
  BY <1>1, <1>3 DEF idle
<1>11. \A r \in Relay : call'[r] # None /\ call'[r].ack = "CONFIRMED"
                          => inCustody(target[r], call[r].event)'
  <2> SUFFICES ASSUME NEW r \in Relay, call'[r] # None, call'[r].ack = "CONFIRMED"
               PROVE  inCustody(target[r], call[r].event)'
    OBVIOUS
  <2>1. CASE call'[r] = call[r]
    <3>1. target[r] \in Destination /\ call[r].event \in Event
      BY <2>1 DEF TypeOK, Call, idle
    <3> QED BY <1>1, <1>6, <2>1, <3>1 DEF inCustody
  <2>2. CASE call'[r] # call[r]
    BY <1>1, <1>3, <1>4, <2>2 DEF inCustody
  <2> QED BY <2>1, <2>2
<1>12. PublishedHasCustody'
  BY <1>1, <1>6 DEF PublishedHasCustody, Status
<1>14. LateIsOvertaken'
  <2> SUFFICES ASSUME NEW d \in Destination, NEW e \in Event, custody'[d][e] = "PENDING_REVIEW"
               PROVE  \E h \in Event : /\ Overtaken(e, h)' /\ VersionOf[e] < VersionOf[h]
                                       /\ inCustody(d, h)'
    BY DEF LateIsOvertaken
  <2>1. CASE custody[d][e] = "PENDING_REVIEW"
    <3>1. PICK h \in Event : Overtaken(e, h) /\ VersionOf[e] < VersionOf[h] /\ inCustody(d, h)
      BY <2>1 DEF LateIsOvertaken
    <3> QED BY <1>6, <1>13, <3>1, OvertakenStays
  <2>2. CASE custody[d][e] # "PENDING_REVIEW"
    <3>1. d = q.to /\ e = q.event
      BY <1>5, <2>2
    <3>2. ~inCustody(d, e) /\ custody'[d][e] = classifyApplication(d, e)
      BY <1>2, <2>2, <3>1 DEF TakeCustody, inCustody, TypeOK
    <3>3. PICK h \in Event : /\ inCustody(d, h) /\ AggregateOf[h] = AggregateOf[e]
                             /\ VersionOf[h] > VersionOf[e]
      BY <3>2 DEF classifyApplication, inCustody
    <3>4. VersionOf[e] < VersionOf[h] /\ e \in Before[h]
      BY <3>3, MetadataAssumption DEF Before, Precedes
    <3>5. Ready(d, h) /\ e \in recorded
      BY <1>2, <3>1, <3>3 DEF Ready
    <3>6. e \notin follows[h]
      BY <3>2, <3>5 DEF Ready, PublishedHasCustody
    <3>7. Overtaken(e, h)
      BY <3>4, <3>5, <3>6 DEF Overtaken, Ready
    <3> QED BY <1>6, <1>13, <3>3, <3>4, <3>7, OvertakenStays
  <2> QED BY <2>1, <2>2
<1> QED BY <1>1, <1>6, <1>7, <1>8, <1>9, <1>10, <1>11, <1>12, <1>13, <1>14 DEF History, Status

LEMMA SettleInv ==
  ASSUME DeliveryInv, TypeOK', NEW r \in Relay, Settle(r)
  PROVE  DeliveryInv'
<1> USE DEF DeliveryInv
<1> DEFINE d == target[r]
           c == call[r]
<1>1. /\ recorded' = recorded /\ follows' = follows
      /\ custody' = custody /\ wire' = wire /\ batch' = batch
      /\ target' = target /\ call'[r] = None
      /\ \A s \in Relay \ {r} : call'[s] = call[s]
  BY DEF Settle, hangUp, TypeOK
<1>2. d \in Destination /\ c # None /\ c.event \in Event
  BY DEF Settle, TypeOK, Call, idle
<1>5. RecordsGrow /\ History'
  BY <1>1, SameRecords
<1>3. CASE c.ack # "CONFIRMED"
  <2>1. markBlocked(d, c) \/ reschedule(d, c)
    BY <1>3 DEF Settle, settleAs, Outcomes
  <2>2. KeepsRows /\ PublishesNothing
    BY <1>2, <2>1, MarkingBlocked, Rescheduling
  <2> QED BY <1>1, <1>5, <2>2, QuietStep
<1>4. CASE c.ack = "CONFIRMED"
  <2>1. markPublished(d, c) /\ inCustody(d, c.event)
    BY <1>2, <1>4 DEF Settle, settleAs, Outcomes
  <2>2. /\ KeepsRows
        /\ \A o \in Destination, f \in Event :
             Status(o, f)' = "PUBLISHED" => Status(o, f) = "PUBLISHED" \/ (o = d /\ f = c.event)
    BY <1>2, <2>1, MarkingPublished
  <2>3. \A o \in Destination, e \in Event : Ready(o, e) => Ready(o, e)'
    BY <1>5, <2>2, ReadyStays
  <2>4. \A s \in Relay : \A b \in batch'[s] : Ready(target[s], b.event)'
    <3> TAKE s \in Relay
    <3> TAKE b \in batch'[s]
    <3>1. b \in batch[s] /\ target[s] \in Destination /\ b.event \in Event
      BY <1>1 DEF TypeOK, Claim, idle
    <3>2. Ready(target[s], b.event)
      BY <3>1
    <3> QED BY <1>1, <2>3, <3>1, <3>2 DEF Ready, Status
  <2>5. \A s \in Relay : call'[s] # None => s # r /\ call[s] # None /\ call'[s] = call[s]
    BY <1>1
  <2>6. \A s \in Relay : call'[s] # None => Ready(target[s], call[s].event)'
    <3> SUFFICES ASSUME NEW s \in Relay, call'[s] # None PROVE Ready(target[s], call[s].event)'
      OBVIOUS
    <3>1. call[s] # None /\ target[s] \in Destination /\ call[s].event \in Event
      BY <2>5 DEF TypeOK, Call, idle
    <3>2. Ready(target[s], call[s].event)
      BY <3>1
    <3> QED BY <1>1, <2>3, <2>5, <3>1, <3>2 DEF Ready, Status
  <2>7. \A q \in wire' : Ready(q.to, q.event)'
    BY <1>1, <2>3 DEF TypeOK, Request
  <2>8. \A s \in Relay : ~idle(s)' => target'[s] \in Destination
    BY <1>1, <2>5 DEF idle
  <2>9. \A s \in Relay : call'[s] # None /\ call'[s].ack = "CONFIRMED"
                           => inCustody(target[s], call[s].event)'
    BY <1>1, <2>5 DEF inCustody
  <2>10. \A o \in Destination, e \in Event :
           /\ Status(o, e)' # "ABSENT" => e \in recorded'
           /\ inCustody(o, e)' => Ready(o, e)'
    BY <1>1, <2>2, <2>3 DEF inCustody, KeepsRows, Status
  <2>11. PublishedHasCustody'
    BY <1>1, <2>1, <2>2 DEF PublishedHasCustody, inCustody, Status
  <2>12. LateIsOvertaken'
    BY <1>1, <1>5, OvertakenStays DEF LateIsOvertaken, inCustody
  <2> QED BY <1>5, <2>4, <2>6, <2>7, <2>8, <2>9, <2>10, <2>11, <2>12 DEF History
<1> QED BY <1>3, <1>4

LEMMA InvStep ==
  ASSUME DeliveryInv, [Next]_vars
  PROVE  DeliveryInv'
<1>0. CASE UNCHANGED vars
  <2>1. TypeOK'
    BY <1>0 DEF DeliveryInv, TypeOK, vars
  <2>2. KeepsRows /\ PublishesNothing
    BY <1>0, SameRows DEF vars, DeliveryInv
  <2> QED BY <1>0, <2>1, <2>2, SameRecords, QuietStep DEF vars
<1> SUFFICES ASSUME Next PROVE DeliveryInv'
  BY <1>0
<1>1. TypeOK /\ TypeOK'
  BY TypeStep DEF DeliveryInv
<1>2. ASSUME Records
      PROVE  DeliveryInv'
  <2>1. RecordsGrow /\ History'
    BY <1>2, NewRecords
  <2>2. UNCHANGED <<delivery, relayVars, wire, custody>>
    BY <1>1, <1>2, RecordedFacts DEF enqueue
  <2> QED BY <1>1, <2>1, <2>2, SameRows, QuietStep DEF relayVars
<1>3. ASSUME NEW d \in Destination, RegisterNode(d) \/ RevokeNode(d)
      PROVE  DeliveryInv'
  BY <1>1, <1>3, SameRows, SameRecords, QuietStep
     DEF RegisterNode, RevokeNode, senderVars, relayVars, DeliveryInv
<1>4. ASSUME NEW d \in Destination, NEW a \in Aggregate, RegisterOwnedAggregate(d, a)
      PROVE  DeliveryInv'
  BY <1>1, <1>4, SameRows, SameRecords, QuietStep
     DEF RegisterOwnedAggregate, senderVars, relayVars, DeliveryInv
<1>5. ASSUME NEW r \in Relay, NEW d \in Destination, ClaimAvailable(r, d)
      PROVE  DeliveryInv'
  BY <1>1, <1>5, ClaimInv
<1>6. ASSUME NEW r \in Relay, NEW c \in batch[r], Skip(r, c)
      PROVE  DeliveryInv'
  BY <1>1, <1>6, SameRows, SameRecords, QuietStep DEF Skip, drop, senderVars, DeliveryInv, TypeOK
<1>7. ASSUME NEW r \in Relay, NEW c \in batch[r], Isolate(r, c)
      PROVE  DeliveryInv'
  <2>1. target[r] \in Destination /\ c.event \in Event
    BY DEF DeliveryInv, TypeOK, Claim, idle
  <2>2. KeepsRows /\ PublishesNothing
    BY <1>1, <1>7, <2>1, MarkingBlocked DEF Isolate
  <2> QED BY <1>1, <1>7, <2>2, SameRecords, QuietStep DEF Isolate, drop, DeliveryInv, TypeOK
<1>8. ASSUME NEW r \in Relay, NEW c \in batch[r], Send(r, c)
      PROVE  DeliveryInv'
  BY <1>1, <1>8, SendInv
<1>9. ASSUME NEW q \in wire, Reject(q) \/ Unavailable(q)
      PROVE  DeliveryInv'
  <2>1. \A r \in Relay : \/ call'[r] = call[r]
                         \/ /\ call[r] # None /\ call'[r].event = call[r].event
                            /\ call'[r].ack # "CONFIRMED"
    BY <1>1, <1>9 DEF Reject, Unavailable, answer, TypeOK, Call
  <2>2. wire' \subseteq wire
    BY <1>9 DEF Reject, Unavailable, answer
  <2> QED BY <1>1, <1>9, <2>1, <2>2, SameRows, SameRecords, QuietStep
          DEF Reject, Unavailable, senderVars, DeliveryInv
<1>10. ASSUME NEW q \in wire, TakeCustody(q)
       PROVE  DeliveryInv'
  BY <1>1, <1>10, TakeCustodyInv
<1>11. ASSUME NEW r \in Relay, Settle(r)
       PROVE  DeliveryInv'
  BY <1>1, <1>11, SettleInv
<1>12. ASSUME NEW r \in Relay, Timeout(r)
       PROVE  DeliveryInv'
  <2>1. target[r] \in Destination /\ call[r].event \in Event
    BY <1>12 DEF Timeout, DeliveryInv, TypeOK, Call, idle
  <2>2. KeepsRows /\ PublishesNothing
    BY <1>1, <1>12, <2>1, Rescheduling DEF Timeout
  <2> QED BY <1>1, <1>12, <2>2, SameRecords, QuietStep DEF Timeout, hangUp, DeliveryInv, TypeOK
<1>13. ASSUME NEW r \in Relay, Truncate(r)
       PROVE  DeliveryInv'
  <2>1. \A s \in Relay : \/ call'[s] = call[s]
                         \/ /\ call[s] # None /\ call'[s].event = call[s].event
                            /\ call'[s].ack # "CONFIRMED"
    BY <1>1, <1>13 DEF Truncate, TypeOK, Call
  <2> QED BY <1>1, <1>13, <2>1, SameRows, SameRecords, QuietStep DEF Truncate, senderVars, DeliveryInv
<1>14. ASSUME NEW r \in Relay, Crash(r)
       PROVE  DeliveryInv'
  BY <1>1, <1>14, SameRows, SameRecords, QuietStep DEF Crash, senderVars, DeliveryInv, TypeOK
<1>15. ASSUME NEW d \in Destination, NEW e \in Event,
              \/ LeaseExpires(d, e) \/ LeaseOverruns(d, e)
              \/ BackoffElapses(d, e) \/ ResumeSyncDelivery(d, e)
       PROVE  DeliveryInv'
  <2>1. KeepsRows /\ PublishesNothing
    BY <1>1, <1>15, ClockAndOperator
  <2> QED BY <1>1, <1>15, <2>1, SameRecords, QuietStep
          DEF LeaseExpires, LeaseOverruns, BackoffElapses, ResumeSyncDelivery, relayVars, DeliveryInv
<1> QED
  BY <1>2, <1>3, <1>4, <1>5, <1>6, <1>7, <1>8, <1>9, <1>10, <1>11, <1>12, <1>13, <1>14, <1>15
     DEF Next, Records

-----------------------------------------------------------------------------
(* The rows in every step, and the rows of one confirmation.               *)

(* Only a confirmed call publishes, and only the row of its claim.         *)
Confirms(d, e) ==
  /\ inCustody(d, e)
  /\ \A o \in Destination, f \in Event :
       Status(o, f)' = "PUBLISHED" => Status(o, f) = "PUBLISHED" \/ (o = d /\ f = e)

LEMMA StepRows ==
  ASSUME DeliveryInv, Next
  PROVE  /\ KeepsRows
         /\ \/ PublishesNothing
            \/ \E r \in Relay : /\ Settle(r)
                                /\ call[r].event \in Event /\ target[r] \in Destination
                                /\ Confirms(target[r], call[r].event)
<1> USE DEF DeliveryInv
<1>1. ASSUME delivery' = delivery
      PROVE  KeepsRows /\ PublishesNothing
  BY <1>1, SameRows
<1>2. ASSUME NEW r \in Relay, NEW d \in Destination, ClaimAvailable(r, d)
      PROVE  KeepsRows /\ PublishesNothing
  BY <1>2, Claiming
<1>3. ASSUME NEW r \in Relay, NEW c \in batch[r], Isolate(r, c)
      PROVE  KeepsRows /\ PublishesNothing
  <2>1. target[r] \in Destination /\ c.event \in Event
    BY DEF TypeOK, Claim, idle
  <2> QED BY <1>3, <2>1, MarkingBlocked DEF Isolate
<1>4. ASSUME NEW r \in Relay, Timeout(r)
      PROVE  KeepsRows /\ PublishesNothing
  <2>1. target[r] \in Destination /\ call[r].event \in Event
    BY <1>4 DEF Timeout, TypeOK, Call, idle
  <2> QED BY <1>4, <2>1, Rescheduling DEF Timeout
<1>5. ASSUME NEW d \in Destination, NEW e \in Event,
             \/ LeaseExpires(d, e) \/ LeaseOverruns(d, e)
             \/ BackoffElapses(d, e) \/ ResumeSyncDelivery(d, e)
      PROVE  KeepsRows /\ PublishesNothing
  BY <1>5, ClockAndOperator
<1>6. ASSUME NEW r \in Relay, Settle(r)
      PROVE  /\ KeepsRows
             /\ target[r] \in Destination /\ call[r].event \in Event
             /\ PublishesNothing \/ Confirms(target[r], call[r].event)
  <2>1. target[r] \in Destination /\ call[r] # None /\ call[r].event \in Event
    BY <1>6 DEF Settle, TypeOK, Call, idle
  <2>2. CASE call[r].ack = "CONFIRMED"
    <3>1. markPublished(target[r], call[r]) /\ inCustody(target[r], call[r].event)
      BY <1>6, <2>1, <2>2 DEF Settle, settleAs, Outcomes
    <3> QED BY <2>1, <3>1, MarkingPublished DEF Confirms
  <2>3. CASE call[r].ack # "CONFIRMED"
    <3>1. markBlocked(target[r], call[r]) \/ reschedule(target[r], call[r])
      BY <1>6, <2>3 DEF Settle, settleAs, Outcomes
    <3> QED BY <2>1, <3>1, MarkingBlocked, Rescheduling
  <2> QED BY <2>2, <2>3
<1>7. \/ delivery' = delivery
      \/ \E r \in Relay, d \in Destination : ClaimAvailable(r, d)
      \/ \E r \in Relay : \E c \in batch[r] : Isolate(r, c)
      \/ \E r \in Relay : Timeout(r) \/ Settle(r)
      \/ \E d \in Destination, e \in Event :
           \/ LeaseExpires(d, e) \/ LeaseOverruns(d, e)
           \/ BackoffElapses(d, e) \/ ResumeSyncDelivery(d, e)
  BY DEF Next, Record, PublishCatalogBootstrap, enqueue, RegisterNode, RevokeNode,
         RegisterOwnedAggregate, Skip, Send, Reject, TakeCustody, Unavailable, Truncate, Crash,
         senderVars
<1> QED BY <1>1, <1>2, <1>3, <1>4, <1>5, <1>6, <1>7

-----------------------------------------------------------------------------
(* The refinement of OrderedDelivery.                                      *)

LEMMA SameConfirmed ==
  ASSUME KeepsRows, PublishesNothing
  PROVE  confirmedBy' = confirmedBy
  BY DEF KeepsRows, Moves, PublishesNothing, confirmedBy, Status

LEMMA OneConfirmed ==
  ASSUME KeepsRows, NEW d \in Destination, NEW e \in Event, Confirms(d, e), custody' = custody
  PROVE  \/ confirmedBy' = confirmedBy
         \/ /\ e \in heldBy[d] \ confirmedBy[d]
            /\ confirmedBy' = [confirmedBy EXCEPT ![d] = @ \cup {e}]
<1>1. \A o \in Destination, f \in Event : Status(o, f) = "PUBLISHED" => Status(o, f)' = "PUBLISHED"
  BY DEF KeepsRows, Moves, Status
<1>2. \A o \in Destination : confirmedBy[o] = {f \in Event : Status(o, f) = "PUBLISHED"}
  BY DEF confirmedBy
<1>3. confirmedBy' = [o \in Destination |-> {f \in Event : Status(o, f)' = "PUBLISHED"}]
  BY DEF confirmedBy
<1>4. confirmedBy = [o \in Destination |-> {f \in Event : Status(o, f) = "PUBLISHED"}]
  BY DEF confirmedBy
<1>5. \A o \in Destination : \A f \in Event :
        Status(o, f)' = "PUBLISHED" => Status(o, f) = "PUBLISHED" \/ (o = d /\ f = e)
  BY DEF Confirms
<1>6. \A o \in Destination \ {d} :
        {f \in Event : Status(o, f)' = "PUBLISHED"} = {f \in Event : Status(o, f) = "PUBLISHED"}
  BY <1>1, <1>5
<1>7. CASE Status(d, e)' = "PUBLISHED" /\ Status(d, e) # "PUBLISHED"
  <2>1. {f \in Event : Status(d, f)' = "PUBLISHED"}
          = {f \in Event : Status(d, f) = "PUBLISHED"} \cup {e}
    BY <1>1, <1>5, <1>7
  <2>2. e \in heldBy[d] \ confirmedBy[d]
    BY <1>2, <1>7 DEF Confirms, heldBy
  <2>3. confirmedBy' = [confirmedBy EXCEPT ![d] = @ \cup {e}]
    BY <1>2, <1>3, <1>4, <1>6, <2>1
  <2> QED BY <2>2, <2>3
<1>8. CASE ~(Status(d, e)' = "PUBLISHED" /\ Status(d, e) # "PUBLISHED")
  <2>1. {f \in Event : Status(d, f)' = "PUBLISHED"} = {f \in Event : Status(d, f) = "PUBLISHED"}
    BY <1>1, <1>5, <1>8
  <2> QED BY <1>3, <1>4, <1>6, <2>1
<1> QED BY <1>7, <1>8

LEMMA RefinementStep ==
  ASSUME DeliveryInv, [Next]_vars
  PROVE  [Abs!ANext]_(Abs!avars)
<1>1. CASE UNCHANGED vars
  BY <1>1 DEF vars, Abs!avars, heldBy, lateBy, confirmedBy, inCustody, Status
<1> SUFFICES ASSUME Next PROVE [Abs!ANext]_(Abs!avars)
  BY <1>1
<1>2. ASSUME recorded' = recorded, follows' = follows, custody' = custody, PublishesNothing
      PROVE  UNCHANGED Abs!avars
  <2>1. heldBy' = heldBy /\ lateBy' = lateBy
    BY <1>2 DEF heldBy, lateBy, inCustody
  <2>2. confirmedBy' = confirmedBy
    BY <1>2, StepRows, SameConfirmed
  <2> QED BY <1>2, <2>1, <2>2 DEF Abs!avars
<1>3. ASSUME Records
      PROVE  Abs!ANext
  <2>1. PICK facts \in SUBSET Event :
          /\ enqueue(facts)
          /\ facts \cap recorded = {}
          /\ \A p \in facts, h \in recorded : p \in Before[h] => p \in Listed
    BY <1>3, RecordedFacts DEF DeliveryInv
  <2>2. heldBy' = heldBy /\ lateBy' = lateBy /\ confirmedBy' = confirmedBy
    BY <2>1 DEF enqueue, heldBy, lateBy, confirmedBy, inCustody, Status
  <2>3. Abs!RecordFacts(facts)
    BY <2>1, <2>2 DEF enqueue, Abs!RecordFacts
  <2> QED BY <2>1, <2>3 DEF Abs!ANext
<1>4. ASSUME NEW q \in wire, TakeCustody(q)
      PROVE  [Abs!ANext]_(Abs!avars)
  <2> DEFINE d == q.to
             e == q.event
  <2>1. d \in Destination /\ e \in Event /\ Ready(d, e)
    BY DEF DeliveryInv, TypeOK, Request
  <2>2. recorded' = recorded /\ follows' = follows /\ delivery' = delivery
    BY <1>4 DEF TakeCustody, senderVars
  <2>3. confirmedBy' = confirmedBy
    BY <2>2 DEF confirmedBy, Status
  <2>4. CASE inCustody(d, e)
    <3>1. custody' = custody
      BY <1>4, <2>4 DEF TakeCustody, inCustody
    <3> QED BY <2>2, <2>3, <3>1 DEF Abs!avars, heldBy, lateBy, inCustody
  <2>5. CASE ~inCustody(d, e)
    <3>1. /\ inCustody(d, e)'
          /\ \A o \in Destination, f \in Event :
               o # d \/ f # e => (inCustody(o, f)' <=> inCustody(o, f))
      BY <1>4, <2>1, <2>5
         DEF TakeCustody, inCustody, classifyApplication, DeliveryInv, TypeOK
    <3>2. heldBy' = [o \in Destination |-> {f \in Event : inCustody(o, f)'}]
      BY DEF heldBy
    <3>3. \A o \in Destination : heldBy[o] = {f \in Event : inCustody(o, f)}
      BY DEF heldBy
    <3>4. {f \in Event : inCustody(d, f)'} = heldBy[d] \cup {e}
      BY <2>1, <3>1, <3>3
    <3>5. \A o \in Destination \ {d} : {f \in Event : inCustody(o, f)'} = heldBy[o]
      BY <3>1, <3>3
    <3>6. heldBy' = [heldBy EXCEPT ![d] = @ \cup {e}]
      BY <3>2, <3>4, <3>5 DEF heldBy
    <3>7. e \in recorded \ heldBy[d] /\ follows[e] \subseteq confirmedBy[d]
      BY <2>1, <2>5, <3>3 DEF Ready, confirmedBy, DeliveryInv, TypeOK
    <3>8. Abs!take(d, e)
      BY <2>2, <2>3, <3>6, <3>7 DEF Abs!take
    <3>9. \A o \in Destination, f \in Event : o # d \/ f # e => custody'[o][f] = custody[o][f]
      BY <1>4, <2>1 DEF TakeCustody, DeliveryInv, TypeOK
    <3>10. \A o \in Destination : lateBy[o] = {f \in Event : custody[o][f] = "PENDING_REVIEW"}
      BY DEF lateBy
    <3>11. \A o \in Destination \ {d} :
             {f \in Event : custody'[o][f] = "PENDING_REVIEW"} = lateBy[o]
      BY <3>9, <3>10
    <3>12. lateBy' = [o \in Destination |-> {f \in Event : custody'[o][f] = "PENDING_REVIEW"}]
      BY DEF lateBy
    <3>13. CASE custody'[d][e] = "PENDING_REVIEW"
      <4>1. {f \in Event : custody'[d][f] = "PENDING_REVIEW"} = lateBy[d] \cup {e}
        BY <2>1, <3>9, <3>10, <3>13
      <4>2. lateBy' = [lateBy EXCEPT ![d] = @ \cup {e}]
        BY <3>11, <3>12, <4>1 DEF lateBy
      <4>3. PICK h \in Event : Overtaken(e, h)' /\ inCustody(d, h)'
        BY <2>1, <3>13, InvStep DEF DeliveryInv, LateIsOvertaken
      <4>4. Overtaken(e, h) /\ e # h
        <5>1. Overtaken(e, h)
          BY <2>2, <4>3 DEF Overtaken
        <5>2. VersionOf[h] \in Nat /\ h \in Nat
          BY MetadataAssumption, EventAssumption
        <5>3. h \notin Before[h]
          BY <5>2 DEF Before, Precedes
        <5> QED BY <5>1, <5>3 DEF Overtaken
      <4>5. h \in heldBy[d] /\ e \in Before[h] \ follows[h]
        <5>1. inCustody(d, h)
          BY <2>1, <3>1, <4>3, <4>4
        <5>2. e \in Before[h] /\ e \notin follows[h]
          BY <4>4 DEF Overtaken
        <5> QED BY <2>1, <3>3, <5>1, <5>2
      <4>6. e \in Listed
        BY <2>1, <4>4 DEF DeliveryInv, OvertakenIsListed
      <4>7. Abs!HoldLate(d, e)
        BY <3>8, <4>2, <4>5, <4>6 DEF Abs!HoldLate
      <4> QED BY <2>1, <4>7 DEF Abs!ANext
    <3>14. CASE custody'[d][e] # "PENDING_REVIEW"
      <4>1. {f \in Event : custody'[d][f] = "PENDING_REVIEW"} = lateBy[d]
        BY <2>1, <2>5, <3>9, <3>10, <3>14 DEF inCustody
      <4>2. lateBy' = lateBy
        BY <3>11, <3>12, <4>1 DEF lateBy
      <4>3. Abs!Hold(d, e)
        BY <3>8, <4>2 DEF Abs!Hold
      <4> QED BY <2>1, <4>3 DEF Abs!ANext
    <3> QED BY <3>13, <3>14
  <2> QED BY <2>4, <2>5
<1>5. ASSUME NEW r \in Relay, Settle(r), target[r] \in Destination, call[r].event \in Event,
             Confirms(target[r], call[r].event)
      PROVE  [Abs!ANext]_(Abs!avars)
  <2>1. recorded' = recorded /\ follows' = follows /\ custody' = custody
    BY <1>5 DEF Settle
  <2>2. heldBy' = heldBy /\ lateBy' = lateBy
    BY <2>1 DEF heldBy, lateBy, inCustody
  <2>3. KeepsRows
    BY StepRows
  <2>4. \/ confirmedBy' = confirmedBy
        \/ Abs!Confirm(target[r], call[r].event)
    BY <1>5, <2>1, <2>2, <2>3, OneConfirmed DEF Abs!Confirm
  <2> QED BY <1>5, <2>1, <2>2, <2>4 DEF Abs!ANext, Abs!avars
<1>6. \/ recorded' = recorded /\ follows' = follows /\ custody' = custody
      \/ Records
      \/ \E q \in wire : TakeCustody(q)
  BY DEF Next, Records, RegisterNode, RevokeNode, RegisterOwnedAggregate, ClaimAvailable, Skip, Isolate,
         Send, Reject, Unavailable, Settle, Timeout, Truncate, Crash, LeaseExpires,
         LeaseOverruns, BackoffElapses, ResumeSyncDelivery, senderVars
<1>7. CASE recorded' = recorded /\ follows' = follows /\ custody' = custody
  BY <1>2, <1>5, <1>7, StepRows
<1> QED BY <1>3, <1>4, <1>6, <1>7

-----------------------------------------------------------------------------
(* The claims relays work on.                                              *)

(* The invariant behind OneLiveClaim: no claim is ahead of its row.        *)
ClaimsFollowRows ==
  \A r \in Relay : \A c \in claimsOf(r) :
    c.generation <= delivery[target[r]][c.event].attempts

(* The relays keep their destinations, and hold no claim they did not hold. *)
NoNewClaims ==
  \A r \in Relay :
    /\ target'[r] = target[r]
    /\ \A c \in claimsOf(r)' :
         \E b \in claimsOf(r) : b.event = c.event /\ b.generation = c.generation

LEMMA HeldClaims ==
  ASSUME DeliveryInv, NEW r \in Relay, NEW c \in claimsOf(r)
  PROVE  /\ c.event \in Event /\ c.generation \in Nat
         /\ target[r] \in Destination
         /\ delivery[target[r]][c.event].attempts \in Nat
<1>1. c.event \in Event /\ c.generation \in Nat
  BY DEF DeliveryInv, TypeOK, claimsOf, Claim, Call
<1>2. target[r] \in Destination
  BY DEF DeliveryInv, claimsOf, idle
<1> QED BY <1>1, <1>2 DEF DeliveryInv, TypeOK, Row

LEMMA ClaimsKept ==
  ASSUME DeliveryInv, DeliveryInv', Next, NoNewClaims, ClaimsFollowRows, OneLiveClaim
  PROVE  ClaimsFollowRows' /\ OneLiveClaim'
<1>1. ClaimsFollowRows'
  <2> SUFFICES ASSUME NEW r \in Relay, NEW c \in claimsOf(r)'
               PROVE  c.generation <= delivery'[target'[r]][c.event].attempts
    BY DEF ClaimsFollowRows
  <2>1. PICK b \in claimsOf(r) : b.event = c.event /\ b.generation = c.generation
    BY DEF NoNewClaims
  <2>2. target'[r] = target[r]
    BY DEF NoNewClaims
  <2>3. /\ b.event \in Event /\ b.generation \in Nat /\ target[r] \in Destination
        /\ delivery[target[r]][b.event].attempts \in Nat
    BY HeldClaims
  <2>4. delivery[target[r]][b.event].attempts <= delivery'[target[r]][b.event].attempts
    BY <2>3, StepRows DEF KeepsRows, Moves
  <2>5. delivery'[target[r]][b.event].attempts \in Nat
    BY <2>3 DEF DeliveryInv, TypeOK, Row
  <2>6. b.generation <= delivery[target[r]][b.event].attempts
    BY DEF ClaimsFollowRows
  <2> QED BY <2>1, <2>2, <2>3, <2>4, <2>5, <2>6
<1>2. OneLiveClaim'
  <2> SUFFICES ASSUME NEW r \in Relay, NEW s \in Relay, r # s, target'[r] = target'[s],
                      NEW b \in claimsOf(r)', NEW c \in claimsOf(s)', b.event = c.event
               PROVE  b.generation # c.generation
    BY DEF OneLiveClaim
  <2>1. target[r] = target[s]
    BY DEF NoNewClaims
  <2>2. PICK x \in claimsOf(r) : x.event = b.event /\ x.generation = b.generation
    BY DEF NoNewClaims
  <2>3. PICK y \in claimsOf(s) : y.event = c.event /\ y.generation = c.generation
    BY DEF NoNewClaims
  <2> QED BY <2>1, <2>2, <2>3 DEF OneLiveClaim
<1> QED BY <1>1, <1>2

(* A claim's generation is the row's new count of attempts, which no claim *)
(* taken before can have.                                                  *)
LEMMA ClaimsStartGenerations ==
  ASSUME DeliveryInv, NEW r \in Relay, NEW d \in Destination, ClaimAvailable(r, d)
  PROVE  /\ target'[r] = d
         /\ \A c \in claimsOf(r)' :
              /\ c.event \in Event
              /\ c.generation = delivery[d][c.event].attempts + 1
              /\ c.generation = delivery'[d][c.event].attempts
         /\ \A s \in Relay \ {r} : target'[s] = target[s] /\ claimsOf(s)' = claimsOf(s)
<1> DEFINE rows == materialize(d)
           taken == claimable(d)
           claims == {e \in taken : ~unsupported(e)}
<1>0. TypeOK
  BY DEF DeliveryInv
<1>1. target'[r] = d
  BY <1>0 DEF ClaimAvailable, TypeOK
<1>2. claims \subseteq Event
  BY <1>0 DEF claimable, candidates, TypeOK
<1>3. claimsOf(r)' = {[event |-> e, generation |-> rows[e].attempts + 1] : e \in claims}
  BY <1>0 DEF ClaimAvailable, TypeOK, claimsOf, idle
<1>4. \A e \in Event : rows[e].attempts = delivery[d][e].attempts
  <2> TAKE e \in Event
  <2>1. delivery[d][e] \in Row
    BY <1>0 DEF TypeOK
  <2>2. [delivery[d][e] EXCEPT !.status = "PENDING"].attempts = delivery[d][e].attempts
    BY <2>1 DEF Row
  <2> QED BY <2>2 DEF materialize
<1>5. \A e \in claims : delivery'[d][e].attempts = rows[e].attempts + 1
  <2> TAKE e \in claims
  <2>1. delivery'[d][e] = claimedRow(rows[e])
    BY <1>0, <1>2 DEF ClaimAvailable, TypeOK
  <2> QED BY <2>1 DEF claimedRow
<1>6. ASSUME NEW c \in claimsOf(r)'
      PROVE  /\ c.event \in Event
             /\ c.generation = delivery[d][c.event].attempts + 1
             /\ c.generation = delivery'[d][c.event].attempts
  <2>1. PICK e \in claims : c = [event |-> e, generation |-> rows[e].attempts + 1]
    BY <1>3
  <2>2. c.event = e /\ c.generation = rows[e].attempts + 1
    BY <2>1
  <2> HIDE DEF rows, claims
  <2> QED BY <1>2, <1>4, <1>5, <2>2
<1>7. \A s \in Relay \ {r} : target'[s] = target[s] /\ claimsOf(s)' = claimsOf(s)
  BY <1>0 DEF ClaimAvailable, TypeOK, claimsOf
<1> QED BY <1>1, <1>6, <1>7

LEMMA ClaimsStart ==
  ASSUME DeliveryInv, DeliveryInv', Next, ClaimsFollowRows, OneLiveClaim,
         NEW r \in Relay, NEW d \in Destination, ClaimAvailable(r, d)
  PROVE  ClaimsFollowRows' /\ OneLiveClaim'
<1>1. \A c \in claimsOf(r)' :
        /\ c.event \in Event
        /\ c.generation = delivery[d][c.event].attempts + 1
        /\ c.generation = delivery'[d][c.event].attempts
  BY ClaimsStartGenerations
<1>2. target'[r] = d /\ \A s \in Relay \ {r} : target'[s] = target[s] /\ claimsOf(s)' = claimsOf(s)
  BY ClaimsStartGenerations
<1>3. \A s \in Relay \ {r} : \A c \in claimsOf(s) :
        /\ c.event \in Event /\ c.generation \in Nat /\ target[s] \in Destination
        /\ delivery[target[s]][c.event].attempts \in Nat
        /\ c.generation <= delivery[target[s]][c.event].attempts
  BY HeldClaims DEF ClaimsFollowRows
<1>4. \A o \in Destination, e \in Event :
        /\ delivery[o][e].attempts \in Nat /\ delivery'[o][e].attempts \in Nat
        /\ delivery[o][e].attempts <= delivery'[o][e].attempts
  BY StepRows DEF KeepsRows, Moves, DeliveryInv, TypeOK, Row
<1>5. ClaimsFollowRows'
  <2> SUFFICES ASSUME NEW s \in Relay, NEW c \in claimsOf(s)'
               PROVE  c.generation <= delivery'[target'[s]][c.event].attempts
    BY DEF ClaimsFollowRows
  <2>1. CASE s = r
    BY <1>1, <1>2, <1>4, <2>1
  <2>2. CASE s # r
    BY <1>2, <1>3, <1>4, <2>2
  <2> QED BY <2>1, <2>2
<1>6. \A s \in Relay \ {r} : \A b \in claimsOf(r)', c \in claimsOf(s)' :
        target'[s] = d /\ b.event = c.event => b.generation # c.generation
  <2> TAKE s \in Relay \ {r}
  <2> TAKE b \in claimsOf(r)', c \in claimsOf(s)'
  <2> HAVE target'[s] = d /\ b.event = c.event
  <2>1. c \in claimsOf(s) /\ target[s] = d
    BY <1>2
  <2>2. c.generation <= delivery[d][c.event].attempts /\ c.event \in Event /\ c.generation \in Nat
    BY <1>3, <2>1
  <2>3. b.generation = delivery[d][c.event].attempts + 1
    BY <1>1
  <2> QED BY <1>4, <2>2, <2>3
<1>7. OneLiveClaim'
  <2> SUFFICES ASSUME NEW s \in Relay, NEW t \in Relay, s # t, target'[s] = target'[t],
                      NEW b \in claimsOf(s)', NEW c \in claimsOf(t)', b.event = c.event
               PROVE  b.generation # c.generation
    BY DEF OneLiveClaim
  <2>1. CASE s = r
    BY <1>2, <1>6, <2>1
  <2>2. CASE t = r
    BY <1>2, <1>6, <2>2
  <2>3. CASE s # r /\ t # r
    BY <1>2, <2>3 DEF OneLiveClaim
  <2> QED BY <2>1, <2>2, <2>3
<1> QED BY <1>5, <1>7

LEMMA ClaimsStep ==
  ASSUME DeliveryInv, Next
  PROVE  NoNewClaims \/ \E r \in Relay, d \in Destination : ClaimAvailable(r, d)
<1>0. TypeOK
  BY DEF DeliveryInv
<1>1. ASSUME UNCHANGED relayVars PROVE NoNewClaims
  BY <1>1 DEF NoNewClaims, claimsOf, relayVars
<1>2. ASSUME NEW r \in Relay, NEW c \in batch[r], Skip(r, c) \/ Isolate(r, c) PROVE NoNewClaims
  <2>1. target' = target /\ call' = call
    BY <1>2 DEF Skip, Isolate
  <2>2. \A s \in Relay : batch'[s] \subseteq batch[s]
    BY <1>0, <1>2 DEF Skip, Isolate, drop, TypeOK
  <2> QED BY <2>1, <2>2 DEF NoNewClaims, claimsOf
<1>3. ASSUME NEW r \in Relay, NEW c \in batch[r], Send(r, c) PROVE NoNewClaims
  BY <1>0, <1>3 DEF Send, drop, NoNewClaims, claimsOf, TypeOK
<1>4. ASSUME NEW q \in wire, Reject(q) \/ TakeCustody(q) \/ Unavailable(q) PROVE NoNewClaims
  <2>1. UNCHANGED <<target, batch>>
    BY <1>4 DEF Reject, TakeCustody, Unavailable
  <2>2. \A r \in Relay : \/ call'[r] = call[r]
                         \/ /\ call[r] # None /\ call'[r].event = call[r].event
                            /\ call'[r].generation = call[r].generation
    BY <1>0, <1>4 DEF Reject, TakeCustody, Unavailable, answer, TypeOK, Call
  <2> QED BY <2>1, <2>2 DEF NoNewClaims, claimsOf
<1>5. ASSUME NEW r \in Relay, Settle(r) \/ Timeout(r) PROVE NoNewClaims
  BY <1>0, <1>5 DEF Settle, Timeout, hangUp, NoNewClaims, claimsOf, TypeOK
<1>6. ASSUME NEW r \in Relay, Truncate(r) PROVE NoNewClaims
  <2>1. UNCHANGED <<target, batch>>
    BY <1>6 DEF Truncate
  <2>2. \A s \in Relay : \/ call'[s] = call[s]
                         \/ /\ call[s] # None /\ call'[s].event = call[s].event
                            /\ call'[s].generation = call[s].generation
    BY <1>0, <1>6 DEF Truncate, TypeOK, Call
  <2> QED BY <2>1, <2>2 DEF NoNewClaims, claimsOf
<1>7. ASSUME NEW r \in Relay, Crash(r) PROVE NoNewClaims
  BY <1>0, <1>7 DEF Crash, NoNewClaims, claimsOf, TypeOK
<1>8. \/ UNCHANGED relayVars
      \/ \E r \in Relay, d \in Destination : ClaimAvailable(r, d)
      \/ \E r \in Relay : \E c \in batch[r] : Skip(r, c) \/ Isolate(r, c) \/ Send(r, c)
      \/ \E q \in wire : Reject(q) \/ TakeCustody(q) \/ Unavailable(q)
      \/ \E r \in Relay : Settle(r) \/ Timeout(r) \/ Truncate(r) \/ Crash(r)
  BY DEF Next, Record, PublishCatalogBootstrap, enqueue, RegisterNode, RevokeNode,
         RegisterOwnedAggregate, LeaseExpires, LeaseOverruns, BackoffElapses, ResumeSyncDelivery
<1> QED BY <1>1, <1>2, <1>3, <1>4, <1>5, <1>6, <1>7, <1>8

-----------------------------------------------------------------------------
(* Results.                                                                *)

(* The argument of all the others: what is claimed, in flight or in        *)
(* custody has what the node recorded before it published, what is         *)
(* published is held, and only what a cut lists again may come late.       *)
THEOREM Invariance == Spec => []DeliveryInv
<1>1. Init => DeliveryInv
  BY InitInv
<1>2. DeliveryInv /\ [Next]_vars => DeliveryInv'
  BY InvStep
<1> QED BY <1>1, <1>2, PTL DEF Spec

(* No row, claim, call, request or custody class outside the ones the code *)
(* declares is ever reached.                                               *)
THEOREM TypeCorrectness == Spec => []TypeOK
<1>1. DeliveryInv => TypeOK
  BY DEF DeliveryInv
<1> QED BY <1>1, Invariance, PTL

(* What the sender shows as published is in the destination's durable      *)
(* custody, for any number of lost, late or repeated answers and crashes.  *)
THEOREM PublishedIsHeld == Spec => []PublishedHasCustody
<1>1. DeliveryInv => PublishedHasCustody
  BY DEF DeliveryInv
<1> QED BY <1>1, Invariance, PTL

(* However its requests were delayed, lost or repeated, a destination takes *)
(* a fact after all that the node recorded before it in its aggregate; what *)
(* a use case recorded is never missing under a later fact, and only a rate *)
(* that a cut listed again, under an earlier version, is put aside as late. *)
THEOREM CustodyFollowsVersions == Spec => []CustodyInOrder
<1>1. DeliveryInv => CustodyInOrder
  <2> SUFFICES ASSUME DeliveryInv, NEW d \in Destination, NEW e \in Event, inCustody(d, e)
               PROVE  /\ \A p \in follows[e] : inCustody(d, p)
                      /\ \A p \in Before[e] \cap recorded : inCustody(d, p) \/ p \in Listed
                      /\ custody[d][e] = "PENDING_REVIEW" =>
                           e \in Listed /\ AggregateOf[e] \in RateHistory
    BY DEF CustodyInOrder
  <2>1. Ready(d, e)
    BY DEF DeliveryInv
  <2>2. \A p \in follows[e] : p \in Event /\ Status(d, p) = "PUBLISHED"
    BY <2>1 DEF Ready, DeliveryInv, TypeOK
  <2>3. \A p \in follows[e] : inCustody(d, p)
    BY <2>2 DEF DeliveryInv, PublishedHasCustody
  <2>4. ASSUME NEW p \in Before[e] \cap recorded, p \notin follows[e]
        PROVE  p \in Listed
    BY <2>1, <2>4 DEF Ready, DeliveryInv, TypeOK, OvertakenIsListed, Overtaken
  <2>5. ASSUME custody[d][e] = "PENDING_REVIEW"
        PROVE  e \in Listed /\ AggregateOf[e] \in RateHistory
    <3>1. PICK h \in Event : Overtaken(e, h) /\ VersionOf[e] < VersionOf[h]
      BY <2>5 DEF DeliveryInv, LateIsOvertaken
    <3>2. VersionOf[e] # VersionOf[h]
      BY <3>1, MetadataAssumption
    <3> QED BY <3>1, <3>2 DEF DeliveryInv, OvertakenIsListed
  <2> QED BY <2>3, <2>4, <2>5
<1> QED BY <1>1, Invariance, PTL

(* No late answer, expired lease, second worker or resumption reopens a    *)
(* published or blocked delivery, and the generation of a claim never      *)
(* goes back.                                                              *)
THEOREM SettledStaysSettled == Spec => SettledForGood
<1>1. ASSUME DeliveryInv, [Next]_vars
      PROVE  [\A d \in Destination, e \in Event :
                /\ Status(d, e) \in {"PUBLISHED", "BLOCKED"} => Status(d, e)' = Status(d, e)
                /\ delivery[d][e].attempts <= delivery[d][e].attempts']_vars
  BY <1>1, StepRows DEF KeepsRows, Moves, Status
<1> QED BY <1>1, Invariance, PTL DEF Spec, SettledForGood

(* A delivery stays pending only while its cycle has attempts left, and is *)
(* paused only when it has none.                                           *)
THEOREM BudgetOfRows == Spec => []ExhaustedIsPaused
<1> DEFINE RowsInCycle == \A d \in Destination, e \in Event : InCycle(delivery[d][e])
<1>1. Init => RowsInCycle
  BY BoundsAssumption DEF Init, InCycle, absentRow
<1>2. DeliveryInv /\ RowsInCycle /\ [Next]_vars => RowsInCycle'
  <2> SUFFICES ASSUME DeliveryInv, RowsInCycle, [Next]_vars PROVE RowsInCycle'
    OBVIOUS
  <2>1. CASE Next
    BY <2>1, StepRows DEF KeepsRows, Moves
  <2>2. CASE UNCHANGED vars
    BY <2>2 DEF vars
  <2> QED BY <2>1, <2>2
<1>3. RowsInCycle => ExhaustedIsPaused
  BY DEF InCycle, ExhaustedIsPaused, Status
<1> QED BY <1>1, <1>2, <1>3, Invariance, PTL DEF Spec

(* Outbox rows, leases, retries, requests and receipts implement delivery  *)
(* at most once, in the order of recording, where only what a cut lists    *)
(* again can be late.                                                      *)
THEOREM Refinement == Spec => DeliversInOrder
<1>1. Init => Abs!AInit
  BY DEF Init, Abs!AInit, heldBy, lateBy, confirmedBy, inCustody, Status, absentRow
<1>2. DeliveryInv /\ [Next]_vars => [Abs!ANext]_(Abs!avars)
  BY RefinementStep
<1> QED BY <1>1, <1>2, Invariance, PTL DEF Spec, DeliversInOrder, Abs!ASpec

(* Of several relay workers over one database, at most one still works on  *)
(* the last claim of a row: any number of expired leases, crashes and late *)
(* answers leave the others with generations the row has left behind.      *)
THEOREM ClaimsAreExclusive == Spec => []OneLiveClaim
<1> DEFINE LiveInv == ClaimsFollowRows /\ OneLiveClaim
<1>1. Init => LiveInv
  BY DEF Init, ClaimsFollowRows, OneLiveClaim, claimsOf
<1>2. DeliveryInv /\ DeliveryInv' /\ LiveInv /\ [Next]_vars => LiveInv'
  <2> SUFFICES ASSUME DeliveryInv, DeliveryInv', LiveInv, [Next]_vars PROVE LiveInv'
    OBVIOUS
  <2>1. CASE Next
    BY <2>1, ClaimsStep, ClaimsKept, ClaimsStart
  <2>2. CASE UNCHANGED vars
    BY <2>2 DEF vars, ClaimsFollowRows, OneLiveClaim, claimsOf
  <2> QED BY <2>1, <2>2
<1>3. LiveInv => OneLiveClaim
  OBVIOUS
<1> HIDE DEF LiveInv
<1> QED BY <1>1, <1>2, <1>3, Invariance, PTL DEF Spec
==========================================================================
