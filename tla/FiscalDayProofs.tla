-------------------------- MODULE FiscalDayProofs --------------------------
(***************************************************************************)
(* What FiscalDay guarantees for any number of days, reports, requests and *)
(* failures.  A request stores its copy of the day only when nothing was   *)
(* stored since it was read, so every change of a day is one of two: a     *)
(* report is requested, or a report advances by one status.                *)
(***************************************************************************)
EXTENDS FiscalDay, TLAPS

(* The day d is stored with another version, state and report k.           *)
Stored(d, k, state, version, rep) ==
  days' = [days EXCEPT ![d] =
    [state |-> state, version |-> version, reports |-> [days[d].reports EXCEPT ![k] = rep]]]

Requested(d, k) ==
  \E type \in ReportType, version \in Nat :
    /\ findByReportIdempotencyKey(k) = {}
    /\ \/ days[d].state = "ABSENT" /\ findOpenByTerminal = {} /\ version = 2
       \/ days[d].state = "DAY_OPEN" /\ version = days[d].version + 1
    /\ Stored(d, k, IF type = "Z" THEN "Z_PENDING" ELSE "DAY_OPEN", version,
              [type |-> type, status |-> "PENDING"])

Advanced(d, k, from, to) ==
  /\ days[d].state \in {"DAY_OPEN", "Z_PENDING"}
  /\ days[d].reports[k] # unrequested
  /\ days[d].reports[k].status = from
  /\ \/ from = "PENDING" /\ to = "PRINTING"
     \/ from = "PRINTING" /\ to = "ERROR"
     \/ from = "PRINTING" /\ to = "ISSUED" /\ printed[k] = 1
  /\ Stored(d, k, IF to = "ISSUED" /\ isZ(d, k) THEN "DAY_CLOSED" ELSE days[d].state,
            days[d].version + 1, [type |-> days[d].reports[k].type, status |-> to])

(* What holds of the days, whatever the requests are doing.                *)
DaysInv ==
  /\ days \in [Day -> FiscalDayRow]
  /\ AbsentIsEmpty
  /\ OneDayPerKey
  /\ OneOpenDay
  /\ ClosedByItsZ

-----------------------------------------------------------------------------
(* A request that is not idle has a day, a key and a copy.                 *)
LEMMA BusyFlow ==
  ASSUME FiscalDayTypeOK, NEW f \in Flow, flow[f] # idle
  PROVE  /\ flow[f] \in Busy /\ flow[f].day \in Day /\ flow[f].key \in Key
         /\ flow[f].copy \in FiscalDayRow
PROOF BY DEF FiscalDayTypeOK, Busy

LEMMA StageOfBusy ==
  ASSUME FiscalDayTypeOK, NEW f \in Flow
  PROVE  flow[f] # idle <=> flow[f].stage \in {"PREPARED", "PRINTING", "CONFIRMED", "FAILED"}
PROOF BY DEF FiscalDayTypeOK, Busy, idle

LEMMA RowFields ==
  ASSUME NEW r \in FiscalDayRow, NEW k \in Key
  PROVE  /\ r.version \in Nat
         /\ r.state \in {"ABSENT", "DAY_OPEN", "Z_PENDING", "DAY_CLOSED"}
         /\ r.reports \in [Key -> Report]
         /\ r.reports[k] \in Report
         /\ r = [state |-> r.state, version |-> r.version, reports |-> r.reports]
PROOF BY DEF FiscalDayRow

LEMMA ReportFields ==
  ASSUME NEW r \in Report
  PROVE  /\ r # unrequested <=> r.type \in ReportType
         /\ r # unrequested <=> r.status \in {"PENDING", "PRINTING", "ERROR", "ISSUED"}
         /\ r = [type |-> r.type, status |-> r.status]
PROOF BY DEF Report, unrequested, ReportType

LEMMA StoredFacts ==
  ASSUME days \in [Day -> FiscalDayRow], NEW d \in Day, NEW k \in Key,
         NEW state \in {"DAY_OPEN", "Z_PENDING", "DAY_CLOSED"}, NEW version \in Nat,
         NEW rep \in Report, Stored(d, k, state, version, rep)
  PROVE  /\ days' \in [Day -> FiscalDayRow]
         /\ \A e \in Day : e # d => days'[e] = days[e]
         /\ days'[d].state = state /\ days'[d].version = version
         /\ days'[d].reports[k] = rep
         /\ \A j \in Key : j # k => days'[d].reports[j] = days[d].reports[j]
PROOF
  <1> DEFINE stored == [state |-> state, version |-> version,
                        reports |-> [days[d].reports EXCEPT ![k] = rep]]
  <1>1. days[d] \in FiscalDayRow
    OBVIOUS
  <1>2. days[d].reports \in [Key -> Report]
    BY <1>1 DEF FiscalDayRow
  <1>3. stored \in FiscalDayRow
    BY <1>2 DEF FiscalDayRow
  <1>4. days' = [days EXCEPT ![d] = stored]
    BY DEF Stored
  <1>5. days'[d] = stored /\ days' \in [Day -> FiscalDayRow]
    BY <1>3, <1>4
  <1>6. \A e \in Day : e # d => days'[e] = days[e]
    BY <1>4
  <1>7. QED
    BY <1>2, <1>5, <1>6

(* What the two changes have in common.                                    *)
LEMMA ChangeFacts ==
  ASSUME DaysInv, NEW d \in Day, NEW k \in Key, NEW from, NEW to,
         Requested(d, k) \/ Advanced(d, k, from, to)
  PROVE  /\ days' \in [Day -> FiscalDayRow]
         /\ \A e \in Day : e # d => days'[e] = days[e]
         /\ days'[d].version > days[d].version
         /\ days'[d].state # "ABSENT" /\ days[d].state \in {"ABSENT", "DAY_OPEN", "Z_PENDING"}
         /\ days[d].state # "ABSENT" => days'[d].version = days[d].version + 1
         /\ days'[d].reports[k] # unrequested
         /\ \A j \in Key : j # k => days'[d].reports[j] = days[d].reports[j]
PROOF
  <1>1. days[d] \in FiscalDayRow /\ days[d].version \in Nat /\ days[d].reports[k] \in Report
    BY RowFields DEF DaysInv
  <1>2. CASE Requested(d, k)
    <2>1. PICK type \in ReportType, version \in Nat :
            /\ findByReportIdempotencyKey(k) = {}
            /\ \/ days[d].state = "ABSENT" /\ findOpenByTerminal = {} /\ version = 2
               \/ days[d].state = "DAY_OPEN" /\ version = days[d].version + 1
            /\ Stored(d, k, IF type = "Z" THEN "Z_PENDING" ELSE "DAY_OPEN", version,
                      [type |-> type, status |-> "PENDING"])
      BY <1>2 DEF Requested
    <2>2. [type |-> type, status |-> "PENDING"] \in Report
          /\ [type |-> type, status |-> "PENDING"] # unrequested
      BY DEF Report, unrequested
    <2>3. days[d].state = "ABSENT" => days[d].version = 0
      BY DEF DaysInv, AbsentIsEmpty, absentDay
    <2>4. (IF type = "Z" THEN "Z_PENDING" ELSE "DAY_OPEN") \in {"DAY_OPEN", "Z_PENDING", "DAY_CLOSED"}
      OBVIOUS
    <2>5. /\ days' \in [Day -> FiscalDayRow]
          /\ \A e \in Day : e # d => days'[e] = days[e]
          /\ days'[d].state # "ABSENT" /\ days'[d].version = version
          /\ days'[d].reports[k] = [type |-> type, status |-> "PENDING"]
          /\ \A j \in Key : j # k => days'[d].reports[j] = days[d].reports[j]
      BY <2>1, <2>2, <2>4, StoredFacts DEF DaysInv
    <2>6. QED
      BY <1>1, <2>1, <2>2, <2>3, <2>5
  <1>3. CASE Advanced(d, k, from, to)
    <2> DEFINE state == IF to = "ISSUED" /\ isZ(d, k) THEN "DAY_CLOSED" ELSE days[d].state
               rep == [type |-> days[d].reports[k].type, status |-> to]
    <2>1. days[d].state \in {"DAY_OPEN", "Z_PENDING"} /\ days[d].reports[k] # unrequested
          /\ to \in {"PRINTING", "ERROR", "ISSUED"}
          /\ Stored(d, k, state, days[d].version + 1, rep)
      BY <1>3 DEF Advanced
    <2>2. days[d].reports[k].type \in ReportType
      BY <1>1, <2>1, ReportFields
    <2>3. rep \in Report /\ rep # unrequested
      BY <2>1, <2>2 DEF Report, unrequested
    <2>4. state \in {"DAY_OPEN", "Z_PENDING", "DAY_CLOSED"} /\ days[d].version + 1 \in Nat
      BY <1>1, <2>1
    <2> HIDE DEF state, rep
    <2>5. /\ days' \in [Day -> FiscalDayRow]
          /\ \A e \in Day : e # d => days'[e] = days[e]
          /\ days'[d].state = state /\ days'[d].version = days[d].version + 1
          /\ days'[d].reports[k] = rep
          /\ \A j \in Key : j # k => days'[d].reports[j] = days[d].reports[j]
      BY <2>1, <2>3, <2>4, StoredFacts DEF DaysInv
    <2>6. QED
      BY <1>1, <2>1, <2>3, <2>4, <2>5
  <1>4. QED
    BY <1>2, <1>3

-----------------------------------------------------------------------------
(* The days keep their shape through both changes.                         *)

LEMMA KeysStayApart ==
  ASSUME DaysInv, NEW d \in Day, NEW k \in Key, NEW from, NEW to,
         Requested(d, k) \/ Advanced(d, k, from, to)
  PROVE  OneDayPerKey'
PROOF
  <1> SUFFICES ASSUME NEW a \in Day, NEW b \in Day, NEW j \in Key,
                      days'[a].reports[j] # unrequested, days'[b].reports[j] # unrequested
               PROVE  a = b
    BY DEF OneDayPerKey
  <1>1. \A e \in Day : e # d => days'[e] = days[e]
    BY ChangeFacts
  <1>2. CASE j # k
    <2>1. days[a].reports[j] # unrequested /\ days[b].reports[j] # unrequested
      BY <1>1, <1>2, ChangeFacts
    <2>2. QED
      BY <2>1 DEF DaysInv, OneDayPerKey
  <1>3. CASE j = k
    <2>1. \A e \in Day : e # d => days[e].reports[k] = unrequested
      <3>1. CASE Requested(d, k)
        BY <3>1 DEF Requested, findByReportIdempotencyKey
      <3>2. CASE Advanced(d, k, from, to)
        BY <3>2 DEF Advanced, DaysInv, OneDayPerKey
      <3>3. QED
        BY <3>1, <3>2
    <2>2. QED
      BY <1>1, <1>3, <2>1
  <1>4. QED
    BY <1>2, <1>3

LEMMA RequestedFacts ==
  ASSUME DaysInv, NEW d \in Day, NEW k \in Key, Requested(d, k)
  PROVE  /\ \A e \in Day : days[e].reports[k] = unrequested
         /\ \/ days[d] = absentDay /\ findOpenByTerminal = {}
            \/ days[d].state = "DAY_OPEN"
         /\ days'[d].reports[k].status = "PENDING"
         /\ days'[d].reports[k].type \in ReportType
         /\ days'[d].state = IF days'[d].reports[k].type = "Z" THEN "Z_PENDING" ELSE "DAY_OPEN"
PROOF
  <1>0. days[d] \in FiscalDayRow /\ days[d].version \in Nat /\ days[d].reports[k] \in Report
    BY RowFields DEF DaysInv
  <1>1. PICK type \in ReportType, version \in Nat :
          /\ findByReportIdempotencyKey(k) = {}
          /\ \/ days[d].state = "ABSENT" /\ findOpenByTerminal = {} /\ version = 2
             \/ days[d].state = "DAY_OPEN" /\ version = days[d].version + 1
          /\ Stored(d, k, IF type = "Z" THEN "Z_PENDING" ELSE "DAY_OPEN", version,
                    [type |-> type, status |-> "PENDING"])
    BY DEF Requested
  <1>2. [type |-> type, status |-> "PENDING"] \in Report
    BY DEF Report
  <1>3. (IF type = "Z" THEN "Z_PENDING" ELSE "DAY_OPEN") \in {"DAY_OPEN", "Z_PENDING", "DAY_CLOSED"}
    OBVIOUS
  <1>4. /\ days'[d].state = IF type = "Z" THEN "Z_PENDING" ELSE "DAY_OPEN"
        /\ days'[d].reports[k] = [type |-> type, status |-> "PENDING"]
    BY <1>1, <1>2, <1>3, StoredFacts DEF DaysInv
  <1>5. \A e \in Day : days[e].reports[k] = unrequested
    BY <1>1 DEF findByReportIdempotencyKey
  <1>6. days[d].state = "ABSENT" => days[d] = absentDay
    BY DEF DaysInv, AbsentIsEmpty
  <1>7. QED
    BY <1>1, <1>4, <1>5, <1>6

LEMMA AdvancedFacts ==
  ASSUME DaysInv, NEW d \in Day, NEW k \in Key, NEW from, NEW to, Advanced(d, k, from, to)
  PROVE  /\ days'[d].reports[k].type = days[d].reports[k].type
         /\ days'[d].reports[k].status = to
         /\ days'[d].state = IF to = "ISSUED" /\ isZ(d, k) THEN "DAY_CLOSED" ELSE days[d].state
PROOF
  <1>0. days[d] \in FiscalDayRow /\ days[d].version \in Nat /\ days[d].reports[k] \in Report
    BY RowFields DEF DaysInv
  <1> DEFINE state == IF to = "ISSUED" /\ isZ(d, k) THEN "DAY_CLOSED" ELSE days[d].state
             rep == [type |-> days[d].reports[k].type, status |-> to]
  <1>1. days[d].state \in {"DAY_OPEN", "Z_PENDING"} /\ days[d].reports[k] # unrequested
        /\ to \in {"PRINTING", "ERROR", "ISSUED"}
        /\ Stored(d, k, state, days[d].version + 1, rep)
    BY DEF Advanced
  <1>2. days[d].reports[k].type \in ReportType
    BY <1>0, <1>1, ReportFields
  <1>3. rep \in Report
    BY <1>1, <1>2 DEF Report
  <1>4. state \in {"DAY_OPEN", "Z_PENDING", "DAY_CLOSED"} /\ days[d].version + 1 \in Nat
    BY <1>0, <1>1
  <1> HIDE DEF state, rep
  <1>5. days'[d].state = state /\ days'[d].reports[k] = rep
    BY <1>1, <1>3, <1>4, StoredFacts DEF DaysInv
  <1>6. QED
    BY <1>5 DEF state, rep

(* A day is opened only when no other is, and no day opens again.          *)
LEMMA OneDayStaysOpen ==
  ASSUME DaysInv, NEW d \in Day, NEW k \in Key, NEW from, NEW to,
         Requested(d, k) \/ Advanced(d, k, from, to)
  PROVE  OneOpenDay'
PROOF
  <1> DEFINE Unclosed == {"DAY_OPEN", "Z_PENDING"}
  <1>1. \A e \in Day : e # d => days'[e] = days[e]
    BY ChangeFacts
  <1>2. \/ \A e \in Day : days[e].state \notin Unclosed
        \/ days[d].state \in Unclosed
    <2>1. CASE Requested(d, k)
      BY <2>1, RequestedFacts DEF findOpenByTerminal
    <2>2. CASE Advanced(d, k, from, to)
      BY <2>2 DEF Advanced
    <2>3. QED
      BY <2>1, <2>2
  <1>3. \A e \in Day : e # d => days[e].state \notin Unclosed
    BY <1>2 DEF DaysInv, OneOpenDay, findOpenByTerminal
  <1>4. QED
    BY <1>1, <1>3 DEF OneOpenDay, findOpenByTerminal

(* The first Z of an open day makes it wait; that Z alone closes it.       *)
LEMMA ZStaysTheClosure ==
  ASSUME DaysInv, NEW d \in Day, NEW k \in Key, NEW from, NEW to,
         Requested(d, k) \/ Advanced(d, k, from, to)
  PROVE  ClosedByItsZ'
PROOF
  <1> SUFFICES ASSUME NEW e \in Day
               PROVE  /\ \A i, j \in Key : isZ(e, i)' /\ isZ(e, j)' => i = j
                      /\ days'[e].state = "Z_PENDING"
                         <=> \E j \in Key : isZ(e, j)' /\ days'[e].reports[j].status # "ISSUED"
                      /\ days'[e].state = "DAY_CLOSED"
                         <=> \E j \in Key : isZ(e, j)' /\ days'[e].reports[j].status = "ISSUED"
    BY DEF ClosedByItsZ
  <1>1. /\ \A i, j \in Key : isZ(e, i) /\ isZ(e, j) => i = j
        /\ days[e].state = "Z_PENDING"
             <=> \E j \in Key : isZ(e, j) /\ days[e].reports[j].status # "ISSUED"
        /\ days[e].state = "DAY_CLOSED"
             <=> \E j \in Key : isZ(e, j) /\ days[e].reports[j].status = "ISSUED"
    BY DEF DaysInv, ClosedByItsZ
  <1>2. CASE e # d
    <2>1. days'[e] = days[e]
      BY <1>2, ChangeFacts
    <2>2. QED
      BY <1>1, <2>1 DEF isZ
  <1>3. CASE e = d /\ Requested(d, k)
    <2>1. \A j \in Key : j # k => days'[d].reports[j] = days[d].reports[j]
      BY <1>3, ChangeFacts
    <2>2. \A j \in Key : ~isZ(d, j)
      <3>1. CASE days[d] = absentDay
        BY <3>1 DEF absentDay, unrequested, isZ
      <3>2. CASE days[d].state = "DAY_OPEN"
        BY <1>1, <1>3, <3>2
      <3>3. QED
        BY <1>3, <3>1, <3>2, RequestedFacts
    <2>3. /\ days'[d].reports[k].status = "PENDING"
          /\ days'[d].state = IF days'[d].reports[k].type = "Z" THEN "Z_PENDING" ELSE "DAY_OPEN"
      BY <1>3, RequestedFacts
    <2>4. QED
      BY <1>3, <2>1, <2>2, <2>3 DEF isZ
  <1>4. CASE e = d /\ Advanced(d, k, from, to)
    <2>1. \A j \in Key : j # k => days'[d].reports[j] = days[d].reports[j]
      BY <1>4, ChangeFacts
    <2>2. /\ days'[d].reports[k].type = days[d].reports[k].type
          /\ days'[d].reports[k].status = to
          /\ days'[d].state = IF to = "ISSUED" /\ isZ(d, k) THEN "DAY_CLOSED" ELSE days[d].state
      BY <1>4, AdvancedFacts
    <2>3. days[d].reports[k].status # "ISSUED" /\ days[d].state \in {"DAY_OPEN", "Z_PENDING"}
      BY <1>4 DEF Advanced
    <2>4. \A j \in Key : isZ(d, j)' <=> isZ(d, j)
      BY <2>1, <2>2 DEF isZ
    <2>5. CASE to = "ISSUED" /\ isZ(d, k)
      <3>1. \A j \in Key : isZ(d, j) => j = k
        BY <1>1, <1>4, <2>5
      <3>2. QED
        BY <1>4, <2>2, <2>4, <2>5, <3>1
    <2>6. CASE ~(to = "ISSUED" /\ isZ(d, k))
      <3>1. \A j \in Key : isZ(d, j) => (days'[d].reports[j].status = "ISSUED"
                                          <=> days[d].reports[j].status = "ISSUED")
        BY <2>1, <2>2, <2>3, <2>6
      <3>2. QED
        BY <1>1, <1>4, <2>2, <2>4, <2>6, <3>1
    <2>7. QED
      BY <2>5, <2>6
  <1>5. QED
    BY <1>2, <1>3, <1>4

LEMMA DaysInvStep ==
  ASSUME DaysInv, NEW d \in Day, NEW k \in Key, NEW from, NEW to,
         Requested(d, k) \/ Advanced(d, k, from, to)
  PROVE  DaysInv'
PROOF
  <1>1. AbsentIsEmpty'
    <2>1. \A e \in Day : e # d => days'[e] = days[e]
      BY ChangeFacts
    <2>2. days'[d].state # "ABSENT"
      BY ChangeFacts
    <2>3. QED
      BY <2>1, <2>2 DEF DaysInv, AbsentIsEmpty, absentDay, unrequested
  <1>2. (days \in [Day -> FiscalDayRow])'
    <2>1. days' \in [Day -> FiscalDayRow]
      BY ChangeFacts
    <2>2. QED
      BY <2>1 DEF FiscalDayRow, Report, unrequested, ReportType
  <1>3. QED
    BY <1>1, <1>2, KeysStayApart, OneDayStaysOpen, ZStaysTheClosure DEF DaysInv

-----------------------------------------------------------------------------
(* What each step of a request does to the days.                           *)

LEMMA DaysInvOfInv ==
  ASSUME FiscalDayInv
  PROVE  DaysInv
PROOF BY DEF FiscalDayInv, FiscalDayTypeOK, DaysInv

(* An accepted save of the next version finds the day as it was read.      *)
LEMMA CurrentCopy ==
  ASSUME FiscalDayInv, NEW f \in Flow, flow[f] # idle, NEW copy,
         copy.version = flow[f].copy.version + 1, accepts(flow[f].day, copy)
  PROVE  /\ flow[f].copy = row(f)
         /\ row(f).state \in {"DAY_OPEN", "Z_PENDING"}
         /\ row(f) \in FiscalDayRow
         /\ report(f) # unrequested
PROOF
  <1>1. flow[f].day \in Day /\ flow[f].key \in Key /\ flow[f].copy \in FiscalDayRow
    BY BusyFlow DEF FiscalDayInv
  <1>2. row(f) \in FiscalDayRow
    BY <1>1 DEF FiscalDayInv, FiscalDayTypeOK, row
  <1>3. /\ flow[f].copy.version <= row(f).version
        /\ flow[f].copy.version = row(f).version => flow[f].copy = row(f)
        /\ report(f) # unrequested
    BY DEF FiscalDayInv, CopiesAreOld
  <1>4. flow[f].copy.version \in Nat /\ row(f).version \in Nat
    BY <1>1, <1>2, RowFields
  <1>5. row(f).state # "DAY_CLOSED" /\ copy.version > row(f).version
    BY DEF accepts, row
  <1>6. flow[f].copy.version = row(f).version
    BY <1>3, <1>4, <1>5
  <1>7. row(f).state # "ABSENT"
    BY <1>1, <1>3 DEF FiscalDayInv, AbsentIsEmpty, row, report, absentDay
  <1>8. QED
    BY <1>1, <1>2, <1>3, <1>5, <1>6, <1>7, RowFields

LEMMA PrintFiscalReportStep ==
  ASSUME FiscalDayInv, NEW f \in Flow, NEW k \in Key, NEW d \in Day, NEW type \in ReportType,
         PrintFiscalReport(f, k, d, type)
  PROVE  /\ flow[f] = idle
         /\ flow' = [flow EXCEPT ![f] = [stage |-> "PREPARED", day |-> d, key |-> k, copy |-> days'[d]]]
         /\ days'[d].reports[k].status = "PENDING"
         /\ days' = days \/ Requested(d, k)
         /\ UNCHANGED <<printed, faults>>
PROOF
  <1> DEFINE day == IF days[d].state = "ABSENT" THEN open ELSE days[d]
             copy == requestReport(day, k, type)
  <1>0. days \in [Day -> FiscalDayRow] /\ days[d] \in FiscalDayRow
    BY DEF FiscalDayInv, FiscalDayTypeOK
  <1>1. flow[f] = idle /\ UNCHANGED <<printed, faults>>
    BY DEF PrintFiscalReport
  <1>2. CASE /\ findByReportIdempotencyKey(k) = {}
             /\ days[d].state = "ABSENT" => findOpenByTerminal = {}
             /\ day.state = "DAY_OPEN"
             /\ days' = [days EXCEPT ![d] = copy]
             /\ continue(f, "PREPARED", d, k, copy)
    <2>1. days'[d] = copy
      BY <1>0, <1>2
    <2>2. flow' = [flow EXCEPT ![f] = [stage |-> "PREPARED", day |-> d, key |-> k, copy |-> days'[d]]]
      BY <1>2, <2>1 DEF continue
    <2>3. day.reports = days[d].reports
      <3>1. CASE days[d].state = "ABSENT"
        <4>1. days[d] = absentDay
          BY <3>1 DEF FiscalDayInv, AbsentIsEmpty
        <4>2. open.reports = absentDay.reports
          BY DEF open, absentDay
        <4>3. QED
          BY <3>1, <4>1, <4>2
      <3>2. QED
        BY <3>1
    <2>4. day.version \in Nat /\ (days[d].state = "ABSENT" => day.version = 1)
      BY <1>0, RowFields DEF open, absentDay
    <2>5. copy = [state |-> IF type = "Z" THEN "Z_PENDING" ELSE "DAY_OPEN",
                  version |-> day.version + 1,
                  reports |-> [days[d].reports EXCEPT ![k] = [type |-> type, status |-> "PENDING"]]]
      BY <1>2, <2>3 DEF requestReport
    <2>6. days[d].reports \in [Key -> Report]
      BY <1>0, RowFields
    <2>7. days'[d].reports[k].status = "PENDING"
      BY <2>1, <2>5, <2>6
    <2>8. Stored(d, k, IF type = "Z" THEN "Z_PENDING" ELSE "DAY_OPEN", day.version + 1,
                 [type |-> type, status |-> "PENDING"])
      BY <1>2, <2>5 DEF Stored
    <2>9. \/ days[d].state = "ABSENT" /\ findOpenByTerminal = {} /\ day.version + 1 = 2
          \/ days[d].state = "DAY_OPEN" /\ day.version + 1 = days[d].version + 1
      BY <1>2, <2>4
    <2>10. Requested(d, k)
      BY <1>2, <2>4, <2>8, <2>9 DEF Requested
    <2>11. QED
      BY <1>1, <2>2, <2>7, <2>10
  <1>3. CASE /\ days[d].reports[k] = [type |-> type, status |-> "PENDING"]
             /\ continue(f, "PREPARED", d, k, days[d])
             /\ UNCHANGED days
    <2>1. days' = days
      BY <1>3
    <2>2. flow' = [flow EXCEPT ![f] = [stage |-> "PREPARED", day |-> d, key |-> k, copy |-> days'[d]]]
      BY <1>3, <2>1 DEF continue
    <2>3. days'[d].reports[k].status = "PENDING"
      BY <1>3, <2>1
    <2>4. QED
      BY <1>1, <2>1, <2>2, <2>3
  <1>4. QED
    BY <1>2, <1>3 DEF PrintFiscalReport

LEMMA TransitionOfRow ==
  ASSUME NEW r \in FiscalDayRow, NEW k \in Key, NEW status
  PROVE  transitionReport(r, k, status) =
           [state |-> r.state, version |-> r.version + 1,
            reports |-> [r.reports EXCEPT ![k] = [type |-> r.reports[k].type, status |-> status]]]
PROOF
  <1>1. r = [state |-> r.state, version |-> r.version, reports |-> r.reports]
    BY RowFields
  <1>2. r.reports \in [Key -> Report] /\ r.reports[k] \in Report
    BY RowFields
  <1>3. [r.reports[k] EXCEPT !.status = status] = [type |-> r.reports[k].type, status |-> status]
    BY <1>2 DEF Report, unrequested
  <1> DEFINE reports == [r.reports EXCEPT ![k].status = status]
  <1>4. transitionReport(r, k, status) = [r EXCEPT !.version = r.version + 1, !.reports = reports]
    BY Zenon DEF transitionReport
  <1>5. reports = [r.reports EXCEPT ![k] = [type |-> r.reports[k].type, status |-> status]]
    BY <1>2, <1>3
  <1> HIDE DEF reports
  <1>6. transitionReport(r, k, status) =
          [state |-> r.state, version |-> r.version + 1, reports |-> reports]
    BY <1>1, <1>4
  <1>7. QED
    BY <1>5, <1>6

LEMMA StartReportStep ==
  ASSUME FiscalDayInv, NEW f \in Flow, StartReport(f)
  PROVE  /\ flow[f] # idle /\ flow[f].stage = "PREPARED"
         /\ UNCHANGED <<printed, faults>>
         /\ \/ days' = days /\ finish(f)
            \/ /\ Advanced(flow[f].day, flow[f].key, "PENDING", "PRINTING")
               /\ flow' = [flow EXCEPT ![f] = [stage |-> "PRINTING", day |-> flow[f].day,
                                               key |-> flow[f].key, copy |-> days'[flow[f].day]]]
PROOF
  <1> DEFINE d == flow[f].day
             k == flow[f].key
             copy == startReport(flow[f].copy, k)
  <1>1. flow[f] # idle /\ flow[f].stage = "PREPARED" /\ UNCHANGED <<printed, faults>>
    BY DEF StartReport, idle
  <1>2. d \in Day /\ k \in Key /\ flow[f].copy \in FiscalDayRow
    BY <1>1, BusyFlow DEF FiscalDayInv
  <1>3. CASE accepts(d, copy) /\ days' = [days EXCEPT ![d] = copy]
             /\ continue(f, "PRINTING", d, k, copy)
    <2>1. copy = [state |-> flow[f].copy.state, version |-> flow[f].copy.version + 1,
                  reports |-> [flow[f].copy.reports EXCEPT
                                 ![k] = [type |-> flow[f].copy.reports[k].type, status |-> "PRINTING"]]]
      BY <1>2, TransitionOfRow DEF startReport
    <2>2. copy.version = flow[f].copy.version + 1
      BY <2>1
    <2>3. /\ flow[f].copy = days[d]
          /\ days[d].state \in {"DAY_OPEN", "Z_PENDING"}
          /\ days[d].reports[k] # unrequested
      BY <1>1, <1>3, <2>2, CurrentCopy DEF row, report
    <2>4. days[d].reports[k].status = "PENDING"
      BY <1>1, <2>3 DEF FiscalDayInv, CopiesAreOld
    <2>5. days \in [Day -> FiscalDayRow] /\ days'[d] = copy
      BY <1>2, <1>3 DEF FiscalDayInv, FiscalDayTypeOK
    <2>6. Stored(d, k, days[d].state, days[d].version + 1,
                 [type |-> days[d].reports[k].type, status |-> "PRINTING"])
      BY <1>3, <2>1, <2>3 DEF Stored
    <2>7. Advanced(d, k, "PENDING", "PRINTING")
      BY <2>3, <2>4, <2>6 DEF Advanced
    <2>8. flow' = [flow EXCEPT ![f] = [stage |-> "PRINTING", day |-> d, key |-> k, copy |-> days'[d]]]
      BY <1>3, <2>5 DEF continue
    <2>9. QED
      BY <1>1, <2>7, <2>8
  <1>4. CASE days' = days /\ finish(f)
    BY <1>1, <1>4
  <1>5. QED
    BY <1>3, <1>4 DEF StartReport

LEMMA RecordReportStep ==
  ASSUME FiscalDayInv, NEW f \in Flow, RecordReport(f)
  PROVE  /\ flow[f] # idle /\ flow[f].stage \in {"CONFIRMED", "FAILED"}
         /\ UNCHANGED <<printed, faults>>
         /\ finish(f)
         /\ \/ days' = days
            \/ \E to \in {"ERROR", "ISSUED"} : Advanced(flow[f].day, flow[f].key, "PRINTING", to)
PROOF
  <1> DEFINE d == flow[f].day
             k == flow[f].key
             to == IF flow[f].stage = "CONFIRMED" THEN "ISSUED" ELSE "ERROR"
             copy == IF flow[f].stage = "CONFIRMED" THEN markReportIssued(flow[f].copy, k)
                     ELSE recordReportError(flow[f].copy, k)
  <1>1. /\ flow[f] # idle /\ flow[f].stage \in {"CONFIRMED", "FAILED"}
        /\ UNCHANGED <<printed, faults>> /\ finish(f)
    BY DEF RecordReport, idle
  <1>2. d \in Day /\ k \in Key /\ flow[f].copy \in FiscalDayRow
    BY <1>1, BusyFlow DEF FiscalDayInv
  <1>3. ASSUME accepts(d, copy), days' = [days EXCEPT ![d] = copy]
        PROVE  Advanced(d, k, "PRINTING", to)
    <2> DEFINE state == IF to = "ISSUED" /\ flow[f].copy.reports[k].type = "Z"
                        THEN "DAY_CLOSED" ELSE flow[f].copy.state
    <2>1. copy = [state |-> state, version |-> flow[f].copy.version + 1,
                  reports |-> [flow[f].copy.reports EXCEPT
                                 ![k] = [type |-> flow[f].copy.reports[k].type, status |-> to]]]
      <3>1. transitionReport(flow[f].copy, k, to) =
              [state |-> flow[f].copy.state, version |-> flow[f].copy.version + 1,
               reports |-> [flow[f].copy.reports EXCEPT
                              ![k] = [type |-> flow[f].copy.reports[k].type, status |-> to]]]
        BY <1>2, TransitionOfRow
      <3>2. CASE flow[f].stage = "CONFIRMED"
        BY <3>1, <3>2 DEF markReportIssued
      <3>3. CASE flow[f].stage # "CONFIRMED"
        BY <3>1, <3>3 DEF recordReportError
      <3>4. QED
        BY <3>2, <3>3
    <2>2. copy.version = flow[f].copy.version + 1
      BY <2>1
    <2>3. /\ flow[f].copy = days[d]
          /\ days[d].state \in {"DAY_OPEN", "Z_PENDING"}
          /\ days[d].reports[k] # unrequested
      BY <1>1, <1>3, <2>2, CurrentCopy DEF row, report
    <2>4. /\ days[d].reports[k].status = "PRINTING"
          /\ flow[f].stage = "CONFIRMED" => printed[k] = 1
      BY <1>1 DEF FiscalDayInv, OneRequestPrints, Started, report, row
    <2>5. Stored(d, k, IF to = "ISSUED" /\ isZ(d, k) THEN "DAY_CLOSED" ELSE days[d].state,
                 days[d].version + 1, [type |-> days[d].reports[k].type, status |-> to])
      BY <1>3, <2>1, <2>3 DEF Stored, isZ
    <2>6. to = "ERROR" \/ (to = "ISSUED" /\ printed[k] = 1)
      BY <2>4
    <2>7. QED
      BY <2>3, <2>4, <2>5, <2>6 DEF Advanced
  <1>4. to \in {"ERROR", "ISSUED"}
    OBVIOUS
  <1>5. days' = days \/ (accepts(d, copy) /\ days' = [days EXCEPT ![d] = copy])
    BY DEF RecordReport
  <1>6. days' = days \/ Advanced(d, k, "PRINTING", to)
    BY <1>3, <1>5
  <1>7. QED
    BY <1>1, <1>4, <1>6

LEMMA PrintReportStep ==
  ASSUME FiscalDayInv, NEW f \in Flow, PrintReport(f)
  PROVE  /\ flow[f] # idle /\ flow[f].stage = "PRINTING"
         /\ days' = days /\ faults' \in 0..MaxFaults
         /\ \E stage \in {"CONFIRMED", "FAILED"} :
              /\ flow' = [flow EXCEPT ![f] = [stage |-> stage, day |-> flow[f].day,
                                              key |-> flow[f].key, copy |-> flow[f].copy]]
              /\ \/ printed' = [printed EXCEPT ![flow[f].key] = 1]
                 \/ stage = "FAILED" /\ printed' = printed
PROOF
  <1>1. flow[f] # idle /\ flow[f].stage = "PRINTING" /\ days' = days
    BY DEF PrintReport, idle
  <1>2. printed[flow[f].key] = 0
    BY <1>1 DEF FiscalDayInv, OneRequestPrints, Started
  <1>3. faults' \in 0..MaxFaults
    BY FiscalDayConstants DEF PrintReport, Fault, FiscalDayInv, FiscalDayTypeOK
  <1>4. QED
    BY <1>1, <1>2, <1>3 DEF PrintReport, continue

-----------------------------------------------------------------------------
(* The parts of the invariant that speak of one request.                   *)
CopyIsOld(f) ==
  flow[f] # idle =>
    /\ flow[f].copy.version <= row(f).version
    /\ flow[f].copy.version = row(f).version => flow[f].copy = row(f)
    /\ report(f) # unrequested
    /\ flow[f].stage = "PREPARED" => flow[f].copy.reports[flow[f].key].status = "PENDING"

PrintsAlone(f) ==
  flow[f].stage \in Started =>
    /\ report(f).status = "PRINTING"
    /\ flow[f].stage = "PRINTING" => printed[flow[f].key] = 0
    /\ flow[f].stage = "CONFIRMED" => printed[flow[f].key] = 1
    /\ \A g \in Flow \ {f} : flow[g].stage \in Started => flow[g].key # flow[f].key

LEMMA ByRequest ==
  /\ CopiesAreOld <=> \A f \in Flow : CopyIsOld(f)
  /\ OneRequestPrints <=> \A f \in Flow : PrintsAlone(f)
PROOF BY DEF CopiesAreOld, OneRequestPrints, CopyIsOld, PrintsAlone

(* The copy of a request that rests only gets older.                       *)
LEMMA OtherCopies ==
  ASSUME FiscalDayInv, NEW d \in Day, NEW k \in Key, NEW from, NEW to,
         Requested(d, k) \/ Advanced(d, k, from, to),
         NEW g \in Flow, flow'[g] = flow[g]
  PROVE  CopyIsOld(g)'
PROOF
  <1> SUFFICES ASSUME flow[g] # idle
               PROVE  /\ flow[g].copy.version <= days'[flow[g].day].version
                      /\ flow[g].copy.version = days'[flow[g].day].version
                           => flow[g].copy = days'[flow[g].day]
                      /\ days'[flow[g].day].reports[flow[g].key] # unrequested
                      /\ flow[g].stage = "PREPARED"
                           => flow[g].copy.reports[flow[g].key].status = "PENDING"
    BY DEF CopyIsOld, row, report, idle, absentDay, unrequested
  <1> DEFINE e == flow[g].day
             j == flow[g].key
  <1>1. e \in Day /\ j \in Key /\ flow[g].copy \in FiscalDayRow
    BY BusyFlow DEF FiscalDayInv
  <1>2. /\ flow[g].copy.version <= days[e].version
        /\ flow[g].copy.version = days[e].version => flow[g].copy = days[e]
        /\ days[e].reports[j] # unrequested
        /\ flow[g].stage = "PREPARED" => flow[g].copy.reports[j].status = "PENDING"
    BY DEF FiscalDayInv, CopiesAreOld, row, report
  <1>3. /\ \A c \in Day : c # d => days'[c] = days[c]
        /\ days'[d].version > days[d].version
        /\ days'[d].reports[k] # unrequested
        /\ \A i \in Key : i # k => days'[d].reports[i] = days[d].reports[i]
        /\ days' \in [Day -> FiscalDayRow]
    BY DaysInvOfInv, ChangeFacts
  <1>4. CASE e # d
    BY <1>1, <1>2, <1>3, <1>4
  <1>5. CASE e = d
    <2>1. flow[g].copy.version \in Nat /\ days[d].version \in Nat /\ days'[d].version \in Nat
      BY <1>1, <1>3, RowFields DEF FiscalDayInv, FiscalDayTypeOK
    <2>2. days'[d].reports[j] # unrequested
      BY <1>1, <1>2, <1>3, <1>5
    <2>3. QED
      BY <1>2, <1>3, <1>5, <2>1, <2>2
  <1>6. QED
    BY <1>4, <1>5

(* A report that is PRINTING stays so until its own request records it.    *)
LEMMA OtherPrintings ==
  ASSUME FiscalDayInv, NEW d \in Day, NEW k \in Key, NEW from, NEW to,
         Requested(d, k) \/ Advanced(d, k, from, to),
         NEW g \in Flow, flow[g].stage \in Started,
         from = "PRINTING" => flow[g].key # k
  PROVE  days'[flow[g].day].reports[flow[g].key].status = "PRINTING"
PROOF
  <1> DEFINE e == flow[g].day
             j == flow[g].key
  <1>1. flow[g] # idle
    BY DEF Started, idle
  <1>2. e \in Day /\ j \in Key
    BY <1>1, BusyFlow DEF FiscalDayInv
  <1>3. days[e].reports[j].status = "PRINTING"
    BY DEF FiscalDayInv, OneRequestPrints, row, report
  <1>4. days[e].reports[j] # unrequested
    BY <1>3 DEF unrequested
  <1>5. /\ \A c \in Day : c # d => days'[c] = days[c]
        /\ \A i \in Key : i # k => days'[d].reports[i] = days[d].reports[i]
    BY DaysInvOfInv, ChangeFacts
  <1>6. ~(e = d /\ j = k)
    <2>1. CASE Requested(d, k)
      BY <1>2, <1>4, <2>1 DEF Requested, findByReportIdempotencyKey
    <2>2. CASE Advanced(d, k, from, to)
      BY <1>3, <2>2 DEF Advanced
    <2>3. QED
      BY <2>1, <2>2
  <1>7. QED
    BY <1>2, <1>3, <1>5, <1>6

LEMMA TypeOfRow ==
  ASSUME FiscalDayInv, NEW d \in Day, NEW k \in Key, NEW from, NEW to,
         \/ days' = days \/ Requested(d, k) \/ Advanced(d, k, from, to)
  PROVE  days' \in [Day -> FiscalDayRow]
PROOF
  <1>1. CASE days' = days
    BY <1>1 DEF FiscalDayInv, FiscalDayTypeOK
  <1>2. CASE Requested(d, k) \/ Advanced(d, k, from, to)
    BY <1>2, DaysInvOfInv, ChangeFacts
  <1>3. QED
    BY <1>1, <1>2

(* What the device committed is started, and what is ISSUED was committed. *)
LEMMA PrintedStaysStored ==
  ASSUME FiscalDayInv, NEW d \in Day, NEW k \in Key, NEW from, NEW to,
         Requested(d, k) \/ Advanced(d, k, from, to), printed' = printed
  PROVE  PrintedIsStarted' /\ ReportsPrintedOnce'
PROOF
  <1> DEFINE After == {"PRINTING", "ERROR", "ISSUED"}
  <1>0. DaysInv
    BY DaysInvOfInv
  <1>1. /\ \A c \in Day : c # d => days'[c] = days[c]
        /\ \A i \in Key : i # k => days'[d].reports[i] = days[d].reports[i]
    BY <1>0, ChangeFacts
  <1>2. days[d].reports[k].status \in After => days'[d].reports[k].status \in After
    <2>1. CASE Requested(d, k)
      BY <1>0, <2>1, RequestedFacts DEF unrequested
    <2>2. CASE Advanced(d, k, from, to)
      <3>1. to \in After
        BY <2>2 DEF Advanced
      <3>2. days'[d].reports[k].status = to
        BY <1>0, <2>2, AdvancedFacts
      <3>3. QED
        BY <3>1, <3>2
    <2>3. QED
      BY <2>1, <2>2
  <1>3. days'[d].reports[k].status = "ISSUED" => printed[k] = 1
    <2>1. CASE Requested(d, k)
      BY <1>0, <2>1, RequestedFacts
    <2>2. CASE Advanced(d, k, from, to)
      <3>1. to = "ISSUED" => printed[k] = 1
        BY <2>2 DEF Advanced
      <3>2. days'[d].reports[k].status = to
        BY <1>0, <2>2, AdvancedFacts
      <3>3. QED
        BY <3>1, <3>2
    <2>3. QED
      BY <2>1, <2>2
  <1>4. PrintedIsStarted'
    <2>1. SUFFICES ASSUME NEW j \in Key, printed[j] # 0
                   PROVE  \E e \in Day : days'[e].reports[j].status \in After
      BY DEF PrintedIsStarted
    <2>2. PICK e \in Day : days[e].reports[j].status \in After
      BY <2>1 DEF FiscalDayInv, PrintedIsStarted
    <2>3. days'[e].reports[j].status \in After
      BY <1>1, <1>2, <2>2
    <2>4. QED
      BY <2>3
  <1>5. ReportsPrintedOnce'
    BY <1>1, <1>3 DEF FiscalDayInv, ReportsPrintedOnce
  <1>6. QED
    BY <1>4, <1>5

-----------------------------------------------------------------------------
(* Every step keeps the invariant.                                         *)

LEMMA PrintFiscalReportKeepsInv ==
  ASSUME FiscalDayInv, NEW f \in Flow, NEW k \in Key, NEW d \in Day, NEW type \in ReportType,
         PrintFiscalReport(f, k, d, type)
  PROVE  FiscalDayInv'
PROOF
  <1> DEFINE prepared == [stage |-> "PREPARED", day |-> d, key |-> k, copy |-> days'[d]]
  <1>1. /\ flow[f] = idle /\ flow' = [flow EXCEPT ![f] = prepared]
        /\ days'[d].reports[k].status = "PENDING"
        /\ days' = days \/ Requested(d, k)
        /\ UNCHANGED <<printed, faults>>
    BY PrintFiscalReportStep
  <1>2. days' \in [Day -> FiscalDayRow]
    BY <1>1, TypeOfRow
  <1>3. prepared \in Busy
    BY <1>2 DEF Busy
  <1> HIDE DEF prepared
  <1>4. flow'[f] = prepared /\ \A g \in Flow : g # f => flow'[g] = flow[g]
    BY <1>1 DEF FiscalDayInv, FiscalDayTypeOK
  <1>5. FiscalDayTypeOK'
    <2>1. flow' \in [Flow -> Busy \cup {idle}]
      BY <1>1, <1>3 DEF FiscalDayInv, FiscalDayTypeOK
    <2>2. QED
      BY <1>1, <1>2, <2>1 DEF FiscalDayInv, FiscalDayTypeOK, FiscalDayRow, Busy, idle
  <1>6. CASE Requested(d, k)
    <2>1. DaysInv'
      BY <1>6, DaysInvOfInv, DaysInvStep
    <2>2. \A g \in Flow : CopyIsOld(g)'
      <3>1. CopyIsOld(f)'
        <4>1. days'[d].reports[k] # unrequested
          BY <1>1 DEF unrequested
        <4>2. days'[d].version \in Nat
          BY <1>2, RowFields
        <4>3. QED
          BY <1>1, <1>4, <4>1, <4>2 DEF CopyIsOld, prepared, row, report, unrequested
      <3>2. \A g \in Flow : g # f => CopyIsOld(g)'
        BY <1>4, <1>6, OtherCopies
      <3>3. QED
        BY <3>1, <3>2
    <2>3. \A g \in Flow : PrintsAlone(g)'
      <3>1. ~(flow'[f].stage \in Started)
        BY <1>4 DEF prepared, Started
      <3>2. ASSUME NEW g \in Flow, g # f, flow[g].stage \in Started
            PROVE  days'[flow[g].day].reports[flow[g].key].status = "PRINTING"
        <4>1. Requested(d, k) \/ Advanced(d, k, "PENDING", "PRINTING")
          BY <1>6
        <4>2. QED
          BY <3>2, <4>1, OtherPrintings
      <3>3. QED
        BY <1>1, <1>4, <3>1, <3>2 DEF FiscalDayInv, OneRequestPrints, PrintsAlone, row, report, Started
    <2>4. PrintedIsStarted' /\ ReportsPrintedOnce'
      BY <1>1, <1>6, PrintedStaysStored
    <2>5. QED
      BY <1>5, <2>1, <2>2, <2>3, <2>4 DEF FiscalDayInv, DaysInv, CopiesAreOld, OneRequestPrints,
         CopyIsOld, PrintsAlone
  <1>7. CASE days' = days
    <2>1. \A g \in Flow : CopyIsOld(g)'
      <3>1. CopyIsOld(f)'
        <4>1. days'[d].reports[k] # unrequested
          BY <1>1 DEF unrequested
        <4>2. days'[d].version \in Nat
          BY <1>2, RowFields
        <4>3. QED
          BY <1>1, <1>4, <4>1, <4>2 DEF CopyIsOld, prepared, row, report, unrequested
      <3>2. \A g \in Flow : g # f => CopyIsOld(g)'
        BY <1>4, <1>7 DEF FiscalDayInv, CopiesAreOld, CopyIsOld, row, report
      <3>3. QED
        BY <3>1, <3>2
    <2>2. \A g \in Flow : PrintsAlone(g)'
      BY <1>1, <1>4, <1>7 DEF FiscalDayInv, OneRequestPrints, PrintsAlone, row, report, prepared, Started
    <2>3. QED
      BY <1>1, <1>5, <1>7, <2>1, <2>2 DEF FiscalDayInv, AbsentIsEmpty, OneDayPerKey, OneOpenDay,
         findOpenByTerminal, CopiesAreOld, OneRequestPrints, CopyIsOld, PrintsAlone, PrintedIsStarted,
         ReportsPrintedOnce, ClosedByItsZ, isZ
  <1>8. QED
    BY <1>1, <1>6, <1>7

(* A request that ends, and nothing else.                                  *)
LEMMA EndedKeepsInv ==
  ASSUME FiscalDayInv, NEW f \in Flow, finish(f), days' = days, printed' = printed,
         faults' \in 0..MaxFaults
  PROVE  FiscalDayInv'
PROOF
  <1>1. flow'[f] = idle /\ \A g \in Flow : g # f => flow'[g] = flow[g]
    BY DEF finish, FiscalDayInv, FiscalDayTypeOK
  <1>2. FiscalDayTypeOK'
    BY DEF finish, FiscalDayInv, FiscalDayTypeOK, FiscalDayRow, Busy, idle
  <1>3. \A g \in Flow : CopyIsOld(g)'
    BY <1>1 DEF FiscalDayInv, CopiesAreOld, CopyIsOld, row, report
  <1>4. \A g \in Flow : PrintsAlone(g)'
    BY <1>1 DEF FiscalDayInv, OneRequestPrints, PrintsAlone, row, report, idle, Started
  <1>5. QED
    BY <1>2, <1>3, <1>4 DEF FiscalDayInv, AbsentIsEmpty, OneDayPerKey, OneOpenDay,
       findOpenByTerminal, CopiesAreOld, OneRequestPrints, CopyIsOld, PrintsAlone, PrintedIsStarted,
       ReportsPrintedOnce, ClosedByItsZ, isZ

LEMMA StartReportKeepsInv ==
  ASSUME FiscalDayInv, NEW f \in Flow, StartReport(f)
  PROVE  FiscalDayInv'
PROOF
  <1> DEFINE d == flow[f].day
             k == flow[f].key
             printing == [stage |-> "PRINTING", day |-> d, key |-> k, copy |-> days'[d]]
  <1>1. /\ flow[f] # idle /\ flow[f].stage = "PREPARED" /\ UNCHANGED <<printed, faults>>
        /\ \/ days' = days /\ finish(f)
           \/ Advanced(d, k, "PENDING", "PRINTING") /\ flow' = [flow EXCEPT ![f] = printing]
    BY StartReportStep
  <1>2. d \in Day /\ k \in Key
    BY <1>1, BusyFlow DEF FiscalDayInv
  <1> HIDE DEF d, k, printing
  <1>3. CASE days' = days /\ finish(f)
    <2>1. faults' \in 0..MaxFaults
      BY <1>1 DEF FiscalDayInv, FiscalDayTypeOK
    <2>2. QED
      BY <1>1, <1>3, <2>1, EndedKeepsInv
  <1>4. CASE Advanced(d, k, "PENDING", "PRINTING") /\ flow' = [flow EXCEPT ![f] = printing]
    <2>1. DaysInv'
      BY <1>2, <1>4, DaysInvOfInv, DaysInvStep
    <2>2. days' \in [Day -> FiscalDayRow]
      BY <1>2, <1>4, TypeOfRow
    <2>3. flow'[f] = printing /\ \A g \in Flow : g # f => flow'[g] = flow[g]
      BY <1>4 DEF FiscalDayInv, FiscalDayTypeOK
    <2>4. FiscalDayTypeOK'
      <3>1. printing \in Busy
        BY <1>2, <2>2 DEF Busy, printing
      <3>2. flow' \in [Flow -> Busy \cup {idle}]
        BY <1>4, <3>1 DEF FiscalDayInv, FiscalDayTypeOK
      <3>3. QED
        BY <1>1, <2>2, <3>2 DEF FiscalDayInv, FiscalDayTypeOK, FiscalDayRow, Busy, idle
    <2>5. days'[d].reports[k].status = "PRINTING"
      BY <1>2, <1>4, DaysInvOfInv, AdvancedFacts
    <2>6. \A g \in Flow : CopyIsOld(g)'
      <3>1. CopyIsOld(f)'
        <4>1. days'[d].reports[k] # unrequested
          BY <2>5 DEF unrequested
        <4>2. days'[d].version \in Nat
          BY <1>2, <2>2, RowFields
        <4>3. QED
          BY <2>3, <4>1, <4>2 DEF CopyIsOld, printing, row, report, unrequested
      <3>2. \A g \in Flow : g # f => CopyIsOld(g)'
        BY <1>2, <1>4, <2>3, OtherCopies
      <3>3. QED
        BY <3>1, <3>2
    <2>7. days[d].reports[k].status = "PENDING" /\ days[d].reports[k] # unrequested
      BY <1>4 DEF Advanced
    <2>8. ASSUME NEW g \in Flow, g # f, flow[g].stage \in Started
          PROVE  flow[g].key # k
      <3>1. flow[g].day \in Day /\ flow[g].key \in Key
        BY <2>8, BusyFlow DEF FiscalDayInv, Started, idle
      <3>2. days[flow[g].day].reports[flow[g].key].status = "PRINTING"
        BY <2>8 DEF FiscalDayInv, OneRequestPrints, row, report
      <3>3. QED
        BY <1>2, <2>7, <3>1, <3>2 DEF FiscalDayInv, OneDayPerKey, unrequested
    <2>9. printed[k] = 0
      <3>1. SUFFICES ASSUME printed[k] # 0 PROVE FALSE
        OBVIOUS
      <3>2. PICK e \in Day : days[e].reports[k].status \in {"PRINTING", "ERROR", "ISSUED"}
        BY <1>2, <3>1 DEF FiscalDayInv, PrintedIsStarted
      <3>3. QED
        BY <1>2, <2>7, <3>2 DEF FiscalDayInv, OneDayPerKey, unrequested
    <2>10. \A g \in Flow : PrintsAlone(g)'
      <3>1. PrintsAlone(f)'
        BY <1>1, <2>3, <2>5, <2>8, <2>9 DEF PrintsAlone, printing, row, report, Started
      <3>2. ASSUME NEW g \in Flow, g # f, flow[g].stage \in Started
            PROVE  days'[flow[g].day].reports[flow[g].key].status = "PRINTING"
        BY <1>2, <1>4, <3>2, OtherPrintings
      <3>3. ASSUME NEW g \in Flow, g # f
            PROVE  PrintsAlone(g)'
        BY <1>1, <2>3, <2>8, <3>2, <3>3 DEF FiscalDayInv, OneRequestPrints, PrintsAlone, printing,
           row, report, Started
      <3>4. QED
        BY <3>1, <3>3
    <2>11. PrintedIsStarted' /\ ReportsPrintedOnce'
      BY <1>1, <1>2, <1>4, PrintedStaysStored
    <2>12. QED
      BY <2>1, <2>4, <2>6, <2>10, <2>11 DEF FiscalDayInv, DaysInv, CopiesAreOld, OneRequestPrints,
         CopyIsOld, PrintsAlone
  <1>5. QED
    BY <1>1, <1>3, <1>4

LEMMA PrintReportKeepsInv ==
  ASSUME FiscalDayInv, NEW f \in Flow, PrintReport(f)
  PROVE  FiscalDayInv'
PROOF
  <1> DEFINE d == flow[f].day
             k == flow[f].key
             answered(stage) == [stage |-> stage, day |-> d, key |-> k, copy |-> flow[f].copy]
  <1>1. PICK stage \in {"CONFIRMED", "FAILED"} :
          /\ flow' = [flow EXCEPT ![f] = answered(stage)]
          /\ \/ printed' = [printed EXCEPT ![k] = 1]
             \/ stage = "FAILED" /\ printed' = printed
    BY PrintReportStep
  <1>2. flow[f] # idle /\ flow[f].stage = "PRINTING" /\ days' = days /\ faults' \in 0..MaxFaults
    BY PrintReportStep
  <1>3. d \in Day /\ k \in Key /\ flow[f].copy \in FiscalDayRow
    BY <1>2, BusyFlow DEF FiscalDayInv
  <1> DEFINE after == answered(stage)
  <1>4. after \in Busy /\ after # idle
    BY <1>3 DEF Busy, idle
  <1>5. /\ after.stage = stage /\ after.day = d /\ after.key = k /\ after.copy = flow[f].copy
    OBVIOUS
  <1> HIDE DEF d, k, after
  <1>6. flow' = [flow EXCEPT ![f] = after]
    BY <1>1 DEF after, d, k
  <1>7. flow'[f] = after /\ \A g \in Flow : g # f => flow'[g] = flow[g]
    BY <1>6 DEF FiscalDayInv, FiscalDayTypeOK
  <1>8. /\ \A j \in Key : j # k => printed'[j] = printed[j]
        /\ printed'[k] = 1 \/ (stage = "FAILED" /\ printed'[k] = printed[k])
        /\ printed' \in [Key -> Nat]
    BY <1>1, <1>3 DEF FiscalDayInv, FiscalDayTypeOK
  <1>9. FiscalDayTypeOK'
    <2>1. flow' \in [Flow -> Busy \cup {idle}]
      BY <1>4, <1>6 DEF FiscalDayInv, FiscalDayTypeOK
    <2>2. QED
      BY <1>2, <1>8, <2>1 DEF FiscalDayInv, FiscalDayTypeOK, FiscalDayRow, Busy, idle
  <1>10. \A g \in Flow : CopyIsOld(g)'
    <2>1. CopyIsOld(f)'
      BY <1>1, <1>2, <1>5, <1>7 DEF FiscalDayInv, CopiesAreOld, CopyIsOld, row, report, d, k
    <2>2. \A g \in Flow : g # f => CopyIsOld(g)'
      BY <1>2, <1>7 DEF FiscalDayInv, CopiesAreOld, CopyIsOld, row, report
    <2>3. QED
      BY <2>1, <2>2
  <1>11. /\ days[d].reports[k].status = "PRINTING" /\ printed[k] = 0
         /\ \A g \in Flow \ {f} : flow[g].stage \in Started => flow[g].key # k
    BY <1>2 DEF FiscalDayInv, OneRequestPrints, row, report, d, k, Started
  <1>12. \A g \in Flow : PrintsAlone(g)'
    <2>1. PrintsAlone(f)'
      BY <1>1, <1>2, <1>5, <1>7, <1>8, <1>11 DEF PrintsAlone, row, report, Started
    <2>2. ASSUME NEW g \in Flow, g # f, flow[g].stage \in Started
          PROVE  PrintsAlone(g)'
      <3>1. flow[g].key \in Key /\ flow[g].key # k
        BY <1>11, <2>2, BusyFlow DEF FiscalDayInv, Started, idle
      <3>2. PrintsAlone(g)
        BY DEF FiscalDayInv, OneRequestPrints, PrintsAlone
      <3>3. printed'[flow[g].key] = printed[flow[g].key]
        BY <1>8, <3>1
      <3>4. \A h \in Flow \ {g} : flow'[h].stage \in Started => flow'[h].key # flow[g].key
        BY <1>5, <1>7, <2>2, <3>1, <3>2 DEF PrintsAlone
      <3>5. QED
        BY <1>2, <1>7, <2>2, <3>2, <3>3, <3>4 DEF PrintsAlone, row, report
    <2>3. QED
      BY <1>7, <2>1, <2>2 DEF PrintsAlone
  <1>13. PrintedIsStarted' /\ ReportsPrintedOnce'
    <2>1. PrintedIsStarted'
      BY <1>2, <1>3, <1>8, <1>11 DEF FiscalDayInv, PrintedIsStarted
    <2>2. \A e \in Day : days[e].reports[k].status # "ISSUED"
      BY <1>3, <1>11 DEF FiscalDayInv, OneDayPerKey, unrequested
    <2>3. ReportsPrintedOnce'
      BY <1>2, <1>3, <1>8, <1>11, <2>2 DEF FiscalDayInv, ReportsPrintedOnce
    <2>4. QED
      BY <2>1, <2>3
  <1>14. QED
    BY <1>2, <1>9, <1>10, <1>12, <1>13 DEF FiscalDayInv, AbsentIsEmpty, OneDayPerKey, OneOpenDay,
       findOpenByTerminal, CopiesAreOld, OneRequestPrints, CopyIsOld, PrintsAlone, ClosedByItsZ, isZ

LEMMA RecordReportKeepsInv ==
  ASSUME FiscalDayInv, NEW f \in Flow, RecordReport(f)
  PROVE  FiscalDayInv'
PROOF
  <1> DEFINE d == flow[f].day
             k == flow[f].key
  <1>1. /\ flow[f] # idle /\ flow[f].stage \in {"CONFIRMED", "FAILED"}
        /\ UNCHANGED <<printed, faults>> /\ finish(f)
        /\ days' = days \/ \E to \in {"ERROR", "ISSUED"} : Advanced(d, k, "PRINTING", to)
    BY RecordReportStep
  <1>2. d \in Day /\ k \in Key
    BY <1>1, BusyFlow DEF FiscalDayInv
  <1>3. \A g \in Flow \ {f} : flow[g].stage \in Started => flow[g].key # k
    BY <1>1 DEF FiscalDayInv, OneRequestPrints, Started
  <1> HIDE DEF d, k
  <1>4. CASE days' = days
    <2>1. faults' \in 0..MaxFaults
      BY <1>1 DEF FiscalDayInv, FiscalDayTypeOK
    <2>2. QED
      BY <1>1, <1>4, <2>1, EndedKeepsInv
  <1>5. ASSUME NEW to \in {"ERROR", "ISSUED"}, Advanced(d, k, "PRINTING", to)
        PROVE  FiscalDayInv'
    <2>1. DaysInv'
      BY <1>2, <1>5, DaysInvOfInv, DaysInvStep
    <2>2. days' \in [Day -> FiscalDayRow]
      BY <1>2, <1>5, TypeOfRow
    <2>3. flow'[f] = idle /\ \A g \in Flow : g # f => flow'[g] = flow[g]
      BY <1>1 DEF finish, FiscalDayInv, FiscalDayTypeOK
    <2>4. FiscalDayTypeOK'
      <3>1. flow' \in [Flow -> Busy \cup {idle}]
        BY <1>1 DEF finish, FiscalDayInv, FiscalDayTypeOK
      <3>2. QED
        BY <1>1, <2>2, <3>1 DEF FiscalDayInv, FiscalDayTypeOK, FiscalDayRow, Busy, idle
    <2>5. \A g \in Flow : CopyIsOld(g)'
      <3>1. \A g \in Flow : g # f => CopyIsOld(g)'
        BY <1>2, <1>5, <2>3, OtherCopies
      <3>2. QED
        BY <2>3, <3>1 DEF CopyIsOld
    <2>6. \A g \in Flow : PrintsAlone(g)'
      <3>1. ~(flow'[f].stage \in Started)
        BY <2>3 DEF idle, Started
      <3>2. ASSUME NEW g \in Flow, g # f, flow[g].stage \in Started
            PROVE  days'[flow[g].day].reports[flow[g].key].status = "PRINTING"
        BY <1>2, <1>3, <1>5, <3>2, OtherPrintings
      <3>3. QED
        BY <1>1, <2>3, <3>1, <3>2 DEF FiscalDayInv, OneRequestPrints, PrintsAlone, row, report
    <2>7. PrintedIsStarted' /\ ReportsPrintedOnce'
      BY <1>1, <1>2, <1>5, PrintedStaysStored
    <2>8. QED
      BY <2>1, <2>4, <2>5, <2>6, <2>7 DEF FiscalDayInv, DaysInv, CopiesAreOld, OneRequestPrints,
         CopyIsOld, PrintsAlone
  <1>6. QED
    BY <1>1, <1>4, <1>5

LEMMA RestartKeepsInv ==
  ASSUME FiscalDayInv, Restart
  PROVE  FiscalDayInv'
PROOF
  <1>1. \A f \in Flow : flow'[f] = idle
    BY DEF Restart
  <1>2. FiscalDayTypeOK'
    BY FiscalDayConstants DEF Restart, Fault, FiscalDayInv, FiscalDayTypeOK, FiscalDayRow, Busy, idle
  <1>3. CopiesAreOld' /\ OneRequestPrints'
    BY <1>1 DEF CopiesAreOld, OneRequestPrints, idle, Started
  <1>4. QED
    BY <1>2, <1>3 DEF Restart, FiscalDayInv, AbsentIsEmpty, OneDayPerKey, OneOpenDay,
       findOpenByTerminal, PrintedIsStarted, ReportsPrintedOnce, ClosedByItsZ, isZ

LEMMA FiscalDayInitInv == FiscalDayInit => FiscalDayInv
PROOF
  <1> SUFFICES ASSUME FiscalDayInit PROVE FiscalDayInv
    OBVIOUS
  <1>1. absentDay \in FiscalDayRow /\ absentDay.state = "ABSENT"
        /\ \A k \in Key : absentDay.reports[k] = unrequested
    BY DEF absentDay, FiscalDayRow, Report
  <1>2. FiscalDayTypeOK
    BY <1>1, FiscalDayConstants DEF FiscalDayInit, FiscalDayTypeOK
  <1>3. AbsentIsEmpty /\ OneDayPerKey /\ OneOpenDay /\ CopiesAreOld
    BY <1>1 DEF FiscalDayInit, AbsentIsEmpty, OneDayPerKey, OneOpenDay, findOpenByTerminal, CopiesAreOld
  <1>4. OneRequestPrints /\ PrintedIsStarted
    BY DEF FiscalDayInit, OneRequestPrints, PrintedIsStarted, idle, Started
  <1>5. ReportsPrintedOnce /\ ClosedByItsZ
    BY <1>1 DEF FiscalDayInit, ReportsPrintedOnce, ClosedByItsZ, isZ, unrequested
  <1>6. QED
    BY <1>2, <1>3, <1>4, <1>5 DEF FiscalDayInv

LEMMA FiscalDayStepInv == FiscalDayInv /\ [FiscalDayNext]_fiscalDayVars => FiscalDayInv'
PROOF
  <1> SUFFICES ASSUME FiscalDayInv, [FiscalDayNext]_fiscalDayVars PROVE FiscalDayInv'
    OBVIOUS
  <1>1. CASE UNCHANGED fiscalDayVars
    BY <1>1 DEF fiscalDayVars, FiscalDayInv, FiscalDayTypeOK, AbsentIsEmpty, OneDayPerKey, OneOpenDay,
       findOpenByTerminal, CopiesAreOld, OneRequestPrints, PrintedIsStarted, ReportsPrintedOnce,
       ClosedByItsZ, isZ, row, report, FiscalDayRow, Busy, idle
  <1>2. CASE Restart
    BY <1>2, RestartKeepsInv
  <1>3. ASSUME NEW f \in Flow, ReportStep(f) PROVE FiscalDayInv'
    <2>1. CASE \E k \in Key, d \in Day, type \in ReportType : PrintFiscalReport(f, k, d, type)
      BY <2>1, PrintFiscalReportKeepsInv
    <2>2. CASE StartReport(f)
      BY <2>2, StartReportKeepsInv
    <2>3. CASE PrintReport(f)
      BY <2>3, PrintReportKeepsInv
    <2>4. CASE RecordReport(f)
      BY <2>4, RecordReportKeepsInv
    <2>5. CASE RequestFails(f)
      <3>1. faults' \in 0..MaxFaults
        BY <2>5, FiscalDayConstants DEF RequestFails, Fault, FiscalDayInv, FiscalDayTypeOK
      <3>2. QED
        BY <2>5, <3>1, EndedKeepsInv DEF RequestFails
    <2>6. QED
      BY <1>3, <2>1, <2>2, <2>3, <2>4, <2>5 DEF ReportStep
  <1>4. QED
    BY <1>1, <1>2, <1>3 DEF FiscalDayNext

-----------------------------------------------------------------------------
(* The inductive invariant of days, device and requests.                   *)
THEOREM FiscalDayInvariance == FiscalDaySpec => []FiscalDayInv
PROOF BY FiscalDayInitInv, FiscalDayStepInv, PTL DEF FiscalDaySpec

(* Days, reports and requests keep their types.                            *)
THEOREM FiscalDayTypeCorrectness == FiscalDaySpec => []FiscalDayTypeOK
PROOF
  <1>1. FiscalDayInv => FiscalDayTypeOK
    BY DEF FiscalDayInv
  <1>2. QED
    BY <1>1, FiscalDayInvariance, PTL

(* The device commits a report at most once, and an ISSUED one was printed.*)
THEOREM ReportsArePrintedOnce == FiscalDaySpec => []ReportsPrintedOnce
PROOF
  <1>1. FiscalDayInv => ReportsPrintedOnce
    BY DEF FiscalDayInv
  <1>2. QED
    BY <1>1, FiscalDayInvariance, PTL

(* A day has one Z at most, waits for it and is closed by it alone.        *)
THEOREM DaysAreClosedByTheirZ == FiscalDaySpec => []ClosedByItsZ
PROOF
  <1>1. FiscalDayInv => ClosedByItsZ
    BY DEF FiscalDayInv
  <1>2. QED
    BY <1>1, FiscalDayInvariance, PTL

LEMMA CommittedZ ==
  ASSUME FiscalDayInv
  PROVE  UnrecordedZHoldsTheTerminal
PROOF
  <1> SUFFICES ASSUME NEW d \in Day, NEW k \in Key, printed[k] > 0
               PROVE  /\ days[d].reports[k].status \in {"ABSENT", "PRINTING", "ERROR", "ISSUED"}
                      /\ isZ(d, k) /\ days[d].reports[k].status # "ISSUED"
                         => \A e \in Day : days[e].state \in {"DAY_OPEN", "Z_PENDING"} <=> e = d
    BY DEF UnrecordedZHoldsTheTerminal
  <1>1. days[d].reports[k] \in Report
    BY RowFields DEF FiscalDayInv, FiscalDayTypeOK
  <1>2. PICK c \in Day : days[c].reports[k].status \in {"PRINTING", "ERROR", "ISSUED"}
    BY DEF FiscalDayInv, PrintedIsStarted
  <1>3. c = d \/ days[d].reports[k] = unrequested
    BY <1>2 DEF FiscalDayInv, OneDayPerKey, unrequested
  <1>4. days[d].reports[k].status \in {"ABSENT", "PRINTING", "ERROR", "ISSUED"}
    BY <1>2, <1>3 DEF unrequested
  <1>5. ASSUME isZ(d, k), days[d].reports[k].status # "ISSUED", NEW e \in Day
        PROVE  days[e].state \in {"DAY_OPEN", "Z_PENDING"} <=> e = d
    <2>1. days[d].state = "Z_PENDING"
      BY <1>5 DEF FiscalDayInv, ClosedByItsZ
    <2>2. QED
      BY <2>1 DEF FiscalDayInv, OneOpenDay, findOpenByTerminal
  <1>6. QED
    BY <1>4, <1>5

(* A committed Z that the row does not know holds the only open day.       *)
THEOREM UnrecordedZIsHeld == FiscalDaySpec => []UnrecordedZHoldsTheTerminal
PROOF BY CommittedZ, FiscalDayInvariance, PTL

LEMMA LinearStep ==
  ASSUME FiscalDayInv, [FiscalDayNext]_fiscalDayVars
  PROVE  [\A d \in Day : days'[d] # days[d] =>
            /\ days[d].state # "DAY_CLOSED"
            /\ days[d].state # "ABSENT" => days'[d].version = days[d].version + 1
            /\ \E k \in Key : \A j \in Key \ {k} :
                 days'[d].reports[j] = days[d].reports[j]]_fiscalDayVars
PROOF
  <1> SUFFICES ASSUME FiscalDayNext, NEW d \in Day, days'[d] # days[d]
               PROVE  /\ days[d].state # "DAY_CLOSED"
                      /\ days[d].state # "ABSENT" => days'[d].version = days[d].version + 1
                      /\ \E k \in Key : \A j \in Key \ {k} :
                           days'[d].reports[j] = days[d].reports[j]
    OBVIOUS
  <1> DEFINE Status == {"PENDING", "PRINTING", "ERROR", "ISSUED"}
  <1>1. \E c \in Day, k \in Key, from \in Status, to \in Status :
          Requested(c, k) \/ Advanced(c, k, from, to)
    <2>1. PICK f \in Flow : ReportStep(f)
      BY DEF FiscalDayNext, Restart
    <2>2. CASE \E k \in Key, c \in Day, type \in ReportType : PrintFiscalReport(f, k, c, type)
      <3>1. PICK k \in Key, c \in Day, type \in ReportType : PrintFiscalReport(f, k, c, type)
        BY <2>2
      <3>2. Requested(c, k)
        BY <3>1, PrintFiscalReportStep
      <3>3. "PENDING" \in Status
        OBVIOUS
      <3>4. QED
        BY <3>2, <3>3
    <2>3. CASE StartReport(f)
      <3>1. flow[f].day \in Day /\ flow[f].key \in Key
        BY <2>3, StartReportStep, BusyFlow DEF FiscalDayInv
      <3>2. Advanced(flow[f].day, flow[f].key, "PENDING", "PRINTING")
        BY <2>3, StartReportStep
      <3>3. "PENDING" \in Status /\ "PRINTING" \in Status
        OBVIOUS
      <3>4. QED
        BY <3>1, <3>2, <3>3
    <2>4. CASE RecordReport(f)
      <3>1. flow[f].day \in Day /\ flow[f].key \in Key
        BY <2>4, RecordReportStep, BusyFlow DEF FiscalDayInv
      <3>2. PICK to \in {"ERROR", "ISSUED"} : Advanced(flow[f].day, flow[f].key, "PRINTING", to)
        BY <2>4, RecordReportStep
      <3>3. to \in Status /\ "PRINTING" \in Status
        OBVIOUS
      <3>4. QED
        BY <3>1, <3>2, <3>3
    <2>5. CASE PrintReport(f) \/ RequestFails(f)
      BY <2>5 DEF PrintReport, RequestFails
    <2>6. QED
      BY <2>1, <2>2, <2>3, <2>4, <2>5 DEF ReportStep
  <1>2. PICK c \in Day, k \in Key, from \in Status, to \in Status :
          Requested(c, k) \/ Advanced(c, k, from, to)
    BY <1>1
  <1>3. /\ \A e \in Day : e # c => days'[e] = days[e]
        /\ days[c].state \in {"ABSENT", "DAY_OPEN", "Z_PENDING"}
        /\ days[c].state # "ABSENT" => days'[c].version = days[c].version + 1
        /\ \A j \in Key : j # k => days'[c].reports[j] = days[c].reports[j]
    BY <1>2, DaysInvOfInv, ChangeFacts
  <1>4. c = d
    BY <1>3
  <1>5. QED
    BY <1>3, <1>4

(* A day changes by one version and one report, and never once closed: no  *)
(* request overwrites what another stored in the day it read.              *)
THEOREM FiscalDaysAreLinear == FiscalDaySpec => DaysAreLinear
PROOF BY FiscalDayInvariance, LinearStep, PTL DEF FiscalDaySpec, DaysAreLinear
=============================================================================
