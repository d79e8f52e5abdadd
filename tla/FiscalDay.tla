----------------------------- MODULE FiscalDay -----------------------------
(***************************************************************************)
(* The fiscal days of one terminal and the X and Z reports that the device *)
(* prints for them (core/.../fiscal/print-fiscal-report.ts and             *)
(* domain/fiscal/fiscal-day.ts).  A request stores what it is about to     *)
(* print, calls the device outside every transaction and stores the        *)
(* answer over the day it read; requests interleave at every await and may *)
(* stop there.  Nothing reconciles a report that was left half way.        *)
(***************************************************************************)
EXTENDS Naturals

CONSTANTS
  Day,            \* fiscal days, each with its own business date
  Key,            \* idempotency keys; a report is known by its key
  Flow,           \* requests the server may be serving at once
  MaxFaults,      \* bound: failed printings, failed requests and restarts
  None            \* no day, no key

ASSUME FiscalDayConstants == None \notin Day \cup Key /\ MaxFaults \in Nat

VARIABLES
  days,           \* fiscal_days with their reports
  flow,           \* each request: where it is, its report, the day in memory
  printed,        \* how many times the device has committed each report
  faults          \* failures so far

fiscalDayVars == <<days, flow, printed, faults>>

ReportType == {"X", "Z"}
unrequested == [type |-> "NONE", status |-> "ABSENT"]
Report == [type : ReportType, status : {"PENDING", "PRINTING", "ERROR", "ISSUED"}]
             \cup {unrequested}
FiscalDayRow == [state : {"ABSENT", "DAY_OPEN", "Z_PENDING", "DAY_CLOSED"}, version : Nat,
                 reports : [Key -> Report]]
absentDay == [state |-> "ABSENT", version |-> 0, reports |-> [k \in Key |-> unrequested]]

idle == [stage |-> "IDLE", day |-> None, key |-> None, copy |-> absentDay]
Busy == [stage : {"PREPARED", "PRINTING", "CONFIRMED", "FAILED"}, day : Day, key : Key,
         copy : FiscalDayRow]

FiscalDayTypeOK ==
  /\ days \in [Day -> FiscalDayRow]
  /\ flow \in [Flow -> Busy \cup {idle}]
  /\ printed \in [Key -> Nat]
  /\ faults \in 0..MaxFaults

FiscalDayInit ==
  /\ days = [d \in Day |-> absentDay]
  /\ flow = [f \in Flow |-> idle]
  /\ printed = [k \in Key |-> 0]
  /\ faults = 0

-----------------------------------------------------------------------------
(* The day in memory.                                                      *)

open == [absentDay EXCEPT !.state = "DAY_OPEN", !.version = 1]

transitionReport(day, k, status) ==
  [day EXCEPT !.version = @ + 1, !.reports[k].status = status]

requestAnother(day, k, type) ==
  [state |-> day.state, version |-> day.version + 1,
   reports |-> [day.reports EXCEPT ![k] = [type |-> type, status |-> "PENDING"]]]
requestReport(day, k, type) ==
  [state |-> IF type = "Z" THEN "Z_PENDING" ELSE day.state,
   version |-> day.version + 1,
   reports |-> [day.reports EXCEPT ![k] = [type |-> type, status |-> "PENDING"]]]

startReport(day, k) == transitionReport(day, k, "PRINTING")
recordReportRetrying(day, k) == transitionReport(day, k, "RETRYING")
recordReportError(day, k) == transitionReport(day, k, "ERROR")
markReportIssued(day, k) ==
  [transitionReport(day, k, "ISSUED") EXCEPT
     !.state = IF day.reports[k].type = "Z" THEN "DAY_CLOSED" ELSE @]

(* What `save` and the triggers take: a newer version of an unclosed day.  *)
unversioned(d, copy) == days[d].state # "DAY_CLOSED"
reopenable(d, copy) == copy.version > days[d].version
accepts(d, copy) == days[d].state # "DAY_CLOSED" /\ copy.version > days[d].version

continue(f, stage, d, k, copy) ==
  flow' = [flow EXCEPT ![f] = [stage |-> stage, day |-> d, key |-> k, copy |-> copy]]
finish(f) == flow' = [flow EXCEPT ![f] = idle]
Fault == faults < MaxFaults /\ faults' = faults + 1

-----------------------------------------------------------------------------
(* A request for a report.                                                 *)

findByReportIdempotencyKey(k) == {d \in Day : days[d].reports[k] # unrequested}
findDayOpen == {d \in Day : days[d].state = "DAY_OPEN"}
findOpenByTerminal == {d \in Day : days[d].state \in {"DAY_OPEN", "Z_PENDING"}}

(* A new report goes to a day that is open, or to a new one when no other  *)
(* of the terminal is.  A repeated key goes on with its report only while  *)
(* it is pending; in any other status, or for another request, it only     *)
(* produces an answer.                                                     *)
PrintFiscalReport(f, k, d, type) ==
  LET day == IF days[d].state = "ABSENT" THEN open ELSE days[d]
      copy == requestReport(day, k, type) IN
  /\ flow[f] = idle
  /\ \/ /\ findByReportIdempotencyKey(k) = {}
        /\ days[d].state = "ABSENT" => findOpenByTerminal = {}
        /\ day.state = "DAY_OPEN"
        /\ days' = [days EXCEPT ![d] = copy]
        /\ continue(f, "PREPARED", d, k, copy)
     \/ /\ days[d].reports[k] = [type |-> type, status |-> "PENDING"]
        /\ continue(f, "PREPARED", d, k, days[d])
        /\ UNCHANGED days
  /\ UNCHANGED <<printed, faults>>

(* A refused save throws and the request ends.                             *)
StartReport(f) ==
  LET d == flow[f].day
      copy == startReport(flow[f].copy, flow[f].key) IN
  /\ flow[f].stage = "PREPARED"
  /\ \/ /\ accepts(d, copy)
        /\ days' = [days EXCEPT ![d] = copy]
        /\ continue(f, "PRINTING", d, flow[f].key, copy)
     \/ /\ ~accepts(d, copy)
        /\ finish(f)
        /\ UNCHANGED days
  /\ UNCHANGED <<printed, faults>>

(* The device commits the report, or loses the answer of one it committed, *)
(* or fails before.                                                        *)
PrintReport(f) ==
  LET answer(stage) == continue(f, stage, flow[f].day, flow[f].key, flow[f].copy)
      commit == printed' = [printed EXCEPT ![flow[f].key] = @ + 1] IN
  /\ flow[f].stage = "PRINTING"
  /\ \/ commit /\ answer("CONFIRMED") /\ UNCHANGED faults
     \/ Fault /\ commit /\ answer("FAILED")
     \/ Fault /\ answer("FAILED") /\ UNCHANGED printed
  /\ UNCHANGED days

RecordReport(f) ==
  LET d == flow[f].day
      copy == IF flow[f].stage = "CONFIRMED"
              THEN markReportIssued(flow[f].copy, flow[f].key)
              ELSE recordReportError(flow[f].copy, flow[f].key) IN
  /\ flow[f].stage \in {"CONFIRMED", "FAILED"}
  /\ days' = IF accepts(d, copy) THEN [days EXCEPT ![d] = copy] ELSE days
  /\ finish(f)
  /\ UNCHANGED <<printed, faults>>

RequestFails(f) ==
  /\ Fault
  /\ flow[f] # idle
  /\ finish(f)
  /\ UNCHANGED <<days, printed>>

Restart ==
  /\ Fault
  /\ flow' = [f \in Flow |-> idle]
  /\ UNCHANGED <<days, printed>>

ReportStep(f) ==
  \/ \E k \in Key, d \in Day, type \in ReportType : PrintFiscalReport(f, k, d, type)
  \/ StartReport(f) \/ PrintReport(f) \/ RecordReport(f) \/ RequestFails(f)

FiscalDayNext == Restart \/ \E f \in Flow : ReportStep(f)

FiscalDaySpec == FiscalDayInit /\ [][FiscalDayNext]_fiscalDayVars

-----------------------------------------------------------------------------
(* Properties.                                                             *)

isZ(d, k) == days[d].reports[k].type = "Z"

(* The device never commits a report twice, although requests with its key *)
(* overlap, fail and are repeated, and what is ISSUED was committed        *)
(* (startReport, the version check of save and the refusal of PRINTING and *)
(* ERROR reports).                                                         *)
ReportsPrintedOnce ==
  \A k \in Key :
    /\ printed[k] <= 1
    /\ \A d \in Day : days[d].reports[k].status = "ISSUED" => printed[k] = 1

(* A day has one Z at most, from its request on it takes no other report,  *)
(* and it is closed by that Z alone (requestReport, markReportIssued).     *)
ClosedByItsZ ==
  \A d \in Day :
    /\ \A j, k \in Key : isZ(d, j) /\ isZ(d, k) => j = k
    /\ days[d].state = "Z_PENDING" <=> \E k \in Key : isZ(d, k) /\ days[d].reports[k].status # "ISSUED"
    /\ days[d].state = "DAY_CLOSED" <=> \E k \in Key : isZ(d, k) /\ days[d].reports[k].status = "ISSUED"

(* A report that the device committed is ISSUED or is left where nothing   *)
(* prints it again; and while it is a Z that the row does not know, no     *)
(* other day of the terminal is open: what the device closed is not        *)
(* followed by a day that the node opened beside it.                       *)
UnrecordedZHoldsTheTerminal ==
  \A d \in Day, k \in Key :
    /\ printed[k] > 0 => days[d].reports[k].status \in {"ABSENT", "PRINTING", "ERROR", "ISSUED"}
    /\ printed[k] > 0 /\ isZ(d, k) /\ days[d].reports[k].status # "ISSUED"
       => \A e \in Day : days[e].state \in {"DAY_OPEN", "Z_PENDING"} <=> e = d

(* No request overwrites what another one stored in the day it read: a day *)
(* changes by one version and one report at a time, and never once closed. *)
DaysAreLinear ==
  [][\A d \in Day : days'[d] # days[d] =>
       /\ days[d].state # "DAY_CLOSED"
       /\ days[d].state # "ABSENT" => days'[d].version = days[d].version + 1
       /\ \E k \in Key : \A j \in Key \ {k} :
            days'[d].reports[j] = days[d].reports[j]]_fiscalDayVars

(* The argument behind them: a copy that may still be saved is the stored  *)
(* day, a report that some request prints is PRINTING and prints once, and *)
(* a key belongs to one day.                                               *)
Started == {"PRINTING", "CONFIRMED", "FAILED"}
row(f) == days[flow[f].day]
report(f) == row(f).reports[flow[f].key]

AbsentIsEmpty == \A d \in Day : days[d].state = "ABSENT" => days[d] = absentDay

OneDayPerKey ==
  \A d, e \in Day, k \in Key :
    days[d].reports[k] # unrequested /\ days[e].reports[k] # unrequested => d = e

OneOpenDay == \A d, e \in findOpenByTerminal : d = e

CopiesAreOld ==
  \A f \in Flow : flow[f] # idle =>
    /\ flow[f].copy.version <= row(f).version
    /\ flow[f].copy.version = row(f).version => flow[f].copy = row(f)
    /\ report(f) # unrequested
    /\ flow[f].stage = "PREPARED" => flow[f].copy.reports[flow[f].key].status = "PENDING"

OneRequestPrints ==
  \A f \in Flow : flow[f].stage \in Started =>
    /\ report(f).status = "PRINTING"
    /\ flow[f].stage = "PRINTING" => printed[flow[f].key] = 0
    /\ flow[f].stage = "CONFIRMED" => printed[flow[f].key] = 1
    /\ \A g \in Flow \ {f} : flow[g].stage \in Started => flow[g].key # flow[f].key

PrintedIsStarted ==
  \A k \in Key : printed[k] # 0 =>
    \E d \in Day : days[d].reports[k].status \in {"PRINTING", "ERROR", "ISSUED"}

FiscalDayInv ==
  /\ FiscalDayTypeOK
  /\ AbsentIsEmpty
  /\ OneDayPerKey
  /\ OneOpenDay
  /\ CopiesAreOld
  /\ OneRequestPrints
  /\ PrintedIsStarted
  /\ ReportsPrintedOnce
  /\ ClosedByItsZ
=============================================================================
