--------------------------- MODULE OperationProofs ---------------------------
(***************************************************************************)
(* Theorems about Operation, for every number of inputs and of workers.    *)
(***************************************************************************)
EXTENDS Operation, FiniteSetTheorems, TLAPS

\* The number of workers that run launches is a natural number that does not
\* exceed the number of inputs (line 68).
LEMMA CountBounds == Count \in Nat /\ Count <= NumInputs /\ (NumInputs > 0 => Count > 0)
  BY OperationAssumption DEF Count

-----------------------------------------------------------------------------
(* Types.  TypeOK needs to know what the coordinator's place says of its   *)
(* counters: an admission follows a comparison with the number of inputs,  *)
(* and what is merged is the result of the index merged.                   *)

Places ==
  /\ cpc = "idle" <=> ~started
  /\ cpc \in {"idle", "enter"} => admitted = 0 /\ merged = 0
  /\ cpc \in {"admit", "send"} => admitted < NumInputs
  /\ cpc \in {"add", "merge"} => cur.index = merged

TypeInv == TypeOK /\ Places

\* Initially everything has its type.
LEMMA TypeInit == Init => TypeInv
<1> SUFFICES ASSUME Init PROVE TypeInv
  OBVIOUS
<1>0. TypeOKFlags
  BY DEF Init, TypeOKFlags
<1>1. TypeOKControl /\ Places
  BY OperationAssumption DEF Init, TypeOKControl, Places
<1>2. TypeOKData
  <2>1. << >> \in Seq(Image) /\ << >> \in Seq(Result) /\ << >> \in Seq(Index)
        /\ << >> \in Seq(Seq(Image))
    OBVIOUS
  <2>2. DOMAIN pending \subseteq Index /\ \A i \in DOMAIN pending : pending[i] \in Response
    BY DEF Init
  <2> QED BY <2>1, <2>2 DEF Init, TypeOKData
<1>3. TypeOKWorkers
  BY DEF Init, TypeOKWorkers
<1> QED BY <1>0, <1>1, <1>2, <1>3 DEF TypeInv, TypeOK

\* No step takes a variable out of its type.
LEMMA TypeStep == TypeInv /\ [Next]_vars => TypeInv'
<1> SUFFICES ASSUME TypeInv, [Next]_vars PROVE TypeInv'
  OBVIOUS
<1> USE CountBounds, OperationAssumption
<1> DEFINE Rest == TypeOKControl /\ TypeOKData /\ TypeOKWorkers /\ Places
<1> USE DEF TypeInv, TypeOK, Places, vars, opVars, mergeVars, runVars, chanVars,
            workerVars, ownerVars, notRun, notOwner, notWorker
<1>0. TypeOKFlags'
  <2>1. CASE OwnerNext \/ Cancel
    BY <2>1 DEF OwnerNext, Start, Wait, FinishWait, FinishTransfer, TransferUnless,
       Release, ReleaseReturn, Cancel, TypeOKFlags
  <2>2. CASE Run
    BY <2>2 DEF Run, Enter, AdmitCheck, AdmitSend, AdmitUpTo, SelectCanceled, SelectResult,
       SelectWith, AddOrMerge, Built, Project, Projected, BuildFails, DrainTake,
       DrainLeaving, DrainEnd, BuildFinish, LastCheck, Unwind, Join, Recover, CloseDone,
       TypeOKFlags
  <2>3. CASE \E w \in Worker : WorkerStep(w) \/ ScanReturns(w)
    BY <2>3 DEF WorkerStep, WorkerQuit, WorkerTake, WorkerBegin, WorkerSend, WorkerDrop,
       ScanReturns, ScanEnds, Ended, TypeOKFlags
  <2>4. CASE UNCHANGED vars
    BY <2>4 DEF TypeOKFlags
  <2> QED BY <2>1, <2>2, <2>3, <2>4 DEF Next, Terminated
<1>1. ASSUME OwnerNext \/ Cancel PROVE Rest'
  <2>1. TypeOKControl' /\ Places'
    BY <1>1 DEF OwnerNext, Start, Wait, FinishWait, FinishTransfer, TransferUnless,
       Release, ReleaseReturn, Cancel, WaitStatus, PanicStatus, TypeOKControl
  <2>2. TypeOKWorkers'
    BY <1>1 DEF OwnerNext, Start, Wait, FinishWait, FinishTransfer, TransferUnless,
       Release, ReleaseReturn, Cancel, TypeOKWorkers
  <2>3. report' \in Seq(Image) /\ published' \in Seq(Seq(Image))
    <3>1. Append(published, report) \in Seq(Seq(Image)) /\ << >> \in Seq(Image)
      BY DEF TypeOKData
    <3> QED
      BY <1>1, <3>1 DEF OwnerNext, Start, Wait, FinishWait, FinishTransfer, TransferUnless,
         Release, ReleaseReturn, Cancel, TypeOKData
  <2>4. TypeOKData'
    BY <1>1, <2>3 DEF OwnerNext, Start, Wait, FinishWait, FinishTransfer, TransferUnless,
       Release, ReleaseReturn, Cancel, TypeOKData
  <2> QED BY <2>1, <2>2, <2>4
<1>2. ASSUME Run PROVE Rest'
  <2>1. CASE Enter
    BY <2>1 DEF Enter, TypeOKControl, TypeOKData, TypeOKWorkers
  <2>2. CASE AdmitCheck
    BY <2>2 DEF AdmitCheck, CheckThen, Panic, TypeOKControl, TypeOKData, TypeOKWorkers
  <2>3. CASE AdmitSend
    BY <2>3 DEF AdmitSend, AdmitUpTo, Index, TypeOKControl, TypeOKData, TypeOKWorkers
  <2>4. CASE SelectCanceled
    BY <2>4 DEF SelectCanceled, Panic, TypeOKControl, TypeOKData, TypeOKWorkers
  <2>5. CASE SelectResult
    <3>1. Head(results) \in Result /\ Tail(results) \in Seq(Result)
      BY <2>5 DEF SelectResult, SelectWith, TypeOKData
    <3>2. Head(results).outcome \notin Panicked => Head(results) \in Image
      BY <3>1 DEF Result, Outcome, Image
    <3>3. TypeOKData'
      BY <2>5, <3>1, <3>2 DEF SelectResult, SelectWith, Panic, TypeOKData
    <3>4. TypeOKControl' /\ TypeOKWorkers' /\ Places'
      BY <2>5 DEF SelectResult, SelectWith, Panic, Panicked, TypeOKControl, TypeOKWorkers
    <3> QED BY <3>3, <3>4
  <2>6. CASE AddOrMerge
    <3>1. Append(images, cur) \in Seq(Image) /\ merged + 1 \in 0..NumInputs
      BY <2>6 DEF AddOrMerge, Built, TypeOKControl, TypeOKData, Image, Index
    <3>2. TypeOKData'
      BY <2>6, <3>1 DEF AddOrMerge, Built, TypeOKData
    <3>3. TypeOKControl' /\ TypeOKWorkers' /\ Places'
      BY <2>6, <3>1 DEF AddOrMerge, Built, TypeOKControl, TypeOKWorkers
    <3> QED BY <3>2, <3>3
  <2>7. CASE Project
    <3>1. DOMAIN pending' \subseteq Index /\ \A i \in DOMAIN pending' : pending'[i] \in Response
      BY <2>7 DEF Project, Projected, Image, TypeOKData
    <3> QED
      BY <2>7, <3>1 DEF Project, Projected, TypeOKControl, TypeOKData, TypeOKWorkers
  <2>8. CASE BuildFails
    BY <2>8 DEF BuildFails, Panic, BuilderPanic, TypeOKControl, TypeOKData, TypeOKWorkers
  <2>9. CASE DrainTake
    BY <2>9 DEF DrainTake, DrainLeaving, CheckThen, Panic, Image, Result, Outcome, Response,
       TypeOKControl, TypeOKData, TypeOKWorkers
  <2>10. CASE DrainEnd
    BY <2>10 DEF DrainEnd, TypeOKControl, TypeOKData, TypeOKWorkers
  <2>11. CASE BuildFinish
    BY <2>11 DEF BuildFinish, TypeOKControl, TypeOKData, TypeOKWorkers
  <2>12. CASE LastCheck
    BY <2>12 DEF LastCheck, CheckThen, Panic, TypeOKControl, TypeOKData, TypeOKWorkers
  <2>13. CASE Unwind \/ Join \/ CloseDone
    BY SMTT(40), <2>13 DEF Unwind, Join, CloseDone, TypeOKControl, TypeOKData, TypeOKWorkers
  <2>14. CASE Recover
    <3>1. PanicStatus(panicValue) \in {1, 2, 4}
      BY DEF PanicStatus
    <3>2. << >> \in Seq(Image)
      OBVIOUS
    <3>3. TypeOKControl' /\ Places'
      BY <2>14, <3>1 DEF Recover, TypeOKControl
    <3>4. TypeOKData' /\ TypeOKWorkers'
      BY <2>14, <3>2 DEF Recover, TypeOKData, TypeOKWorkers
    <3> QED BY <3>3, <3>4
  <2> QED
    BY <1>2, <2>1, <2>2, <2>3, <2>4, <2>5, <2>6, <2>7, <2>8, <2>9, <2>10, <2>11,
       <2>12, <2>13, <2>14 DEF Run
<1>3. ASSUME NEW w \in Worker, WorkerStep(w) \/ ScanReturns(w) PROVE Rest'
  <2>1. TypeOKControl' /\ Places'
    BY <1>3 DEF WorkerStep, WorkerQuit, WorkerTake, WorkerBegin, WorkerSend, WorkerDrop,
       ScanReturns, ScanEnds, Ended, TypeOKControl
  <2>2. CASE WorkerQuit(w) \/ WorkerBegin(w) \/ WorkerDrop(w) \/ ScanReturns(w)
    <3>1. \A outcome \in Outcome :
            Busy(w) => [index |-> wres[w].index, outcome |-> outcome] \in Result
      BY DEF TypeOKWorkers, Busy, Result
    <3>2. TypeOKWorkers'
      BY <2>2, <3>1 DEF WorkerQuit, WorkerBegin, WorkerDrop, ScanReturns, ScanEnds, Ended,
         Busy, Outcome, Panicked, TypeOKWorkers
    <3>3. TypeOKData'
      BY <2>2 DEF WorkerQuit, WorkerBegin, WorkerDrop, ScanReturns, ScanEnds, Ended, TypeOKData
    <3> QED BY <2>1, <3>2, <3>3
  <2>3. CASE WorkerTake(w)
    <3>1. Head(jobs) \in Index /\ Tail(jobs) \in Seq(Index)
      BY <2>3 DEF WorkerTake, TypeOKData
    <3>2. [index |-> Head(jobs), outcome |-> "complete"] \in Result
      BY <3>1 DEF Result, Outcome, Response
    <3>3. TypeOKWorkers'
      BY <2>3, <3>2 DEF WorkerTake, TypeOKWorkers
    <3>4. TypeOKData'
      BY <2>3, <3>1 DEF WorkerTake, TypeOKData
    <3> QED BY <2>1, <3>3, <3>4
  <2>4. CASE WorkerSend(w)
    <3>1. Append(results, wres[w]) \in Seq(Result)
      BY <2>4 DEF WorkerSend, TypeOKData, TypeOKWorkers
    <3>2. TypeOKData'
      BY <2>4, <3>1 DEF WorkerSend, TypeOKData
    <3>3. TypeOKWorkers'
      BY <2>4 DEF WorkerSend, TypeOKWorkers
    <3> QED BY <2>1, <3>2, <3>3
  <2> QED BY <1>3, <2>2, <2>3, <2>4 DEF WorkerStep
<1>4. ASSUME UNCHANGED vars PROVE Rest'
  BY <1>4 DEF TypeOKControl, TypeOKData, TypeOKWorkers
<1> QED BY <1>0, <1>1, <1>2, <1>3, <1>4 DEF Next, Terminated

\* Every variable keeps its type: the counters stay within the number of
\* inputs, and what is in a channel, with a worker or in a report is the result
\* of an input (go/operation.go 62 to 155).
THEOREM TypeCorrect == Spec => []TypeOK
<1>1. Spec => []TypeInv
  BY TypeInit, TypeStep, PTL DEF Spec
<1>2. TypeInv => TypeOK
  BY DEF TypeInv
<1> QED BY <1>1, <1>2, PTL

-----------------------------------------------------------------------------
(* The end of run.  What JoinedBeforeDone needs to be inductive is where the *)
(* workers are at each place of run: none exists before Enter, all have gone *)
(* after Join, and a run that fails in its first check never launched any.   *)

Joined ==
  /\ cpc \in {"idle", "enter"} => \A w \in Worker : wpc[w] = "unborn"
  /\ cpc \in {"recover", "close", "done"} =>
       \A w \in Worker : wpc[w] \in {"unborn", "exited"}
  /\ done => cpc = "done"
  /\ owner = "released" => (started => done)
  /\ runDone => cpc \in {"join", "recover", "close", "done"}

LEMMA JoinedInit == Init => Joined
  BY DEF Init, Joined

LEMMA JoinedStep == TypeInv /\ Joined /\ [Next]_vars => Joined'
<1> SUFFICES ASSUME TypeInv, Joined, [Next]_vars PROVE Joined'
  OBVIOUS
<1> USE DEF Joined, vars, opVars, mergeVars, runVars, chanVars,
            workerVars, ownerVars, notRun, notOwner, notWorker
<1>1. CASE OwnerNext \/ Cancel
  BY <1>1 DEF OwnerNext, Start, Wait, FinishWait, FinishTransfer, TransferUnless,
     Release, ReleaseReturn, Cancel, TypeInv, Places
<1>2. CASE Run
  <2>1. CASE Enter
    BY <2>1 DEF Enter
  <2>2. CASE Join
    BY <2>2 DEF Join
  <2>3. CASE ~Enter /\ ~Join
    BY <1>2, <2>3 DEF Run, AdmitCheck, AdmitSend, AdmitUpTo, SelectCanceled,
       SelectResult, SelectWith, AddOrMerge, Built, Project, Projected, BuildFails,
       DrainTake, DrainLeaving, DrainEnd, BuildFinish, LastCheck, Unwind, Recover,
       CloseDone, CheckThen, Panic
  <2> QED BY <2>1, <2>2, <2>3
<1>3. CASE \E w \in Worker : WorkerStep(w) \/ ScanReturns(w)
  <2>1. PICK w \in Worker : WorkerStep(w) \/ ScanReturns(w)
    BY <1>3
  <2>2. wpc[w] \notin {"unborn", "exited"}
    BY <2>1 DEF WorkerStep, WorkerQuit, WorkerTake, WorkerBegin, WorkerSend, WorkerDrop,
       ScanReturns, ScanEnds, Ended
  <2>3. UNCHANGED <<cpc, done, owner, started, runDone>>
    BY <2>1 DEF WorkerStep, WorkerQuit, WorkerTake, WorkerBegin, WorkerSend, WorkerDrop,
       ScanReturns, ScanEnds, Ended
  <2> QED BY <2>2, <2>3
<1>4. CASE UNCHANGED vars
  BY <1>4
<1> QED BY <1>1, <1>2, <1>3, <1>4 DEF Next, Terminated

\* When done is closed or release has returned, no worker is scanning or will
\* ever scan (go/operation.go 52, 73, 165 to 174).
THEOREM NothingRunsOnceDone == Spec => []JoinedBeforeDone
<1>1. Spec => [](TypeInv /\ Joined)
  BY TypeInit, TypeStep, JoinedInit, JoinedStep, PTL DEF Spec
<1>2. TypeInv /\ Joined => JoinedBeforeDone
  BY DEF TypeInv, Places, Joined, JoinedBeforeDone
<1> QED BY <1>1, <1>2, PTL

-----------------------------------------------------------------------------
(* The report.  The builder holds as many images as are merged; only a run   *)
(* that merged everything leaves with a report and no panic; and only a      *)
(* settled success is granted and transferred.                               *)

Building == cpc \in {"idle", "enter", "admit", "send", "drain", "select", "add",
                     "project", "merge", "finish"}

Settled ==
  /\ Building => Len(images) = merged /\ report = << >> /\ panicValue = "none"
  /\ cpc = "finish" => merged = NumInputs
  /\ cpc = "lastcheck" => Len(report) = NumInputs /\ panicValue = "none"
  /\ cpc \in {"unwind", "join", "recover"} /\ panicValue = "none"
       => Len(report) = NumInputs
  /\ cpc \notin {"close", "done"} => status = 0
  /\ cpc \in {"close", "done"} /\ status = 0 /\ ~finished /\ owner # "released"
       => Len(report) = NumInputs
  /\ finished \/ owner = "granted" => done /\ status = 0

Ordered ==
  /\ InInputOrder(images) /\ InInputOrder(report)
  /\ Len(published) = (IF finished THEN 1 ELSE 0)
  /\ \A k \in 1..Len(published) :
       InInputOrder(published[k]) /\ Len(published[k]) = NumInputs

LEMMA SettledInit == Init => Settled /\ Ordered
  BY DEF Init, Settled, Ordered, Building, InInputOrder

LEMMA SettledStep == TypeInv /\ Joined /\ Settled /\ [Next]_vars => Settled'
<1> SUFFICES ASSUME TypeInv, Joined, Settled, [Next]_vars PROVE Settled'
  OBVIOUS
<1> USE DEF Settled, Building, vars, opVars, mergeVars, runVars, chanVars,
            workerVars, ownerVars, notRun, notOwner, notWorker
<1>1. CASE OwnerNext \/ Cancel
  <2>1. CASE FinishTransfer
    BY <2>1 DEF FinishTransfer, TransferUnless, Joined
  <2>2. CASE ReleaseReturn
    BY <2>2 DEF ReleaseReturn, Joined, TypeInv, Places
  <2>3. CASE ~FinishTransfer /\ ~ReleaseReturn
    BY <1>1, <2>3 DEF OwnerNext, Start, Wait, FinishWait, Release, Cancel, WaitStatus,
       PanicStatus, TypeInv, Places
  <2> QED BY <2>1, <2>2, <2>3
<1>2. CASE Run
  <2>0. ~done /\ ~finished /\ owner # "granted"
    BY <1>2 DEF Joined, Run, Enter, AdmitCheck, AdmitSend, AdmitUpTo, SelectCanceled,
       SelectResult, SelectWith, AddOrMerge, Built, Project, Projected, BuildFails,
       DrainTake, DrainLeaving, DrainEnd, BuildFinish, LastCheck, Unwind, Join, Recover,
       CloseDone
  <2>1. CASE AddOrMerge
    BY <2>0, <2>1 DEF AddOrMerge, Built, TypeInv, TypeOK, TypeOKControl, TypeOKData
  <2>2. CASE DrainEnd
    <3>1. cpc' = "finish" => merged = NumInputs
      BY <2>2, OperationAssumption DEF DrainEnd, TypeInv, TypeOK, TypeOKControl
    <3> QED BY <2>0, <2>2, <3>1 DEF DrainEnd
  <2>3. CASE Recover
    <3>1. PanicStatus(panicValue) # 0
      BY DEF PanicStatus
    <3> QED BY <2>0, <2>3, <3>1 DEF Recover
  <2>4. CASE CloseDone \/ Join \/ Unwind \/ LastCheck \/ BuildFinish
    BY <2>0, <2>4 DEF CloseDone, Join, Unwind, LastCheck, BuildFinish, CheckThen, Panic
  <2>5. CASE Enter \/ AdmitCheck \/ AdmitSend \/ SelectCanceled \/ SelectResult
             \/ Project \/ BuildFails \/ DrainTake
    BY <2>0, <2>5 DEF Enter, AdmitCheck, AdmitSend, AdmitUpTo, SelectCanceled,
       SelectResult, SelectWith, Project, Projected, BuildFails, BuilderPanic, DrainTake,
       DrainLeaving, CheckThen, Panic, Panicked
  <2> QED BY <1>2, <2>1, <2>2, <2>3, <2>4, <2>5 DEF Run
<1>3. CASE \E w \in Worker : WorkerStep(w) \/ ScanReturns(w)
  BY <1>3 DEF WorkerStep, WorkerQuit, WorkerTake, WorkerBegin, WorkerSend, WorkerDrop,
     ScanReturns, ScanEnds, Ended
<1>4. CASE UNCHANGED vars
  BY <1>4
<1> QED BY <1>1, <1>2, <1>3, <1>4 DEF Next, Terminated

LEMMA OrderedStep ==
  TypeInv /\ Joined /\ Settled /\ Ordered /\ [Next]_vars => Ordered'
<1> SUFFICES ASSUME TypeInv, Joined, Settled, Ordered, [Next]_vars PROVE Ordered'
  OBVIOUS
<1> USE DEF Ordered, InInputOrder, vars, opVars, mergeVars, runVars, chanVars,
            workerVars, ownerVars, notRun, notOwner, notWorker
<1>1. CASE OwnerNext \/ Cancel
  <2>1. CASE FinishTransfer /\ ~finished
    <3>1. Len(report) = NumInputs /\ Len(published) = 0
      BY <2>1 DEF FinishTransfer, TransferUnless, Settled, Joined
    <3>2. published' = Append(published, report) /\ report' = << >> /\ finished' = TRUE
          /\ UNCHANGED images
      BY <2>1 DEF FinishTransfer, TransferUnless
    <3>3. Len(published') = 1 /\ published'[1] = report
      BY <3>1, <3>2 DEF TypeInv, TypeOK, TypeOKData
    <3> QED BY <3>1, <3>2, <3>3
  <2>2. CASE ~(FinishTransfer /\ ~finished)
    BY <1>1, <2>2 DEF OwnerNext, Start, Wait, FinishWait, FinishTransfer, TransferUnless,
       Release, ReleaseReturn, Cancel
  <2> QED BY <2>1, <2>2
<1>2. CASE Run
  <2>1. CASE AddOrMerge
    <3>1. Len(images) = merged /\ cur.index = merged /\ cur \in Image
      BY <2>1 DEF AddOrMerge, Built, Settled, Building, TypeInv, Places, TypeOK, TypeOKData
    <3>2. InInputOrder(images')
      BY <2>1, <3>1 DEF AddOrMerge, Built, TypeInv, TypeOK, TypeOKControl, TypeOKData
    <3> QED BY <2>1, <3>2 DEF AddOrMerge, Built
  <2>2. CASE BuildFinish
    BY <2>2 DEF BuildFinish
  <2>3. CASE Recover
    BY <2>3 DEF Recover
  <2>4. CASE ~AddOrMerge /\ ~BuildFinish /\ ~Recover
    BY <1>2, <2>4 DEF Run, Enter, AdmitCheck, AdmitSend, AdmitUpTo, SelectCanceled,
       SelectResult, SelectWith, Project, Projected, BuildFails, DrainTake, DrainLeaving,
       DrainEnd, LastCheck, Unwind, Join, CloseDone
  <2> QED BY <2>1, <2>2, <2>3, <2>4
<1>3. CASE \E w \in Worker : WorkerStep(w) \/ ScanReturns(w)
  BY <1>3 DEF WorkerStep, WorkerQuit, WorkerTake, WorkerBegin, WorkerSend, WorkerDrop,
     ScanReturns, ScanEnds, Ended
<1>4. CASE UNCHANGED vars
  BY <1>4
<1> QED BY <1>1, <1>2, <1>3, <1>4 DEF Next, Terminated

OrderInv == TypeInv /\ Joined /\ Settled /\ Ordered

LEMMA OrderInvariant == Spec => []OrderInv
<1>1. Init => OrderInv
  BY TypeInit, JoinedInit, SettledInit DEF OrderInv
<1>2. OrderInv /\ [Next]_vars => OrderInv'
  BY TypeStep, JoinedStep, SettledStep, OrderedStep DEF OrderInv
<1> QED BY <1>1, <1>2, PTL DEF Spec

\* Whatever the order in which the workers answer, every report handed over, and
\* the report of every settled success until it is handed over, has one image
\* per input in input order (go/operation.go 116 to 155, 178 to 191).
THEOREM ReportsInInputOrder == Spec => []InputOrder
<1>1. OrderInv => InputOrder
  BY DEF OrderInv, Joined, Settled, Building, Ordered, InputOrder
<1> QED BY <1>1, OrderInvariant, PTL

\* finish hands over at most one report, and only that of a success
\* (go/operation.go 176 to 192).
THEOREM ReportTransferredOnce == Spec => []TransferOnce
<1>1. OrderInv => TransferOnce
  BY DEF OrderInv, Settled, Ordered, TransferOnce
<1> QED BY <1>1, OrderInvariant, PTL

-----------------------------------------------------------------------------
(* Cancellation.  A failure that hides a cancellation exists only once a     *)
(* context is done; and as long as op.ctx is not, and run has not begun to   *)
(* unwind, there is none anywhere between a worker and the report.           *)

Clean(r) == \A k \in 1..Len(r) : r[k].outcome # "aborted"

Untainted ==
  /\ ~ctxDone /\ ~Unwinding =>
       /\ \A w \in Worker : wres[w].outcome # "aborted"
       /\ Clean(results) /\ Clean(images) /\ cur.outcome # "aborted"
       /\ \A i \in DOMAIN pending : pending[i] # "aborted"
  /\ ~ctxDone \/ (owner = "granted" /\ ~finished) => Clean(report)
  /\ \A k \in 1..Len(published) : Clean(published[k])

LEMMA UntaintedInit == Init => Untainted
  BY DEF Init, Untainted, Clean, None, Unwinding

LEMMA UntaintedStep == OrderInv /\ Untainted /\ [Next]_vars => Untainted'
<1> SUFFICES ASSUME OrderInv, Untainted, [Next]_vars PROVE Untainted'
  OBVIOUS
<1> USE DEF Untainted, Clean, Unwinding, vars, opVars, mergeVars, runVars, chanVars,
            workerVars, ownerVars, notRun, notOwner, notWorker
<1>1. CASE OwnerNext \/ Cancel
  <2>1. CASE FinishTransfer /\ ~finished
    <3>1. Clean(report) /\ published' = Append(published, report) /\ report' = << >>
          /\ finished' = TRUE /\ UNCHANGED <<ctxDone, notOwner>>
      BY <2>1 DEF FinishTransfer, TransferUnless
    <3>2. \A k \in 1..Len(published') : Clean(published'[k])
      BY <3>1 DEF OrderInv, TypeInv, TypeOK, TypeOKData
    <3> QED BY <3>1, <3>2
  <2>2. CASE FinishWait
    <3>1. WaitStatus = 0 => ~ctxDone
      BY DEF WaitStatus, PanicStatus
    <3> QED BY <2>2, <3>1 DEF FinishWait
  <2>3. CASE ReleaseReturn
    <3>1. Clean(<< >>)
      OBVIOUS
    <3> HIDE DEF Clean
    <3> QED BY <2>3, <3>1 DEF ReleaseReturn
  <2>4. CASE Start
    BY <2>4 DEF Start, OrderInv, TypeInv, Places
  <2>5. CASE Wait \/ Release \/ Cancel
    BY <2>5 DEF Wait, Release, Cancel
  <2>6. CASE FinishTransfer /\ finished
    BY <2>6 DEF FinishTransfer, TransferUnless
  <2> QED BY <1>1, <2>1, <2>2, <2>3, <2>4, <2>5, <2>6 DEF OwnerNext
<1>2. CASE Run
  <2>1. CASE SelectResult
    <3>1. ~ctxDone => Head(results).outcome # "aborted" /\ Clean(Tail(results))
      BY <2>1 DEF SelectResult, SelectWith, OrderInv, TypeInv, TypeOK, TypeOKData
    <3> QED BY <2>1, <3>1 DEF SelectResult, SelectWith, Panic
  <2>2. CASE AddOrMerge
    <3>1. ~ctxDone => Clean(images')
      <4>1. cpc \in {"add", "merge"} /\ images \in Seq(Image) /\ cur \in Image
        BY <2>2 DEF AddOrMerge, Built, OrderInv, TypeInv, TypeOK, TypeOKData
      <4>2. ~ctxDone => Clean(images) /\ cur.outcome # "aborted"
        BY <4>1
      <4>3. images' = Append(images, cur)
        BY <2>2 DEF AddOrMerge, Built
      <4> HIDE DEF Untainted
      <4> QED BY <4>1, <4>2, <4>3
    <3> QED BY <2>2, <3>1 DEF AddOrMerge, Built, None
  <2>3. CASE Project \/ DrainTake
    BY <2>3 DEF Project, Projected, DrainTake, DrainLeaving, CheckThen, Panic, None
  <2>4. CASE Recover
    <3>1. report' = report \/ report' = << >>
      BY <2>4 DEF Recover
    <3>2. Clean(<< >>)
      OBVIOUS
    <3>3. Clean(report) => Clean(report')
      BY <3>1, <3>2
    <3> HIDE DEF Clean
    <3> QED BY <2>4, <3>3 DEF Recover
  <2>6. CASE BuildFinish
    <3>1. Clean(<< >>)
      OBVIOUS
    <3>2. owner # "granted"
      BY <2>6 DEF BuildFinish, OrderInv, Joined, Settled
    <3> HIDE DEF Clean
    <3> QED BY <2>6, <3>1, <3>2 DEF BuildFinish
  <2>5. CASE Enter \/ AdmitCheck \/ AdmitSend \/ SelectCanceled \/ BuildFails \/ DrainEnd
             \/ LastCheck \/ Unwind \/ Join \/ CloseDone
    <3> HIDE DEF Untainted
    <3>1. UNCHANGED <<ctxDone, wres, results, images, cur, pending, report, published,
                      owner, finished>>
      BY <2>5 DEF Enter, AdmitCheck, AdmitSend, AdmitUpTo, SelectCanceled, BuildFails,
         DrainEnd, LastCheck, Unwind, Join, CloseDone
    <3>2. Unwinding => Unwinding'
      BY <2>5 DEF Enter, AdmitCheck, AdmitSend, AdmitUpTo, SelectCanceled, BuildFails,
         DrainEnd, LastCheck, Unwind, Join, CloseDone, CheckThen, Panic
    <3> HIDE DEF Clean, Unwinding
    <3> QED BY <3>1, <3>2 DEF Untainted
  <2> QED BY <1>2, <2>1, <2>2, <2>3, <2>4, <2>5, <2>6 DEF Run
<1>3. ASSUME NEW w \in Worker, WorkerStep(w) \/ ScanReturns(w) PROVE Untainted'
  <2>0. UNCHANGED notWorker
    BY <1>3 DEF WorkerStep, WorkerQuit, WorkerTake, WorkerBegin, WorkerSend, WorkerDrop,
       ScanReturns, ScanEnds, Ended
  <2>1. wres \in [Worker -> Result \cup {None}] /\ results \in Seq(Result)
    BY DEF OrderInv, TypeInv, TypeOK, TypeOKWorkers, TypeOKData
  <2>2. ~ctxDone /\ ~Unwinding => ~WorkerCtxDone
    BY DEF OrderInv, Joined, WorkerCtxDone
  <2>3. ~ctxDone /\ ~Unwinding => \A v \in Worker : wres'[v].outcome # "aborted"
    BY <1>3, <2>1, <2>2 DEF WorkerStep, WorkerQuit, WorkerTake, WorkerBegin, WorkerSend,
       WorkerDrop, ScanReturns, ScanEnds, Ended, None
  <2>4. ~ctxDone /\ ~Unwinding => Clean(results')
    BY <1>3, <2>1 DEF WorkerStep, WorkerQuit, WorkerTake, WorkerBegin, WorkerSend,
       WorkerDrop, ScanReturns, ScanEnds, Ended
  <2> QED BY <2>0, <2>3, <2>4
<1>4. CASE UNCHANGED vars
  BY <1>4
<1> QED BY <1>1, <1>2, <1>3, <1>4 DEF Next, Terminated

\* No report handed over contains an image whose scan was cut short by a
\* cancellation (go/operation.go 120 to 154, 159).
THEOREM NoAbortedImageReported == Spec => []NoAbortedImage
<1>1. Init => OrderInv /\ Untainted
  BY TypeInit, JoinedInit, SettledInit, UntaintedInit DEF OrderInv
<1>2. OrderInv /\ Untainted /\ [Next]_vars => (OrderInv /\ Untainted)'
  BY TypeStep, JoinedStep, SettledStep, OrderedStep, UntaintedStep DEF OrderInv
<1>3. Untainted => NoAbortedImage
  BY DEF Untainted, Clean, NoAbortedImage
<1> QED BY <1>1, <1>2, <1>3, PTL DEF Spec

-----------------------------------------------------------------------------
(* The contract.  Two things are left to know of what run settles with: a     *)
(* cancelled status is never made up, though a worker also says "canceled"    *)
(* when run itself has cancelled it; and what run settles with is either a    *)
(* failure and no report or a report that passed the last check, which a      *)
(* later cancellation does not spoil.                                         *)

Settling == cpc \in {"unwind", "join", "recover"}
SettledNow == cpc \in {"close", "done"}

Honest ==
  /\ ~ctxDone /\ ~Unwinding =>
       /\ \A w \in Worker : wres[w].outcome # "canceled"
       /\ \A k \in 1..Len(results) : results[k].outcome # "canceled"
  /\ panicValue = "canceled" \/ status = 4 => ctxDone

Whole ==
  /\ SettledNow /\ status # 0 => report = << >>
  /\ SettledNow \/ (Settling /\ panicValue = "none") => Clean(report)

LEMMA ContractInit == Init => Honest /\ Whole
  BY DEF Init, Honest, Whole, None, Unwinding, Settling, SettledNow

LEMMA HonestStep == OrderInv /\ Honest /\ [Next]_vars => Honest'
<1> SUFFICES ASSUME OrderInv, Honest, [Next]_vars PROVE Honest'
  OBVIOUS
<1> USE DEF Honest, Unwinding, vars, opVars, mergeVars, runVars, chanVars, workerVars,
            ownerVars, notRun, notOwner, notWorker
<1>1. CASE OwnerNext \/ Cancel
  BY <1>1 DEF OwnerNext, Start, Wait, FinishWait, FinishTransfer, TransferUnless, Release,
     ReleaseReturn, Cancel, OrderInv, TypeInv, Places
<1>2. CASE Run
  <2>1. CASE SelectResult
    <3>1. ~ctxDone => /\ Head(results).outcome # "canceled"
                      /\ \A k \in 1..Len(Tail(results)) : Tail(results)[k].outcome # "canceled"
      BY <2>1 DEF SelectResult, SelectWith, OrderInv, TypeInv, TypeOK, TypeOKData
    <3> QED BY <2>1, <3>1 DEF SelectResult, SelectWith, Panic
  <2>2. CASE Recover
    <3>1. PanicStatus(panicValue) = 4 => panicValue = "canceled"
      BY DEF PanicStatus
    <3> QED BY <2>2, <3>1 DEF Recover
  <2>3. CASE Run /\ ~SelectResult /\ ~Recover
    BY <2>3 DEF Run, Enter, AdmitCheck, AdmitSend, AdmitUpTo, SelectCanceled, AddOrMerge, Built,
       Project, Projected, BuildFails, BuilderPanic, DrainTake, DrainLeaving, DrainEnd,
       BuildFinish, LastCheck, Unwind, Join, CloseDone, CheckThen, Panic
  <2> QED BY <1>2, <2>1, <2>2, <2>3
<1>3. ASSUME NEW w \in Worker, WorkerStep(w) \/ ScanReturns(w) PROVE Honest'
  <2>0. UNCHANGED notWorker
    BY <1>3 DEF WorkerStep, WorkerQuit, WorkerTake, WorkerBegin, WorkerSend, WorkerDrop,
       ScanReturns, ScanEnds, Ended
  <2>1. wres \in [Worker -> Result \cup {None}] /\ results \in Seq(Result)
    BY DEF OrderInv, TypeInv, TypeOK, TypeOKWorkers, TypeOKData
  <2>2. ~ctxDone /\ ~Unwinding => ~WorkerCtxDone
    BY DEF OrderInv, Joined, WorkerCtxDone
  <2>3. ~ctxDone /\ ~Unwinding => \A v \in Worker : wres'[v].outcome # "canceled"
    BY <1>3, <2>1, <2>2 DEF WorkerStep, WorkerQuit, WorkerTake, WorkerBegin, WorkerSend,
       WorkerDrop, ScanReturns, ScanEnds, Ended, None
  <2>4. ~ctxDone /\ ~Unwinding => \A k \in 1..Len(results') : results'[k].outcome # "canceled"
    BY <1>3, <2>1 DEF WorkerStep, WorkerQuit, WorkerTake, WorkerBegin, WorkerSend,
       WorkerDrop, ScanReturns, ScanEnds, Ended
  <2> QED BY <2>0, <2>3, <2>4
<1>4. CASE UNCHANGED vars
  BY <1>4
<1> QED BY <1>1, <1>2, <1>3, <1>4 DEF Next, Terminated

LEMMA WholeStep == OrderInv /\ Untainted /\ Whole /\ [Next]_vars => Whole'
<1> SUFFICES ASSUME OrderInv, Untainted, Whole, [Next]_vars PROVE Whole'
  OBVIOUS
<1> USE DEF Whole, Settling, SettledNow, vars, opVars, mergeVars, runVars, chanVars,
            workerVars, ownerVars, notRun, notOwner, notWorker
<1>0. Clean(<< >>)
  BY DEF Clean
<1>1. CASE OwnerNext \/ Cancel
  <2>1. report' = report \/ report' = << >>
    BY <1>1 DEF OwnerNext, Start, Wait, FinishWait, FinishTransfer, TransferUnless, Release,
       ReleaseReturn, Cancel
  <2>2. UNCHANGED <<status, panicValue>> /\ (cpc' = cpc \/ cpc' = "enter")
    BY <1>1 DEF OwnerNext, Start, Wait, FinishWait, FinishTransfer, TransferUnless, Release,
       ReleaseReturn, Cancel
  <2>3. Clean(report) => Clean(report')
    BY <1>0, <2>1
  <2> QED BY <1>0, <2>1, <2>2, <2>3
<1>2. CASE Run
  <2>1. CASE LastCheck
    <3>1. ~ctxDone => Clean(report)
      BY DEF Untainted
    <3> QED BY <2>1, <3>1 DEF LastCheck, CheckThen, Panic, Clean
  <2>2. CASE Recover
    <3>1. status = 0
      BY <2>2 DEF Recover, OrderInv, Settled
    <3> QED BY <1>0, <2>2, <3>1 DEF Recover, Clean
  <2>3. CASE Unwind \/ Join \/ CloseDone
    BY <2>3 DEF Unwind, Join, CloseDone, Clean
  <2>4. CASE ~(LastCheck \/ Recover \/ Unwind \/ Join \/ CloseDone)
    <3>1. cpc' \in {"recover", "unwind"} => panicValue' # "none"
      BY <1>2, <2>4 DEF Run, Enter, AdmitCheck, AdmitSend, AdmitUpTo, SelectCanceled,
         SelectResult, SelectWith, AddOrMerge, Built, Project, Projected, BuildFails,
         BuilderPanic, DrainTake, DrainLeaving, DrainEnd, BuildFinish, CheckThen, Panic, Panicked
    <3>2. cpc' \notin {"join", "close", "done"}
      BY <1>2, <2>4 DEF Run, Enter, AdmitCheck, AdmitSend, AdmitUpTo, SelectCanceled,
         SelectResult, SelectWith, AddOrMerge, Built, Project, Projected, BuildFails,
         DrainTake, DrainLeaving, DrainEnd, BuildFinish, CheckThen, Panic
    <3> QED BY <3>1, <3>2
  <2> QED BY <2>1, <2>2, <2>3, <2>4
<1>3. CASE \E w \in Worker : WorkerStep(w) \/ ScanReturns(w)
  <2>1. UNCHANGED notWorker
    BY <1>3 DEF WorkerStep, WorkerQuit, WorkerTake, WorkerBegin, WorkerSend, WorkerDrop,
       ScanReturns, ScanEnds, Ended
  <2> QED BY <2>1 DEF Clean
<1>4. CASE UNCHANGED vars
  BY <1>4 DEF Clean
<1> QED BY <1>1, <1>2, <1>3, <1>4 DEF Next, Terminated

ContractInv == OrderInv /\ Untainted /\ Honest /\ Whole

LEMMA ContractInvariant == Spec => []ContractInv
<1>1. Init => ContractInv
  BY TypeInit, JoinedInit, SettledInit, UntaintedInit, ContractInit DEF ContractInv, OrderInv
<1>2. ContractInv /\ [Next]_vars => ContractInv'
  BY TypeStep, JoinedStep, SettledStep, OrderedStep, UntaintedStep, HonestStep, WholeStep
  DEF ContractInv, OrderInv
<1> QED BY <1>1, <1>2, PTL DEF Spec

\* A clean report of all inputs in their order is what Batch calls whole.
LEMMA CleanIsWhole ==
  ASSUME report \in Seq(Image), Len(report) = NumInputs, InInputOrder(report), Clean(report)
  PROVE  report \in B!WholeReport
<1> DEFINE outcome == [i \in 1..NumInputs |-> report[i].outcome]
<1>1. \A i \in 1..NumInputs :
        /\ report[i] \in Image /\ report[i].index = i - 1
        /\ report[i].outcome \in {"complete", "failed"}
  <2> SUFFICES ASSUME NEW i \in 1..NumInputs
               PROVE  /\ report[i] \in Image /\ report[i].index = i - 1
                      /\ report[i].outcome \in {"complete", "failed"}
    OBVIOUS
  <2>1. report[i] \in Image
    OBVIOUS
  <2>2. report[i].outcome \in Response
    BY <2>1 DEF Image
  <2> QED BY <2>1, <2>2 DEF InInputOrder, Clean, Response
<1>2. outcome \in [1..NumInputs -> B!ReportedOutcome]
  BY <1>1 DEF B!ReportedOutcome
<1>3. \A i \in 1..NumInputs : report[i] = [index |-> i - 1, outcome |-> outcome[i]]
  BY <1>1 DEF Image
<1>4. report = [i \in 1..NumInputs |-> report[i]]
  OBVIOUS
<1>5. report = [i \in 1..NumInputs |-> [index |-> i - 1, outcome |-> outcome[i]]]
  BY <1>3, <1>4
<1> HIDE DEF outcome
<1> QED BY <1>2, <1>5 DEF B!WholeReport

\* Each step of the owner is the step of Batch of the same name.
LEMMA OwnerRefines ==
  ASSUME ContractInv, OwnerNext \/ Cancel
  PROVE  [B!Next]_(B!vars)
<1> USE DEF ContractInv, OrderInv, opVars, mergeVars, runVars, chanVars, workerVars, ownerVars,
            notRun, notOwner, notWorker
<1>1. CASE Start
  BY <1>1 DEF Start, B!Next, B!Start
<1>2. CASE Cancel
  BY <1>2 DEF Cancel, B!Next, B!Cancel
<1>3. CASE Wait
  BY <1>3 DEF Wait, B!vars
<1>4. CASE FinishWait
  <2>1. WaitStatus = 0 => ~ctxDone /\ status = 0
    BY DEF WaitStatus, PanicStatus
  <2> QED BY <1>4, <2>1 DEF FinishWait, B!Next, B!Grant, B!vars
<1>5. CASE FinishTransfer
  <2>1. done
    BY <1>5 DEF FinishTransfer, TransferUnless, Settled
  <2> QED BY <1>5, <2>1 DEF FinishTransfer, TransferUnless, B!Next, B!Transfer
<1>6. CASE Release
  BY <1>6 DEF Release, B!Next, B!Release
<1>7. CASE ReleaseReturn
  BY <1>7 DEF ReleaseReturn, B!Next, B!Released
<1> QED BY <1>1, <1>2, <1>3, <1>4, <1>5, <1>6, <1>7 DEF OwnerNext

\* Of all that run does the owner sees one step, the last.
LEMMA RunRefines ==
  ASSUME ContractInv, Run
  PROVE  [B!Next]_(B!vars)
<1> USE DEF ContractInv, OrderInv, opVars, mergeVars, runVars, chanVars, workerVars, ownerVars,
            notRun, notOwner, notWorker
<1>1. ~done
  BY DEF Joined, Run, Enter, AdmitCheck, AdmitSend, AdmitUpTo, SelectCanceled, SelectResult,
     SelectWith, AddOrMerge, Built, Project, Projected, BuildFails, DrainTake, DrainLeaving,
     DrainEnd, BuildFinish, LastCheck, Unwind, Join, Recover, CloseDone
<1>2. CASE CloseDone
  <2>1. started /\ ~finished /\ owner # "released" /\ done' = TRUE
        /\ UNCHANGED <<started, ctxDone, finished, published, owner, status, report>>
    BY <1>1, <1>2 DEF CloseDone, TypeInv, Places, Joined, Settled
  <2>2. status = 0 => report \in B!WholeReport
    BY <1>2, <2>1, CleanIsWhole
    DEF CloseDone, TypeInv, TypeOK, TypeOKData, Settled, Ordered, Whole, SettledNow
  <2>3. status # 0 => status \in {1, 2, 4} /\ report = << >> /\ (status = 4 => ctxDone)
    BY <1>2 DEF CloseDone, TypeInv, TypeOK, TypeOKControl, Whole, SettledNow, Honest
  <2>4. B!Settle
    BY <1>1, <2>1, <2>2, <2>3 DEF B!Settle
  <2> QED BY <2>4 DEF B!Next
<1>3. CASE ~CloseDone
  <2>1. UNCHANGED <<started, finished, ctxDone, done, ownerVars>>
    BY <1>3 DEF Run, Enter, AdmitCheck, AdmitSend, AdmitUpTo, SelectCanceled, SelectResult,
       SelectWith, AddOrMerge, Built, Project, Projected, BuildFails, DrainTake, DrainLeaving,
       DrainEnd, BuildFinish, LastCheck, Unwind, Join, Recover
  <2> QED BY <1>1, <2>1 DEF B!vars
<1> QED BY <1>2, <1>3

\* The operation with its workers, channels and merge keeps the contract that its
\* owner relies on: it settles once, whole or with nothing, claims a cancellation
\* only if there was one, and hands over at most one report, none after a
\* cancellation that finish could have seen (go/operation.go 47 to 192).
THEOREM OperationImplementsBatch == Spec => ImplementsBatch
<1>1. Init => B!Init
  BY DEF Init, B!Init
<1>2. ContractInv /\ [Next]_vars => [B!Next]_(B!vars)
  <2> SUFFICES ASSUME ContractInv, [Next]_vars PROVE [B!Next]_(B!vars)
    OBVIOUS
  <2>1. CASE \E w \in Worker : WorkerStep(w) \/ ScanReturns(w)
    <3>1. UNCHANGED <<opVars, ownerVars>>
      BY <2>1 DEF WorkerStep, WorkerQuit, WorkerTake, WorkerBegin, WorkerSend, WorkerDrop,
         ScanReturns, ScanEnds, Ended, notWorker
    <3> QED BY <3>1 DEF opVars, ownerVars, B!vars
  <2>2. CASE UNCHANGED vars
    BY <2>2 DEF vars, opVars, ownerVars, B!vars
  <2> QED BY <2>1, <2>2, OwnerRefines, RunRefines DEF Next, Terminated
<1> QED BY <1>1, <1>2, ContractInvariant, PTL DEF Spec, ImplementsBatch, B!Spec

(***************************************************************************)
(* The flow of indices through the channels: the window of admitted inputs *)
(* is bounded, neither the coordinator nor a worker ever waits for room in *)
(* a channel, and no index is lost or duplicated.                          *)
(*                                                                         *)
(* The argument: jobs holds the consecutive indices from Taken to          *)
(* admitted - 1; every index below Taken that is still with a worker, in   *)
(* results, in pending or in the coordinator's hands is at least merged;   *)
(* and no two of these places hold the same index.  Hence what is in       *)
(* flight never exceeds the window, and the window never exceeds Count.    *)
(***************************************************************************)
\* The window and the order of the jobs channel.
Window0 ==
  /\ Len(jobs) <= admitted /\ merged <= Taken
  /\ admitted - merged <= Count
  /\ cpc \in {"admit", "send"} => admitted - merged < Count
  /\ cpc \in {"idle", "enter"} => jobs = << >>
  /\ \A k \in 1..Len(jobs) : jobs[k] = Taken + k - 1

InFlight(i) == merged <= i /\ i < Taken

\* Everything in flight is in the window ...
Within ==
  /\ \A w \in Held : InFlight(wres[w].index)
  /\ \A k \in 1..Len(results) : InFlight(results[k].index)
  /\ \A i \in DOMAIN pending : InFlight(i)
  /\ Working => InFlight(cur.index)

\* ... and in one place.
Apart ==
  /\ \A v, w \in Held : v # w => wres[v].index # wres[w].index
  /\ \A k, l \in 1..Len(results) : k # l => results[k].index # results[l].index
  /\ \A w \in Held : \A k \in 1..Len(results) : wres[w].index # results[k].index
  /\ \A w \in Held : wres[w].index \notin DOMAIN pending
  /\ \A k \in 1..Len(results) : results[k].index \notin DOMAIN pending
  /\ Working => /\ cur.index \notin DOMAIN pending
                /\ \A w \in Held : wres[w].index # cur.index
                /\ \A k \in 1..Len(results) : results[k].index # cur.index

Flow == Window0 /\ Within /\ Apart
FlowInv == TypeInv /\ Joined /\ Flow

\* What is in flight are natural numbers.
LEMMA IndexTypes ==
  TypeInv => /\ \A w \in Held : wres[w].index \in Nat
             /\ \A k \in 1..Len(results) : results[k].index \in Nat
             /\ \A i \in DOMAIN pending : i \in Nat
<1> SUFFICES ASSUME TypeInv
             PROVE /\ \A w \in Held : wres[w].index \in Nat
                   /\ \A k \in 1..Len(results) : results[k].index \in Nat
                   /\ \A i \in DOMAIN pending : i \in Nat
  OBVIOUS
<1>1. \A r \in Result : r.index \in Nat
  BY OperationAssumption DEF Result, Index
<1>2. \A w \in Held : wres[w] \in Result
  BY DEF TypeInv, TypeOK, TypeOKWorkers, Held, Busy
<1>3. \A k \in 1..Len(results) : results[k] \in Result
  BY DEF TypeInv, TypeOK, TypeOKData
<1>4. \A i \in DOMAIN pending : i \in Nat
  BY OperationAssumption DEF TypeInv, TypeOK, TypeOKData, Index
<1> QED BY <1>1, <1>2, <1>3, <1>4

LEMMA FlowInit == Init => Flow
<1> SUFFICES ASSUME Init PROVE Flow
  OBVIOUS
<1>1. Held = {} /\ ~Working
  BY DEF Init, Held, Busy, Working
<1>2. DOMAIN pending = {} /\ Len(jobs) = 0 /\ Len(results) = 0 /\ admitted = 0 /\ merged = 0
      /\ jobs = << >> /\ cpc = "idle"
  BY DEF Init
<1>3. Window0
  BY <1>2, CountBounds DEF Window0, Taken
<1> QED BY <1>1, <1>2, <1>3 DEF Flow, Within, Apart

\* The owner and the canceller leave the flow alone.
LEMMA FlowOwner == FlowInv /\ (OwnerNext \/ Cancel) => Flow'
<1> SUFFICES ASSUME FlowInv, OwnerNext \/ Cancel PROVE Flow'
  OBVIOUS
<1>1. UNCHANGED <<jobs, results, admitted, merged, pending, cur, wpc, wres>>
  BY DEF OwnerNext, Start, Wait, FinishWait, FinishTransfer, TransferUnless, Release,
     ReleaseReturn, Cancel, notOwner, runVars, mergeVars, chanVars, workerVars
<1>2. cpc' = cpc \/ (cpc = "idle" /\ cpc' = "enter")
  BY DEF OwnerNext, Start, Wait, FinishWait, FinishTransfer, TransferUnless, Release,
     ReleaseReturn, Cancel, notOwner, runVars, FlowInv, TypeInv, Places
<1>3. Held' = Held /\ Working' = Working /\ Taken' = Taken
  BY <1>1, <1>2 DEF Held, Busy, Working, Taken
<1> QED
  BY <1>1, <1>2, <1>3 DEF FlowInv, Flow, Window0, Within, Apart, InFlight

\* A step of a worker moves one index one place further.
LEMMA FlowWorker ==
  ASSUME NEW w \in Worker, FlowInv, WorkerStep(w) \/ ScanReturns(w)
  PROVE  Flow'
<1> USE DEF FlowInv, Flow
<1>1. UNCHANGED <<cpc, admitted, merged, pending, cur>>
  BY DEF WorkerStep, WorkerQuit, WorkerTake, WorkerBegin, WorkerSend, WorkerDrop,
     ScanReturns, ScanEnds, Ended, notWorker, runVars, mergeVars
<1>2. wpc \in [Worker -> {"unborn", "select", "begin", "scan", "send", "exited"}]
      /\ wres \in [Worker -> Result \cup {None}]
      /\ jobs \in Seq(Index) /\ results \in Seq(Result)
      /\ admitted \in Nat /\ merged \in Nat
  BY DEF TypeInv, TypeOK, TypeOKData, TypeOKWorkers, TypeOKControl
<1>3. Working' = Working
  BY <1>1 DEF Working
<1>4. CASE WorkerTake(w)
  <2>1. jobs # << >> /\ jobs' = Tail(jobs) /\ UNCHANGED results
        /\ wres' = [wres EXCEPT ![w] = [index |-> Head(jobs), outcome |-> "complete"]]
        /\ Held' = Held \cup {w} /\ w \notin Held
    BY <1>2, <1>4 DEF WorkerTake, Held, Busy
  <2>2. Head(jobs) = Taken /\ Taken' = Taken + 1 /\ Len(jobs') = Len(jobs) - 1
        /\ Taken \in Int
    BY <1>1, <1>2, <2>1 DEF Window0, Taken
  <2>3. Window0'
    <3>1. \A k \in 1..Len(jobs') : jobs'[k] = jobs[k + 1]
      BY <1>2, <2>1
    <3>2. \A k \in 1..Len(jobs') : jobs'[k] = Taken' + k - 1
      BY <1>2, <2>2, <3>1 DEF Window0
    <3>3. cpc \notin {"idle", "enter"}
      BY <1>4 DEF WorkerTake, Joined
    <3>4. Len(jobs') <= admitted /\ merged <= Taken'
      BY <1>2, <2>2 DEF Window0
    <3> QED BY <1>1, <3>2, <3>3, <3>4 DEF Window0
  <2>4. \A v \in Held' : wres'[v].index = IF v = w THEN Taken ELSE wres[v].index
    BY <1>2, <2>1, <2>2 DEF Held
  <2>5. Within'
    <3>1. \A v \in Held' : merged <= wres'[v].index /\ wres'[v].index < Taken + 1
      BY <1>2, <2>1, <2>2, <2>4, IndexTypes DEF Within, InFlight, Window0
    <3>2. \A k \in 1..Len(results) : InFlight(results[k].index)'
      BY <1>1, <1>2, <2>1, <2>2, IndexTypes DEF Within, InFlight
    <3>3. \A i \in DOMAIN pending : InFlight(i)'
      BY <1>1, <1>2, <2>2, IndexTypes DEF Within, InFlight
    <3>4. Working => InFlight(cur.index)'
      BY <1>1, <1>2, <2>2, OperationAssumption
      DEF Within, InFlight, Working, TypeInv, TypeOK, TypeOKData, Image, Index
    <3> QED BY <1>1, <1>3, <2>1, <2>2, <3>1, <3>2, <3>3, <3>4 DEF Within, InFlight
  <2>6. \A v \in Held : wres'[v].index # Taken /\ wres'[v].index = wres[v].index
    BY <1>2, <2>1, <2>2, <2>4, IndexTypes DEF Within, InFlight, Held
  <2>7. wres'[w].index = Taken
    BY <2>1, <2>4
  <2>8. Apart'
    <3>1. \A u, v \in Held' : u # v => wres'[u].index # wres'[v].index
      BY <2>1, <2>6, <2>7 DEF Apart
    <3>2. \A v \in Held' : \A k \in 1..Len(results) : wres'[v].index # results[k].index
      BY <2>1, <2>2, <2>6, <2>7, IndexTypes DEF Apart, Within, InFlight
    <3>3. \A v \in Held' : wres'[v].index \notin DOMAIN pending
      BY <2>1, <2>2, <2>6, <2>7, IndexTypes DEF Apart, Within, InFlight
    <3>4. Working => \A v \in Held' : wres'[v].index # cur.index
      BY <2>1, <2>2, <2>6, <2>7 DEF Apart, Within, InFlight
    <3> QED BY <1>1, <1>3, <2>1, <3>1, <3>2, <3>3, <3>4 DEF Apart
  <2> QED BY <2>3, <2>5, <2>8
<1>5. CASE WorkerSend(w)
  <2>1. UNCHANGED jobs /\ results' = Append(results, wres[w]) /\ Held' = Held \ {w} /\ w \in Held
        /\ wres[w] \in Result
        /\ \A v \in Held' : wres'[v] = wres[v]
    BY <1>2, <1>5 DEF WorkerSend, Held, Busy, TypeInv, TypeOK, TypeOKWorkers
  <2>2. Taken' = Taken
    BY <1>1, <2>1 DEF Taken
  <2>3. Len(results') = Len(results) + 1
        /\ \A k \in 1..Len(results') :
             results'[k] = IF k <= Len(results) THEN results[k] ELSE wres[w]
    BY <1>2, <2>1
  <2>4. Window0'
    BY <1>1, <2>1, <2>2 DEF Window0
  <2>5. Within'
    BY <1>1, <1>2, <1>3, <2>1, <2>2, <2>3 DEF Within, InFlight
  <2>6. \A u, v \in Held' : u # v => wres'[u].index # wres'[v].index
    BY <2>1 DEF Apart
  <2>7. \A v \in Held' : /\ v \in Held /\ v # w /\ wres'[v].index = wres[v].index
                         /\ wres[v].index # wres[w].index
    BY <2>1 DEF Apart
  <2>8. \A k \in 1..Len(results) : /\ results'[k] = results[k] /\ k \in 1..Len(results')
                                   /\ results[k].index # wres[w].index
    BY <1>2, <2>1, <2>3 DEF Apart
  <2>9. \A k \in 1..Len(results') : k \in 1..Len(results) \/ results'[k] = wres[w]
    BY <1>2, <2>3
  <2>10. Apart'
    <3>1. \A k, l \in 1..Len(results') : k # l => results'[k].index # results'[l].index
      <4>1. ASSUME NEW k \in 1..Len(results'), NEW l \in 1..Len(results'), k # l
            PROVE k \in 1..Len(results) \/ l \in 1..Len(results)
        BY <1>2, <2>3, <4>1
      <4> QED BY <2>8, <2>9, <4>1 DEF Apart
    <3>2. \A v \in Held' : \A k \in 1..Len(results') : wres'[v].index # results'[k].index
      BY <2>7, <2>8, <2>9 DEF Apart
    <3>3. \A v \in Held' : wres'[v].index \notin DOMAIN pending
      BY <2>7 DEF Apart
    <3>4. \A k \in 1..Len(results') : results'[k].index \notin DOMAIN pending
      BY <2>1, <2>8, <2>9 DEF Apart
    <3>5. Working => /\ \A v \in Held' : wres'[v].index # cur.index
                     /\ \A k \in 1..Len(results') : results'[k].index # cur.index
      BY <2>1, <2>7, <2>8, <2>9 DEF Apart
    <3>6. Working => cur.index \notin DOMAIN pending
      BY DEF Apart
    <3> QED BY <1>1, <1>3, <2>6, <3>1, <3>2, <3>3, <3>4, <3>5, <3>6 DEF Apart
  <2> QED BY <2>4, <2>5, <2>10
<1>6. CASE WorkerQuit(w) \/ WorkerDrop(w) \/ WorkerBegin(w) \/ ScanReturns(w)
  <2>1. UNCHANGED <<jobs, results>>
    BY <1>6 DEF WorkerQuit, WorkerDrop, WorkerBegin, ScanReturns, ScanEnds, Ended, chanVars
  <2>2. Held' \subseteq Held /\ \A v \in Held' : wres'[v].index = wres[v].index
    BY <1>2, <1>6 DEF WorkerQuit, WorkerDrop, WorkerBegin, ScanReturns, ScanEnds, Ended,
       Held, Busy
  <2>3. Taken' = Taken
    BY <1>1, <2>1 DEF Taken
  <2> QED
    BY <1>1, <1>3, <2>1, <2>2, <2>3 DEF Window0, Within, Apart, InFlight
<1> QED BY <1>4, <1>5, <1>6 DEF WorkerStep

\* A step of run admits an index, takes a result in hand, sets it aside or
\* merges it; the last is only done to the lowest index in flight.
LEMMA FlowRun == FlowInv /\ Run => Flow'
<1> SUFFICES ASSUME FlowInv, Run PROVE Flow'
  OBVIOUS
<1> USE DEF FlowInv, Flow
<1>1. jobs \in Seq(Index) /\ results \in Seq(Result) /\ admitted \in Nat /\ merged \in Nat
      /\ NumInputs \in Nat
  BY OperationAssumption DEF TypeInv, TypeOK, TypeOKData, TypeOKControl
<1>2. CASE Enter
  <2>1. UNCHANGED <<jobs, results, admitted, merged, pending, cur>>
        /\ cpc' \in {"recover", "admit", "drain"} /\ (cpc' = "admit" => Count > 0)
        /\ cpc = "enter"
    BY <1>2 DEF Enter, mergeVars, chanVars
  <2>2. Held = {} /\ Held' = {} /\ Taken' = Taken /\ ~Working /\ ~Working'
    BY <1>2, <2>1 DEF Enter, Held, Busy, Taken, Working, Joined
  <2>3. Window0'
    BY <1>1, <2>1, <2>2, CountBounds DEF Window0, TypeInv, Places
  <2> QED BY <2>1, <2>2, <2>3 DEF Within, Apart, InFlight
<1>3. CASE AdmitSend
  <2>1. Len(jobs) < Count /\ jobs' = Append(jobs, admitted) /\ admitted' = admitted + 1
        /\ cpc = "send" /\ cpc' \in {"admit", "drain"} /\ (cpc' = "admit" => admitted' < Count)
        /\ UNCHANGED <<results, merged, pending, cur, wpc, wres>>
    BY <1>3 DEF AdmitSend, AdmitUpTo, workerVars
  <2>2. admitted \in Index
    BY <1>1, <2>1 DEF TypeInv, Places, Index
  <2>3. Len(jobs') = Len(jobs) + 1
        /\ \A k \in 1..Len(jobs') : jobs'[k] = IF k <= Len(jobs) THEN jobs[k] ELSE admitted
    BY <1>1, <2>1, <2>2
  <2>4. Taken' = Taken /\ Taken \in Int /\ Taken = admitted - Len(jobs)
    BY <1>1, <2>1, <2>3 DEF Taken
  <2>5. Held' = Held /\ ~Working /\ ~Working'
    BY <2>1 DEF Held, Busy, Working
  <2>6. \A k \in 1..Len(jobs') : jobs'[k] = Taken' + k - 1
    <3>1. \A k \in 1..Len(jobs) : jobs[k] = Taken + k - 1
      BY DEF Window0
    <3>2. Len(jobs) \in Nat /\ admitted = Taken + (Len(jobs) + 1) - 1
      BY <1>1, <2>4
    <3> QED BY <2>3, <2>4, <3>1, <3>2
  <2>7. Window0'
    BY <1>1, <2>1, <2>3, <2>4, <2>6, CountBounds DEF Window0
  <2> QED BY <2>1, <2>4, <2>5, <2>7 DEF Within, Apart, InFlight
<1>4. CASE SelectResult
  <2>1. results # << >> /\ results' = Tail(results) /\ ~Working /\ cpc = "select"
        /\ UNCHANGED <<jobs, admitted, merged, pending, wpc, wres>>
        /\ (Working' => cur' = Head(results))
        /\ cpc' \in {"add", "project", "unwind"}
    BY <1>4 DEF SelectResult, SelectWith, Panic, Working, workerVars
  <2>2. Len(results') = Len(results) - 1 /\ Head(results) = results[1] /\ 1 \in 1..Len(results)
        /\ \A k \in 1..Len(results') : results'[k] = results[k + 1] /\ k + 1 \in 1..Len(results)
    BY <1>1, <2>1
  <2>3. Taken' = Taken /\ Held' = Held
    BY <2>1 DEF Taken, Held, Busy
  <2>4. Window0'
    BY <2>1, <2>3 DEF Window0
  <2>5. Within'
    BY <1>1, <2>1, <2>2, <2>3 DEF Within, InFlight
  <2>6. Apart'
    BY <1>1, <2>1, <2>2, <2>3 DEF Apart
  <2> QED BY <2>4, <2>5, <2>6
<1>5. CASE AddOrMerge
  <2>1. Working /\ cur.index = merged /\ merged' = merged + 1 /\ ~Working'
        /\ UNCHANGED <<jobs, results, admitted, pending, wpc, wres>>
        /\ cpc' \in {"admit", "drain"}
    BY <1>5 DEF AddOrMerge, Built, Working, TypeInv, Places, notRun, chanVars, workerVars
  <2>2. Taken' = Taken /\ Held' = Held /\ Taken \in Int /\ Taken <= admitted
    BY <1>1, <2>1 DEF Taken, Held, Busy
  <2>3. merged < Taken
    BY <2>1 DEF Within, InFlight
  <2>4. Window0'
    BY <1>1, <2>1, <2>2, <2>3, CountBounds DEF Window0
  <2>5. (\A w \in Held : wres[w].index # merged)
        /\ (\A k \in 1..Len(results) : results[k].index # merged)
        /\ merged \notin DOMAIN pending
    BY <2>1 DEF Apart
  <2>6. (\A w \in Held : wres[w].index \in Int)
        /\ (\A k \in 1..Len(results) : results[k].index \in Int)
        /\ (\A i \in DOMAIN pending : i \in Int)
    BY IndexTypes
  <2>7. Within'
    BY <1>1, <2>1, <2>2, <2>5, <2>6 DEF Within, InFlight
  <2> QED BY <2>1, <2>2, <2>4, <2>7 DEF Apart
<1>6. CASE Project
  <2>1. Working /\ ~Working' /\ cpc' = "drain" /\ DOMAIN pending' = DOMAIN pending \cup {cur.index}
        /\ UNCHANGED <<jobs, results, admitted, merged, wpc, wres>>
    BY <1>6 DEF Project, Projected, Working, notRun, chanVars, workerVars
  <2>2. Taken' = Taken /\ Held' = Held
    BY <2>1 DEF Taken, Held, Busy
  <2> QED BY <2>1, <2>2 DEF Window0, Within, InFlight, Apart
<1>7. CASE DrainTake
  <2>1. ~Working /\ cur'.index = merged /\ merged \in DOMAIN pending
        /\ DOMAIN pending' = DOMAIN pending \ {merged} /\ cpc' \in {"merge", "unwind"}
        /\ UNCHANGED <<jobs, results, admitted, merged, wpc, wres>>
    BY <1>7 DEF DrainTake, DrainLeaving, CheckThen, Panic, Working, notRun, chanVars, workerVars
  <2>2. Taken' = Taken /\ Held' = Held
    BY <2>1 DEF Taken, Held, Busy
  <2> QED BY <2>1, <2>2 DEF Window0, Within, InFlight, Apart
<1>8. CASE AdmitCheck \/ SelectCanceled \/ BuildFails \/ DrainEnd \/ BuildFinish \/ LastCheck
           \/ Unwind \/ Join \/ Recover \/ CloseDone
  <2>1. UNCHANGED <<jobs, results, admitted, merged, pending, cur, wpc, wres>>
    BY <1>8 DEF AdmitCheck, SelectCanceled, BuildFails, DrainEnd, BuildFinish, LastCheck,
       Unwind, Join, Recover, CloseDone, notRun, mergeVars, chanVars, workerVars
  <2>2. (Working' => Working) /\ cpc' \notin {"idle", "enter", "admit"}
        /\ (cpc' = "send" => cpc = "admit")
    BY <1>8 DEF AdmitCheck, SelectCanceled, BuildFails, DrainEnd, BuildFinish, LastCheck,
       Unwind, Join, Recover, CloseDone, CheckThen, Panic, Working
  <2>3. Taken' = Taken /\ Held' = Held
    BY <2>1 DEF Taken, Held, Busy
  <2>4. Window0'
    BY <2>1, <2>2, <2>3 DEF Window0
  <2> QED BY <2>1, <2>2, <2>3, <2>4 DEF Within, InFlight, Apart
<1> QED BY <1>2, <1>3, <1>4, <1>5, <1>6, <1>7, <1>8 DEF Run

LEMMA FlowInvariant == Spec => []FlowInv
<1>1. Init => FlowInv
  BY TypeInit, JoinedInit, FlowInit DEF FlowInv
<1>2. FlowInv /\ [Next]_vars => FlowInv'
  <2> SUFFICES ASSUME FlowInv, [Next]_vars PROVE FlowInv'
    OBVIOUS
  <2>1. TypeInv' /\ Joined'
    BY TypeStep, JoinedStep DEF FlowInv
  <2>2. CASE UNCHANGED vars
    <3>1. UNCHANGED <<jobs, results, admitted, merged, pending, cur, wpc, wres, cpc>>
      BY <2>2 DEF vars, runVars, mergeVars, chanVars, workerVars
    <3>2. Taken' = Taken /\ Held' = Held /\ Working' = Working
      BY <3>1 DEF Taken, Held, Busy, Working
    <3>3. Flow'
      BY <3>1, <3>2 DEF FlowInv, Flow, Window0, Within, InFlight, Apart
    <3> QED BY <2>1, <3>3 DEF FlowInv
  <2> QED
    BY <2>1, <2>2, FlowOwner, FlowRun, FlowWorker DEF Next, Terminated, FlowInv
<1> QED BY <1>1, <1>2, PTL DEF Spec

\* At most Count inputs are between admission and merge (go/operation.go 106 to
\* 151), so the scans cannot outrun a slow first image without bound.
THEOREM WindowBounded == Spec => []Window
<1>1. FlowInv => Window
  BY DEF FlowInv, Flow, Window0, Window, Taken, TypeInv, TypeOK, TypeOKData, TypeOKControl
<1> QED BY <1>1, FlowInvariant, PTL

\* The coordinator never finds the jobs channel full and no worker finds the
\* results channel full (go/operation.go 69, 70, 97, 110): a worker's result and
\* those in the channel have different indices of the window.
THEOREM ChannelsNeverBlock == Spec => []NeverBlocks
<1>1. ASSUME FlowInv, NEW w \in Worker, wpc[w] = "send" PROVE Len(results) < Count
  <2> DEFINE n == Len(results)
             at == [k \in 0..n |-> IF k = 0 THEN wres[w].index ELSE results[k].index]
             span == merged..(Taken - 1)
  <2>1. n \in Nat /\ Taken \in Int /\ merged \in Nat /\ admitted \in Nat
        /\ Taken <= admitted /\ admitted - merged <= Count /\ Count \in Nat /\ merged <= Taken
    BY <1>1, CountBounds
    DEF FlowInv, Flow, Window0, Taken, TypeInv, TypeOK, TypeOKData, TypeOKControl
  <2>2. w \in Held
    BY <1>1 DEF Held, Busy
  <2>3. wres[w].index \in Int /\ \A k \in 1..n : results[k].index \in Int
    BY <1>1, <2>2, IndexTypes DEF FlowInv
  <2>4. at \in [0..n -> span]
    BY <1>1, <2>1, <2>2, <2>3 DEF FlowInv, Flow, Within, InFlight
  <2>5. \A k, l \in 0..n : k # l => at[k] # at[l]
    BY <1>1, <2>1, <2>2 DEF FlowInv, Flow, Apart
  <2>6. at \in Injection(0..n, span)
    BY <2>4, <2>5 DEF Injection, IsInjective
  <2>7. IsFiniteSet(span) /\ Cardinality(span) = Taken - merged
    <3>1. Taken - 1 \in Int /\ merged \in Int
      BY <2>1
    <3>2. IsFiniteSet(span)
          /\ Cardinality(span) = IF merged > Taken - 1 THEN 0 ELSE (Taken - 1) - merged + 1
      BY <3>1, FS_Interval
    <3> QED BY <2>1, <3>2
  <2>8. Cardinality(0..n) = n + 1
    BY <2>1, FS_Interval
  <2>9. Cardinality(0..n) <= Cardinality(span)
    BY <2>6, <2>7, FS_Injection
  <2> QED BY <2>1, <2>7, <2>8, <2>9
<1>2. FlowInv => SendNeverBlocks
  BY <1>1 DEF SendNeverBlocks
<1>3. FlowInv => AdmitNeverBlocks
  BY CountBounds
  DEF FlowInv, Flow, Window0, AdmitNeverBlocks, Taken, TypeInv, TypeOK, TypeOKData, TypeOKControl
<1>4. FlowInv => NeverBlocks
  BY <1>2, <1>3 DEF NeverBlocks
<1> QED BY <1>4, FlowInvariant, PTL

-----------------------------------------------------------------------------
(* Nothing is lost.  As long as nobody has cancelled and run does not unwind, *)
(* each index that left the jobs channel and is not merged yet is somewhere.  *)

Somewhere(i) ==
  \/ \E w \in Held : wres[w].index = i
  \/ \E k \in 1..Len(results) : results[k].index = i
  \/ i \in DOMAIN pending
  \/ Working /\ cur.index = i

Accounted == ~ctxDone /\ ~Unwinding => \A i \in Nat : InFlight(i) => Somewhere(i)

LEMMA AccountedInit == Init => Accounted
<1> SUFFICES ASSUME Init PROVE Accounted
  OBVIOUS
<1>1. merged = 0 /\ admitted = 0 /\ Len(jobs) = 0
  BY DEF Init
<1>2. Taken = 0
  BY <1>1 DEF Taken
<1> QED BY <1>1, <1>2 DEF Accounted, InFlight

\* A worker hands on what it takes; it drops nothing before a cancellation.
LEMMA AccountedWorker ==
  ASSUME NEW w \in Worker, FlowInv, Accounted, WorkerStep(w) \/ ScanReturns(w)
  PROVE  Accounted'
<1> SUFFICES ASSUME ~ctxDone, ~Unwinding, NEW i \in Nat, InFlight(i)'
             PROVE  Somewhere(i)'
  <2>1. UNCHANGED <<ctxDone, cpc>>
    BY DEF WorkerStep, WorkerQuit, WorkerTake, WorkerBegin, WorkerSend, WorkerDrop,
       ScanReturns, ScanEnds, Ended, notWorker, opVars, runVars
  <2> QED BY <2>1 DEF Accounted, Unwinding
<1>1. UNCHANGED <<cpc, admitted, merged, pending, cur>>
  BY DEF WorkerStep, WorkerQuit, WorkerTake, WorkerBegin, WorkerSend, WorkerDrop,
     ScanReturns, ScanEnds, Ended, notWorker, runVars, mergeVars
<1>2. wpc \in [Worker -> {"unborn", "select", "begin", "scan", "send", "exited"}]
      /\ wres \in [Worker -> Result \cup {None}]
      /\ jobs \in Seq(Index) /\ results \in Seq(Result)
      /\ admitted \in Nat /\ merged \in Nat
  BY DEF FlowInv, TypeInv, TypeOK, TypeOKData, TypeOKWorkers, TypeOKControl
<1>3. ~WorkerCtxDone
  BY DEF FlowInv, Joined, WorkerCtxDone, Unwinding
<1>4. Working' = Working
  BY <1>1 DEF Working
<1>5. InFlight(i) => Somewhere(i)
  BY DEF Accounted
<1>6. CASE WorkerTake(w)
  <2>1. jobs # << >> /\ jobs' = Tail(jobs) /\ UNCHANGED results
        /\ Held' = Held \cup {w} /\ w \notin Held
        /\ wres' = [wres EXCEPT ![w] = [index |-> Head(jobs), outcome |-> "complete"]]
    BY <1>2, <1>6 DEF WorkerTake, Held, Busy
  <2>2. Head(jobs) = Taken /\ Taken' = Taken + 1 /\ Taken \in Int
    BY <1>1, <1>2, <2>1 DEF FlowInv, Flow, Window0, Taken
  <2>3. wres'[w].index = Taken /\ \A v \in Held : wres'[v] = wres[v]
    BY <1>2, <2>1, <2>2 DEF Held
  <2>4. CASE i = Taken
    BY <2>1, <2>3, <2>4 DEF Somewhere
  <2>5. CASE i # Taken
    <3>1. InFlight(i)
      BY <1>1, <1>2, <2>2, <2>5 DEF InFlight
    <3> QED BY <1>1, <1>4, <1>5, <2>1, <2>3, <3>1 DEF Somewhere
  <2> QED BY <2>4, <2>5
<1>7. CASE WorkerSend(w)
  <2>1. UNCHANGED jobs /\ results' = Append(results, wres[w]) /\ Held' = Held \ {w}
        /\ wres[w] \in Result /\ \A v \in Held' : wres'[v] = wres[v]
    BY <1>2, <1>7 DEF WorkerSend, Held, Busy, FlowInv, TypeInv, TypeOK, TypeOKWorkers
  <2>2. Len(results') = Len(results) + 1 /\ Len(results) \in Nat
        /\ \A k \in 1..Len(results') :
             results'[k] = IF k <= Len(results) THEN results[k] ELSE wres[w]
    BY <1>2, <2>1
  <2>3. Len(results') \in 1..Len(results') /\ results'[Len(results')] = wres[w]
        /\ \A k \in 1..Len(results) : k \in 1..Len(results') /\ results'[k] = results[k]
    BY <2>2
  <2>4. InFlight(i)
    BY <1>1, <2>1 DEF InFlight, Taken
  <2> QED BY <1>1, <1>4, <1>5, <2>1, <2>3, <2>4 DEF Somewhere
<1>8. CASE WorkerQuit(w) \/ WorkerDrop(w) \/ WorkerBegin(w) \/ ScanReturns(w)
  <2>1. UNCHANGED <<jobs, results>>
    BY <1>8 DEF WorkerQuit, WorkerDrop, WorkerBegin, ScanReturns, ScanEnds, Ended, chanVars
  <2>2. Held \subseteq Held' /\ \A v \in Held : wres'[v].index = wres[v].index
    BY <1>2, <1>3, <1>8 DEF WorkerQuit, WorkerDrop, WorkerBegin, ScanReturns, ScanEnds, Ended,
       Held, Busy
  <2>3. InFlight(i)
    BY <1>1, <2>1 DEF InFlight, Taken
  <2> QED BY <1>1, <1>4, <1>5, <2>1, <2>2, <2>3 DEF Somewhere
<1> QED BY <1>6, <1>7, <1>8 DEF WorkerStep

\* run moves one index on, or merges it.
LEMMA AccountedRun == FlowInv /\ Accounted /\ Run => Accounted'
<1> SUFFICES ASSUME FlowInv, Accounted, Run, ~ctxDone', ~Unwinding', NEW i \in Nat, InFlight(i)'
             PROVE  Somewhere(i)'
  BY DEF Accounted
<1>0. ~ctxDone /\ ~Unwinding
  BY DEF Run, Enter, AdmitCheck, AdmitSend, AdmitUpTo, SelectCanceled, SelectResult, SelectWith,
     AddOrMerge, Built, Project, Projected, BuildFails, DrainTake, DrainLeaving, DrainEnd,
     BuildFinish, LastCheck, Unwind, Join, Recover, CloseDone, CheckThen, Panic, notRun, opVars,
     Unwinding
<1>1. jobs \in Seq(Index) /\ results \in Seq(Result) /\ admitted \in Nat /\ merged \in Nat
      /\ NumInputs \in Nat
  BY OperationAssumption DEF FlowInv, TypeInv, TypeOK, TypeOKData, TypeOKControl
<1>2. InFlight(i) => Somewhere(i)
  BY <1>0 DEF Accounted
<1>3. CASE Enter
  <2>1. UNCHANGED <<jobs, admitted, merged>> /\ admitted = 0 /\ merged = 0
    BY <1>3 DEF Enter, mergeVars, chanVars, FlowInv, TypeInv, Places
  <2>2. Taken' <= 0
    BY <1>1, <2>1 DEF Taken
  <2> QED BY <1>1, <2>1, <2>2 DEF InFlight, Taken
<1>4. CASE AdmitSend
  <2>1. jobs' = Append(jobs, admitted) /\ admitted' = admitted + 1
        /\ UNCHANGED <<results, merged, pending, cur, wpc, wres>> /\ ~Working
    BY <1>4 DEF AdmitSend, AdmitUpTo, workerVars, Working
  <2>2. Len(jobs') = Len(jobs) + 1
    BY <1>1, <2>1
  <2>3. Taken' = Taken /\ Held' = Held
    BY <1>1, <2>1, <2>2 DEF Taken, Held, Busy
  <2>4. InFlight(i)
    BY <2>1, <2>3 DEF InFlight
  <2> QED BY <1>2, <2>1, <2>3, <2>4 DEF Somewhere
<1>5. CASE SelectResult
  <2>1. results # << >> /\ results' = Tail(results) /\ ~Working /\ cur' = Head(results)
        /\ UNCHANGED <<jobs, admitted, merged, pending, wpc, wres>> /\ Working'
    BY <1>0, <1>5 DEF SelectResult, SelectWith, Panic, Working, workerVars, Unwinding
  <2>2. Taken' = Taken /\ Held' = Held
    BY <2>1 DEF Taken, Held, Busy
  <2>3. InFlight(i)
    BY <2>1, <2>2 DEF InFlight
  <2>4. \A k \in 1..Len(results) :
          \/ results[k] = cur'
          \/ k - 1 \in 1..Len(results') /\ results'[k - 1] = results[k]
    BY <1>1, <2>1
  <2> QED BY <1>2, <2>1, <2>2, <2>3, <2>4 DEF Somewhere
<1>6. CASE AddOrMerge
  <2>1. Working /\ cur.index = merged /\ merged' = merged + 1
        /\ UNCHANGED <<jobs, results, admitted, pending, wpc, wres>>
    BY <1>6 DEF AddOrMerge, Built, Working, FlowInv, TypeInv, Places, notRun, chanVars, workerVars
  <2>2. Taken' = Taken /\ Held' = Held
    BY <2>1 DEF Taken, Held, Busy
  <2>3. InFlight(i) /\ i # cur.index
    BY <1>1, <2>1, <2>2 DEF InFlight
  <2> QED BY <1>2, <2>1, <2>2, <2>3 DEF Somewhere
<1>7. CASE Project
  <2>1. DOMAIN pending' = DOMAIN pending \cup {cur.index}
        /\ UNCHANGED <<jobs, results, admitted, merged, wpc, wres>>
    BY <1>7 DEF Project, Projected, notRun, chanVars, workerVars
  <2>2. Taken' = Taken /\ Held' = Held
    BY <2>1 DEF Taken, Held, Busy
  <2>3. InFlight(i)
    BY <2>1, <2>2 DEF InFlight
  <2> QED BY <1>2, <2>1, <2>2, <2>3 DEF Somewhere
<1>8. CASE DrainTake
  <2>1. ~Working /\ cur'.index = merged /\ DOMAIN pending' = DOMAIN pending \ {merged} /\ Working'
        /\ UNCHANGED <<jobs, results, admitted, merged, wpc, wres>>
    BY <1>0, <1>8 DEF DrainTake, DrainLeaving, CheckThen, Panic, Working, notRun, chanVars,
       workerVars, Unwinding
  <2>2. Taken' = Taken /\ Held' = Held
    BY <2>1 DEF Taken, Held, Busy
  <2>3. InFlight(i)
    BY <2>1, <2>2 DEF InFlight
  <2> QED BY <1>2, <2>1, <2>2, <2>3 DEF Somewhere
<1>9. CASE AdmitCheck \/ SelectCanceled \/ BuildFails \/ DrainEnd \/ BuildFinish \/ LastCheck
           \/ Unwind \/ Join \/ Recover \/ CloseDone
  <2>1. UNCHANGED <<jobs, results, admitted, merged, pending, cur, wpc, wres>>
    BY <1>9 DEF AdmitCheck, SelectCanceled, BuildFails, DrainEnd, BuildFinish, LastCheck,
       Unwind, Join, Recover, CloseDone, notRun, mergeVars, chanVars, workerVars
  <2>2. ~Working
    BY <1>0, <1>9 DEF AdmitCheck, SelectCanceled, BuildFails, DrainEnd, BuildFinish, LastCheck,
       Unwind, Join, Recover, CloseDone, Working, CheckThen, Panic, Unwinding
  <2>3. Taken' = Taken /\ Held' = Held
    BY <2>1 DEF Taken, Held, Busy
  <2>4. InFlight(i)
    BY <2>1, <2>3 DEF InFlight
  <2> QED BY <1>2, <2>1, <2>2, <2>3, <2>4 DEF Somewhere
<1> QED BY <1>3, <1>4, <1>5, <1>6, <1>7, <1>8, <1>9 DEF Run

LEMMA AccountedStep == FlowInv /\ Accounted /\ [Next]_vars => Accounted'
<1> SUFFICES ASSUME FlowInv, Accounted, [Next]_vars PROVE Accounted'
  OBVIOUS
<1>1. CASE OwnerNext \/ Cancel \/ UNCHANGED vars
  <2>1. UNCHANGED <<jobs, results, admitted, merged, pending, cur, wpc, wres>>
        /\ (ctxDone => ctxDone')
    BY <1>1 DEF OwnerNext, Start, Wait, FinishWait, FinishTransfer, TransferUnless, Release,
       ReleaseReturn, Cancel, vars, opVars, notOwner, runVars, mergeVars, chanVars, workerVars
  <2>2. cpc' = cpc \/ (cpc = "idle" /\ cpc' = "enter")
    BY <1>1 DEF OwnerNext, Start, Wait, FinishWait, FinishTransfer, TransferUnless, Release,
       ReleaseReturn, Cancel, vars, notOwner, runVars, FlowInv, TypeInv, Places
  <2>3. Held' = Held /\ Working' = Working /\ Taken' = Taken /\ Unwinding' = Unwinding
    BY <2>1, <2>2 DEF Held, Busy, Working, Taken, Unwinding
  <2> QED BY <2>1, <2>3 DEF Accounted, InFlight, Somewhere
<1> QED BY <1>1, AccountedRun, AccountedWorker DEF Next, Terminated

\* A set whose elements are all equal has none or one.
LEMMA AtMostOne ==
  ASSUME NEW S, \A x, y \in S : x = y
  PROVE  Cardinality(S) = IF S = {} THEN 0 ELSE 1
<1>1. CASE S = {}
  BY <1>1, FS_EmptySet
<1>2. CASE S # {}
  <2>1. PICK x \in S : TRUE
    BY <1>2
  <2>2. S = {x}
    BY <2>1
  <2> QED BY <1>2, <2>2, FS_Singleton
<1> QED BY <1>1, <1>2

\* No result is lost, doubled or scanned twice (go/operation.go 82 to 98, 106 to
\* 151): no index is in two places or outside the window, and until a
\* cancellation or a panic each index of the window is in one.
THEOREM EveryInputOnce == Spec => []ExactlyOnce
<1>1. ASSUME FlowInv, Accounted, NEW i \in Index
      PROVE  /\ Copies(i) <= (IF InWindow(i) THEN 1 ELSE 0)
             /\ InWindow(i) /\ ~ctxDone /\ ~Unwinding => Copies(i) = 1
  <2> DEFINE J == {k \in DOMAIN jobs : jobs[k] = i}
             H == {w \in Held : wres[w].index = i}
             R == {k \in DOMAIN results : results[k].index = i}
             P == i \in DOMAIN pending
             C == Working /\ cur.index = i
  <2>1. jobs \in Seq(Index) /\ results \in Seq(Result) /\ admitted \in Nat /\ merged \in Nat
        /\ i \in Nat /\ DOMAIN jobs = 1..Len(jobs) /\ DOMAIN results = 1..Len(results)
        /\ Len(jobs) \in Nat /\ Taken \in Int /\ Taken = admitted - Len(jobs) /\ merged <= Taken
    BY <1>1, OperationAssumption
    DEF FlowInv, TypeInv, TypeOK, TypeOKData, TypeOKControl, Index, Taken, Flow, Window0
  <2>2. (\A k, l \in J : k = l) /\ (J # {} <=> Taken <= i /\ i < admitted)
    <3>1. \A k \in 1..Len(jobs) : jobs[k] = Taken + k - 1
      BY <1>1 DEF FlowInv, Flow, Window0
    <3>2. \A k \in J : k = i - Taken + 1
      <4> SUFFICES ASSUME NEW k \in 1..Len(jobs), jobs[k] = i PROVE k = i - Taken + 1
        BY <2>1
      <4> QED BY SMTT(40), <2>1, <3>1
    <3>3. Taken <= i /\ i < admitted => i - Taken + 1 \in J
      BY <2>1, <3>1
    <3>4. \A k \in J : Taken <= i /\ i < admitted
      BY <2>1, <3>1
    <3> QED BY <3>2, <3>3, <3>4
  <2>3. (\A v, w \in H : v = w) /\ (\A k, l \in R : k = l)
    BY <1>1, <2>1 DEF FlowInv, Flow, Apart
  <2>4. (H # {} => InFlight(i)) /\ (R # {} => InFlight(i)) /\ (P => InFlight(i))
        /\ (C => InFlight(i))
    BY <1>1, <2>1 DEF FlowInv, Flow, Within
  <2>5. /\ (H # {} => R = {} /\ ~P /\ ~C) /\ (R # {} => ~P /\ ~C) /\ (P => ~C)
    BY <1>1, <2>1 DEF FlowInv, Flow, Apart
  <2>6. InFlight(i) /\ ~ctxDone /\ ~Unwinding => H # {} \/ R # {} \/ P \/ C
    BY <1>1, <2>1 DEF Accounted, Somewhere
  <2>7. /\ Cardinality(J) = (IF J = {} THEN 0 ELSE 1)
        /\ Cardinality(H) = (IF H = {} THEN 0 ELSE 1)
        /\ Cardinality(R) = (IF R = {} THEN 0 ELSE 1)
    <3> HIDE DEF J, H, R
    <3> QED BY <2>2, <2>3, AtMostOne
  <2>8. Copies(i) = Cardinality(J) + Cardinality(H) + Cardinality(R)
                      + (IF P THEN 1 ELSE 0) + (IF C THEN 1 ELSE 0)
    BY DEF Copies
  <2>9. InWindow(i) <=> InFlight(i) \/ (Taken <= i /\ i < admitted)
    BY <2>1 DEF InWindow, InFlight
  <2> HIDE DEF J, H, R, P, C
  <2>10. J # {} => H = {} /\ R = {} /\ ~P /\ ~C
    BY <2>1, <2>2, <2>4 DEF InFlight
  <2> QED BY <2>2, <2>4, <2>5, <2>6, <2>7, <2>8, <2>9, <2>10
<1>2. FlowInv /\ Accounted => ExactlyOnce
  BY <1>1 DEF ExactlyOnce
<1>3. Init => Accounted
  BY AccountedInit
<1>4. FlowInv /\ Accounted /\ [Next]_vars => Accounted'
  BY AccountedStep
<1> QED BY <1>2, <1>3, <1>4, FlowInvariant, PTL DEF Spec
=============================================================================
