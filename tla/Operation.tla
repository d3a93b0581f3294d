------------------------------ MODULE Operation ------------------------------
(***************************************************************************)
(* go/operation.go: one batch operation.  The coordinator goroutine (run)  *)
(* admits input indices to a bounded jobs channel, a fixed pool of workers *)
(* scans them and sends results over a bounded channel, and the            *)
(* coordinator merges the results in input order, keeping those that came  *)
(* early in pending.  The owner starts, waits for, finishes and releases   *)
(* the operation; a cancellation may come from another thread at any time. *)
(*                                                                         *)
(* A scan is external: it may return a report, a failure of its own, or,   *)
(* once its context is cancelled, a failure that is only the cancellation  *)
(* in disguise (remote.Image returns an error like any other); it may      *)
(* panic, and it may hang until its context is cancelled.  A report is     *)
(* abstracted to the sequence of its images, an image to the index of its  *)
(* input and the outcome of its scan.                                      *)
(***************************************************************************)
EXTENDS Integers, Sequences, FiniteSets

CONSTANTS
  NumInputs,   \* len(op.req.Inputs)
  Workers      \* op.req.Workers, at least 1 (go/abi.go refuses less)

ASSUME OperationAssumption == NumInputs \in Nat /\ Workers \in Nat \ {0}

Count == IF Workers < NumInputs THEN Workers ELSE NumInputs
Worker == 1..Count
Index == 0..(NumInputs - 1)

VARIABLES
  started, finished, ctxDone, done, status, report,   \* fields of operation
  cpc,        \* where run is
  panicValue, \* what run is panicking with, or "none"
  runDone,    \* run's own context is cancelled and jobs is closed (line 73)
  jobs,       \* the jobs channel: indices, capacity Count
  results,    \* the results channel: results, capacity Count
  admitted, merged,
  pending,    \* results projected ahead of their turn, by index
  cur,        \* the result that run is working on
  images,     \* builder.report.Images
  wpc,        \* where each worker is
  wres,       \* the result each worker is working on
  owner,      \* where the owner is: idle, granted (in finish, after its wait),
              \* releasing (in release, after its cancel), released
  returned,   \* the last status that wait or finish gave the owner
  published   \* the reports that finish handed over

opVars == <<started, finished, ctxDone, done, status, report>>
mergeVars == <<admitted, merged, pending, cur, images>>
runVars == <<cpc, panicValue, runDone, mergeVars>>
chanVars == <<jobs, results>>
workerVars == <<wpc, wres>>
ownerVars == <<owner, returned, published>>
notRun == <<opVars, chanVars, workerVars, ownerVars>>
notOwner == <<runVars, chanVars, workerVars>>
notWorker == <<opVars, runVars, ownerVars>>
vars == <<opVars, runVars, chanVars, workerVars, ownerVars>>

\* What a scan leaves in a result: a response ("aborted" is a failure response
\* that only reports the cancelled context) or a recovered panic.
Response == {"complete", "failed", "aborted"}
Panicked == {"canceled", "error"}
Outcome == Response \cup Panicked
Result == [index : Index, outcome : Outcome]
Image == [index : Index, outcome : Response]
None == [index |-> 0, outcome |-> "none"]

\* panicStatus
PanicStatus(value) ==
  CASE value = "overflow" -> 2 [] value = "canceled" -> 4 [] OTHER -> 1

\* The context run derives for its workers is done when either is.
WorkerCtxDone == ctxDone \/ runDone

TypeOKFlags ==
  /\ started \in BOOLEAN /\ finished \in BOOLEAN /\ ctxDone \in BOOLEAN
  /\ done \in BOOLEAN /\ runDone \in BOOLEAN

TypeOKControl ==
  /\ status \in {0, 1, 2, 4} /\ returned \in {0, 1, 2, 4}
  /\ cpc \in {"idle", "enter", "admit", "send", "drain", "select", "add",
              "project", "merge", "finish", "lastcheck", "unwind", "join",
              "recover", "close", "done"}
  /\ panicValue \in {"none", "overflow", "canceled", "error"}
  /\ admitted \in 0..NumInputs /\ merged \in 0..NumInputs
  /\ owner \in {"idle", "granted", "releasing", "released"}

TypeOKData ==
  /\ report \in Seq(Image) /\ images \in Seq(Image) /\ published \in Seq(Seq(Image))
  /\ jobs \in Seq(Index) /\ results \in Seq(Result)
  /\ DOMAIN pending \subseteq Index /\ \A i \in DOMAIN pending : pending[i] \in Response
  /\ cur \in Result \cup {None}
  /\ cpc \in {"add", "project", "merge"} => cur \in Image

TypeOKWorkers ==
  /\ wpc \in [Worker -> {"unborn", "select", "begin", "scan", "send", "exited"}]
  /\ wres \in [Worker -> Result \cup {None}]
  /\ \A w \in Worker : wpc[w] \in {"begin", "scan", "send"} => wres[w] \in Result

TypeOK == TypeOKFlags /\ TypeOKControl /\ TypeOKData /\ TypeOKWorkers

Init ==
  /\ started = FALSE /\ finished = FALSE /\ ctxDone = FALSE /\ done = FALSE
  /\ status = 0 /\ report = << >>
  /\ cpc = "idle" /\ panicValue = "none" /\ runDone = FALSE
  /\ jobs = << >> /\ results = << >>
  /\ admitted = 0 /\ merged = 0 /\ pending = [i \in {} |-> "complete"] /\ cur = None /\ images = << >>
  /\ wpc = [w \in Worker |-> "unborn"] /\ wres = [w \in Worker |-> None]
  /\ owner = "idle" /\ returned = 0 /\ published = << >>
-----------------------------------------------------------------------------
(* The owner and the canceller. *)

\* start, idempotent under mu; it launches run.
Start ==
  /\ owner = "idle" /\ ~started
  /\ started' = TRUE /\ cpc' = "enter"
  /\ UNCHANGED <<finished, ctxDone, done, status, report, panicValue, runDone,
                 mergeVars, chanVars, workerVars, ownerVars>>

\* osv_batch_cancel, from any thread that still holds the handle.
Cancel ==
  /\ owner # "released" /\ ~ctxDone
  /\ ctxDone' = TRUE
  /\ UNCHANGED <<started, finished, done, status, report, notOwner, ownerVars>>

\* Mutant: wait does not look at the context again.
MutantWaitStatusIgnoresContext == status

\* The status wait returns: a cancellation hides whatever run settled with.
WaitStatus == IF ctxDone THEN PanicStatus("canceled") ELSE status

\* wait; an owner waits only for what it started.
Wait ==
  /\ owner = "idle" /\ started /\ done
  /\ returned' = WaitStatus
  /\ UNCHANGED <<opVars, notOwner, owner, published>>

\* finish: its wait, and the early return of any status but 0.
FinishWait ==
  /\ owner = "idle" /\ started /\ done
  /\ IF WaitStatus = 0 THEN owner' = "granted" /\ UNCHANGED returned
     ELSE returned' = WaitStatus /\ UNCHANGED owner
  /\ UNCHANGED <<opVars, notOwner, published>>

\* finish: the transfer under mu, refused where it has taken place.
TransferUnless(taken) ==
  /\ owner = "granted"
  /\ owner' = "idle"
  /\ IF taken
     THEN returned' = 1 /\ UNCHANGED <<finished, report, published>>
     ELSE /\ finished' = TRUE /\ returned' = 0
          /\ published' = Append(published, report)
          /\ report' = << >>
  /\ UNCHANGED <<started, ctxDone, done, status, notOwner>>

\* Mutant: finish does not look at finished.
MutantTransferAgain == TransferUnless(FALSE)

FinishTransfer == TransferUnless(finished)

\* Mutant: release waits without cancelling.
MutantReleaseWithoutCancel ==
  owner = "idle" /\ owner' = "releasing" /\ UNCHANGED <<opVars, notOwner, returned, published>>

\* release: cancel, then wait for run if it was started.
Release ==
  /\ owner = "idle"
  /\ owner' = "releasing" /\ ctxDone' = TRUE
  /\ UNCHANGED <<started, finished, done, status, report, notOwner, returned, published>>

ReleaseReturn ==
  /\ owner = "releasing" /\ (started => done)
  /\ owner' = "released" /\ report' = << >>
  /\ UNCHANGED <<started, finished, ctxDone, done, status, notOwner, returned, published>>
-----------------------------------------------------------------------------
(* The coordinator: run. *)

\* A panic inside the part of run that line 73 protects.
Panic(value) == cpc' = "unwind" /\ panicValue' = value

\* A checkContext after which run goes on at next.
CheckThen(next) ==
  IF ctxDone THEN Panic("canceled") ELSE cpc' = next /\ UNCHANGED panicValue

\* The values that the work of the builder may panic with: an inconsistency of
\* the data, an overflow, and, where it meets a checkContext, a cancellation.
BuilderPanic == {"error", "overflow"} \cup (IF ctxDone THEN {"canceled"} ELSE {})

\* Lines 59 to 105.  The first checkContext comes before the deferred join, so
\* its panic goes straight to the recover; otherwise all workers are launched.
Enter ==
  /\ cpc = "enter"
  /\ IF ctxDone
     THEN cpc' = "recover" /\ panicValue' = "canceled" /\ UNCHANGED wpc
     ELSE /\ cpc' = (IF Count > 0 THEN "admit" ELSE "drain")
          /\ wpc' = [w \in Worker |-> "select"]
          /\ UNCHANGED panicValue
  /\ UNCHANGED <<opVars, runDone, mergeVars, chanVars, wres, ownerVars>>

\* admit's checkContext.
AdmitCheck ==
  cpc = "admit" /\ CheckThen("send") /\ UNCHANGED <<runDone, mergeVars, notRun>>

\* admit's send, which blocks while jobs is full, and what follows it: the
\* first loop admits up to limit indices, a later admit belongs to a merge.
AdmitUpTo(limit) ==
  /\ cpc = "send" /\ Len(jobs) < Count
  /\ jobs' = Append(jobs, admitted) /\ admitted' = admitted + 1
  /\ cpc' = (IF admitted' < limit /\ admitted' < NumInputs THEN "admit" ELSE "drain")
  /\ UNCHANGED <<opVars, panicValue, runDone, merged, pending, cur, images,
                 results, workerVars, ownerVars>>

\* Mutant: the first loop admits one index too many.
MutantAdmitOneMore == AdmitUpTo(Count + 1)

AdmitSend == AdmitUpTo(Count)

\* Mutant: the merge loop only receives results.
MutantSelectWithoutContext == FALSE /\ UNCHANGED vars

\* The select of the merge loop sees a cancellation ...
SelectCanceled ==
  cpc = "select" /\ ctxDone /\ Panic("canceled") /\ UNCHANGED <<runDone, mergeVars, notRun>>

\* ... or a result: checkContext, then the worker's panic, then by its turn.
SelectWith(inTurn) ==
  /\ cpc = "select" /\ results # << >>
  /\ results' = Tail(results)
  /\ LET r == Head(results) IN
       IF ctxDone THEN Panic("canceled") /\ UNCHANGED cur
       ELSE IF r.outcome \in Panicked THEN Panic(r.outcome) /\ UNCHANGED cur
       ELSE /\ cur' = r
            /\ cpc' = (IF inTurn THEN "add" ELSE "project")
            /\ UNCHANGED panicValue
  /\ UNCHANGED <<opVars, runDone, admitted, merged, pending, images,
                 jobs, workerVars, ownerVars>>

\* Mutant: results are added in the order of their arrival.
MutantAddOnArrival == SelectWith(TRUE)

SelectResult == SelectWith(Head(results).index = merged)

\* The builder has taken cur, and run goes on at next.
Built(next) ==
  /\ cpc \in {"add", "merge"}
  /\ images' = Append(images, cur) /\ merged' = merged + 1 /\ cur' = None
  /\ cpc' = next
  /\ UNCHANGED <<panicValue, runDone, admitted, pending, notRun>>

\* Mutants: a merge admits past the last input, or nothing at all.
MutantAdmitPastEnd == Built(IF admitted <= NumInputs THEN "admit" ELSE "drain")
MutantMergeWithoutAdmit == Built("drain")

\* builder.add of a result in its turn, or builder.merge of one that waited in
\* pending; then the next index is admitted, if there is one.
AddOrMerge == Built(IF admitted < NumInputs THEN "admit" ELSE "drain")

\* projectImage of a result ahead of its turn, and run goes on at next.
Projected(next) ==
  /\ cpc = "project"
  /\ pending' = [i \in DOMAIN pending \cup {cur.index} |->
                   IF i = cur.index THEN cur.outcome ELSE pending[i]]
  /\ cpc' = next /\ cur' = None
  /\ UNCHANGED <<panicValue, runDone, admitted, merged, images, notRun>>

\* Mutant: a result that has to wait in pending lets the next index in.
MutantProjectAdmits == Projected(IF admitted < NumInputs THEN "admit" ELSE "drain")

Project == Projected("drain")

\* add, merge, projectImage or builder.finish panics.
BuildFails ==
  /\ cpc \in {"add", "merge", "project", "finish"}
  /\ \E value \in BuilderPanic : Panic(value)
  /\ UNCHANGED <<runDone, mergeVars, notRun>>

\* The inner loop takes the next result out of pending, where rest stays, and
\* checks the context.
DrainLeaving(rest) ==
  /\ cpc = "drain" /\ merged \in DOMAIN pending
  /\ pending' = [i \in rest |-> pending[i]]
  /\ cur' = [index |-> merged, outcome |-> pending[merged]]
  /\ CheckThen("merge")
  /\ UNCHANGED <<runDone, admitted, merged, images, notRun>>

\* Mutant: the drained result stays in pending.
MutantDrainWithoutDelete == DrainLeaving(DOMAIN pending)

DrainTake == DrainLeaving(DOMAIN pending \ {merged})

\* Nothing more to drain: the outer loop goes on or ends.
DrainEnd ==
  /\ cpc = "drain" /\ merged \notin DOMAIN pending
  /\ cpc' = (IF merged < NumInputs THEN "select" ELSE "finish")
  /\ UNCHANGED <<panicValue, runDone, mergeVars, notRun>>

\* op.report = builder.finish(), which empties the builder.
BuildFinish ==
  /\ cpc = "finish"
  /\ report' = images /\ images' = << >>
  /\ cpc' = "lastcheck"
  /\ UNCHANGED <<started, finished, ctxDone, done, status, panicValue, runDone,
                 admitted, merged, pending, cur, chanVars, workerVars, ownerVars>>

\* The last checkContext; a normal return runs the same deferred functions.
LastCheck ==
  cpc = "lastcheck" /\ CheckThen("unwind") /\ UNCHANGED <<runDone, mergeVars, notRun>>

\* Mutant: run closes nothing and cancels nothing before it joins.
MutantUnwindWithoutCancel ==
  cpc = "unwind" /\ cpc' = "join" /\ UNCHANGED <<panicValue, runDone, mergeVars, notRun>>

\* The deferred cancel() and close(jobs).
Unwind ==
  cpc = "unwind" /\ runDone' = TRUE /\ cpc' = "join" /\ UNCHANGED <<panicValue, mergeVars, notRun>>

\* Mutant: run does not wait for its workers.
MutantNoJoin ==
  cpc = "join" /\ cpc' = "recover" /\ UNCHANGED <<panicValue, runDone, mergeVars, notRun>>

\* The deferred workers.Wait().
Join ==
  /\ cpc = "join" /\ \A w \in Worker : wpc[w] = "exited"
  /\ cpc' = "recover"
  /\ UNCHANGED <<panicValue, runDone, mergeVars, notRun>>

\* The deferred recover.
Recover ==
  /\ cpc = "recover"
  /\ cpc' = "close"
  /\ IF panicValue = "none" THEN UNCHANGED <<status, report>>
     ELSE status' = PanicStatus(panicValue) /\ report' = << >>
  /\ UNCHANGED <<started, finished, ctxDone, done, panicValue, runDone, mergeVars,
                 chanVars, workerVars, ownerVars>>

\* The deferred close(op.done).
CloseDone ==
  /\ cpc = "close"
  /\ cpc' = "done" /\ done' = TRUE
  /\ UNCHANGED <<started, finished, ctxDone, status, report, panicValue, runDone,
                 mergeVars, chanVars, workerVars, ownerVars>>
-----------------------------------------------------------------------------
(* A worker. *)

\* The first select: its context is done, or jobs is closed and empty ...
WorkerQuit(w) ==
  /\ wpc[w] = "select"
  /\ WorkerCtxDone \/ (runDone /\ jobs = << >>)
  /\ wpc' = [wpc EXCEPT ![w] = "exited"]
  /\ UNCHANGED <<chanVars, wres, notWorker>>

\* ... or a job, which it may still pick when its context is done as well.  The
\* result starts with the empty response.
WorkerTake(w) ==
  /\ wpc[w] = "select" /\ jobs # << >>
  /\ jobs' = Tail(jobs)
  /\ wres' = [wres EXCEPT ![w] = [index |-> Head(jobs), outcome |-> "complete"]]
  /\ wpc' = [wpc EXCEPT ![w] = "begin"]
  /\ UNCHANGED <<results, notWorker>>

\* checkContext before the scan, inside the recovering function.
WorkerBegin(w) ==
  /\ wpc[w] = "begin"
  /\ IF WorkerCtxDone
     THEN /\ wpc' = [wpc EXCEPT ![w] = "send"]
          /\ wres' = [wres EXCEPT ![w] = [index |-> wres[w].index, outcome |-> "canceled"]]
     ELSE wpc' = [wpc EXCEPT ![w] = "scan"] /\ UNCHANGED wres
  /\ UNCHANGED <<chanVars, notWorker>>

\* The scan ends (executeContext): on its own, with an image or a failure or a
\* panic, or because of its context, with a failure that hides the
\* cancellation or with checkContext's panic.
Ended(w, outcome) ==
  /\ wpc[w] = "scan"
  /\ outcome \in {"aborted", "canceled"} => WorkerCtxDone
  /\ wres' = [wres EXCEPT ![w] = [index |-> wres[w].index, outcome |-> outcome]]
  /\ wpc' = [wpc EXCEPT ![w] = "send"]
  /\ UNCHANGED <<opVars, cpc, panicValue, mergeVars, chanVars, ownerVars>>

\* Mutant: the pool fails fast, a failed scan cancels the others.
MutantScanFailsFast(w, outcome) ==
  Ended(w, outcome) /\ runDone' = (runDone \/ outcome = "failed")

ScanEnds(w, outcome) == Ended(w, outcome) /\ UNCHANGED runDone

ScanReturns(w) == \E outcome \in Outcome : ScanEnds(w, outcome)

\* The second select: the result is sent ...
WorkerSend(w) ==
  /\ wpc[w] = "send" /\ Len(results) < Count
  /\ results' = Append(results, wres[w])
  /\ wres' = [wres EXCEPT ![w] = None]
  /\ wpc' = [wpc EXCEPT ![w] = "select"]
  /\ UNCHANGED <<jobs, notWorker>>

\* ... or dropped with the worker.
WorkerDrop(w) ==
  /\ wpc[w] = "send" /\ WorkerCtxDone
  /\ wres' = [wres EXCEPT ![w] = None]
  /\ wpc' = [wpc EXCEPT ![w] = "exited"]
  /\ UNCHANGED <<chanVars, notWorker>>
-----------------------------------------------------------------------------
OwnerNext == Start \/ Wait \/ FinishWait \/ FinishTransfer \/ Release \/ ReleaseReturn

Run ==
  \/ Enter \/ AdmitCheck \/ AdmitSend \/ SelectCanceled \/ SelectResult
  \/ AddOrMerge \/ Project \/ BuildFails \/ DrainTake \/ DrainEnd
  \/ BuildFinish \/ LastCheck \/ Unwind \/ Join \/ Recover \/ CloseDone

\* Every step of a worker but the return of its scan.
WorkerStep(w) ==
  \/ WorkerQuit(w) \/ WorkerTake(w) \/ WorkerBegin(w) \/ WorkerSend(w) \/ WorkerDrop(w)

\* After release the handle is gone and nothing runs: the one state in which
\* everything may stop.
Terminated == owner = "released" /\ UNCHANGED vars

Next ==
  \/ OwnerNext \/ Cancel \/ Run
  \/ \E w \in Worker : WorkerStep(w) \/ ScanReturns(w)
  \/ Terminated

Spec == Init /\ [][Next]_vars

\* Goroutines are scheduled fairly and a scan returns once its context is done;
\* until then it may hang.  Neither the owner nor the canceller owes anything,
\* but an owner inside a call goes on.
Fairness ==
  /\ WF_vars(Run)
  /\ \A w \in Worker : WF_vars(WorkerStep(w)) /\ WF_vars(WorkerCtxDone /\ ScanReturns(w))
  /\ WF_vars(FinishTransfer) /\ WF_vars(ReleaseReturn)

FairSpec == Spec /\ Fairness

\* Every scan ends by itself.
FiniteScans == \A w \in Worker : WF_vars(ScanReturns(w))
-----------------------------------------------------------------------------
(* Where the admitted indices are. *)

Busy(w) == wpc[w] \in {"begin", "scan", "send"}
Held == {w \in Worker : Busy(w)}
Working == cpc \in {"add", "project", "merge"}

\* The number of indices below this bound have left the jobs channel.
Taken == admitted - Len(jobs)

\* Where an index can be: in the jobs channel, with a worker, in the results
\* channel, in pending or in the coordinator's hands.
Copies(i) ==
  Cardinality({k \in DOMAIN jobs : jobs[k] = i})
    + Cardinality({w \in Held : wres[w].index = i})
    + Cardinality({k \in DOMAIN results : results[k].index = i})
    + (IF i \in DOMAIN pending THEN 1 ELSE 0)
    + (IF Working /\ cur.index = i THEN 1 ELSE 0)

\* No index is ever in two places or outside the window of the admitted and not
\* yet merged ones; and until a cancellation or a panic, when workers may drop
\* what they hold, each index of the window is somewhere: no result is lost,
\* doubled or scanned twice, whatever the order in which the workers answer
\* (lines 82 to 98, 106 to 151).
InWindow(i) == merged <= i /\ i < admitted
Unwinding == cpc \in {"unwind", "join", "recover", "close", "done"}
ExactlyOnce ==
  \A i \in Index :
    /\ Copies(i) <= (IF InWindow(i) THEN 1 ELSE 0)
    /\ InWindow(i) /\ ~ctxDone /\ ~Unwinding => Copies(i) = 1

\* The coordinator never blocks in admit, and a worker never blocks on a full
\* results channel while run still merges: the buffers of Count elements are
\* enough (lines 69, 70), so the coordinator, the only reader of results and the
\* only writer of jobs, cannot wait for a worker that waits for it.
AdmitNeverBlocks == cpc = "send" => Len(jobs) < Count
SendNeverBlocks == \A w \in Worker : wpc[w] = "send" => Len(results) < Count
NeverBlocks == AdmitNeverBlocks /\ SendNeverBlocks

\* At most Count inputs are between admission and merge, so that at most Count
\* upstream reports or projections are alive at once; the fast workers do not
\* run ahead of a slow first image (lines 113 to 131, 148).
Window == merged <= admitted /\ admitted - merged <= Count

\* The images of the builder, of the settled report and of every report handed
\* over are the inputs in their order, none missing, and a whole report is the
\* only thing that success can mean (lines 116 to 153, 178 to 191).
InInputOrder(r) == \A k \in 1..Len(r) : r[k].index = k - 1
InputOrder ==
  /\ InInputOrder(images) /\ InInputOrder(report)
  /\ cpc \in {"select", "add", "merge", "project", "drain", "finish"} => Len(images) = merged
  /\ done /\ status = 0 /\ ~finished /\ owner # "released" => Len(report) = NumInputs
  /\ \A k \in 1..Len(published) :
       InInputOrder(published[k]) /\ Len(published[k]) = NumInputs

\* When an owner may believe that the operation is over, it is: no worker is
\* scanning or will ever scan once done is closed or release has returned
\* (lines 52, 73, 165 to 174; TestCancellationWaitsForWorkers).
JoinedBeforeDone ==
  done \/ owner = "released"
    => \A w \in Worker : wpc[w] \in {"unborn", "exited"}

\* No report that an owner is given contains an image whose scan was cut short
\* by the cancellation: such a failure looks like any other to the coordinator,
\* and only the checkContext calls and wait's second look at the context keep it
\* out (lines 120, 121, 144, 154, 159; go/bridge.go acquisitionError).
NoAbortedImage ==
  \A k \in 1..Len(published) : \A i \in 1..Len(published[k]) :
    published[k][i].outcome # "aborted"

\* finish hands over at most one report, and none after a status other than 0
\* was settled (lines 176 to 192).
TransferOnce == Len(published) <= (IF done /\ status = 0 THEN 1 ELSE 0)

\* A cancelled operation that was started comes to its end, even if every scan
\* hangs until its context is done; so do the release that waits for it ...
CancelSettles == started /\ ctxDone ~> done
ReleaseReturns == owner = "releasing" ~> owner = "released"

\* ... and an operation one of whose scans panicked, though nobody cancelled it
\* and the other scans hang (TestWorkerPanicJoinsSiblings).
PanicSettles ==
  (\E k \in DOMAIN results : results[k].outcome = "error") ~> done

\* Where every scan ends, a started operation comes to its end by itself.
StartedSettles == FiniteScans => (started ~> done)

\* What the owner can see of the operation is what Batch promises.
B == INSTANCE Batch WITH
       status <- IF done THEN status ELSE 0,
       report <- IF done THEN report ELSE << >>
ImplementsBatch == B!Spec
=============================================================================
