------------------------------- MODULE ScanCall -------------------------------
(***************************************************************************)
(* Concurrent calls of osvpy.scan: the coroutine (scanner.py), the job it  *)
(* gives to the loop's executor (_native.pyx, scan), the controller they   *)
(* share, and the native handles of go/abi.go.  What the native operation  *)
(* does is abstracted as in Batch: once started it settles, with a report, *)
(* with a failure, or cancelled; OwnsContract says that every call keeps   *)
(* the contract of Batch from the owner's side.                            *)
(*                                                                         *)
(* One call: the coroutine awaits the job behind a shield; when its task   *)
(* is cancelled it cancels the controller and stays until the job is over. *)
(* The job creates the operation, publishes its handle to the controller,  *)
(* starts it, waits, takes the report, and in any case detaches the        *)
(* controller, disposes of a report that nobody owns and releases the      *)
(* operation.  cancel runs on the loop's thread, the job on another, and   *)
(* cancel keeps the lock during its native call.                           *)
(***************************************************************************)
EXTENDS Integers, Sequences, FiniteSets

CONSTANTS
  Call,       \* the concurrent calls
  PoolSize    \* threads of the loop's default executor

ASSUME ScanCallAssumption == IsFiniteSet(Call) /\ PoolSize \in Nat \ {0}

VARIABLES
  task,       \* the coroutine: where it is
  queue,      \* jobs that wait for a thread of the executor
  lock,       \* controller.lock: free or held by cancel
  cancelled,  \* controller.was_cancelled
  handle,     \* controller.handle is not 0
  job,        \* the job: where it is
  failed,     \* an exception is on its way through the job
  op,         \* the operation's handle: none, live or deleted
  started, ctxDone, settled, status,   \* the operation
  result,     \* the report's handle: none, with the job (local), with its _Owner
              \* (owner), with the view that is returned (view), released
  liveResults \* go/abi.go liveResults

taskVars == <<task>>
ctlVars == <<lock, cancelled, handle>>
jobVars == <<queue, job, failed>>
opVars == <<op, started, ctxDone, settled, status>>
resVars == <<result, liveResults>>
vars == <<taskVars, ctlVars, jobVars, opVars, resVars>>

Ended == {"returned", "raised", "cancelled"}
Threaded == {"check", "create", "publish", "start", "wait", "finish", "granted", "own",
             "detach", "dispose", "release", "releasing", "recheck", "view", "unwind"}

Init ==
  /\ task = [c \in Call |-> "new"] /\ queue = << >>
  /\ lock = [c \in Call |-> "free"]
  /\ cancelled = [c \in Call |-> FALSE] /\ handle = [c \in Call |-> FALSE]
  /\ job = [c \in Call |-> "none"] /\ failed = [c \in Call |-> FALSE]
  /\ op = [c \in Call |-> "none"]
  /\ started = [c \in Call |-> FALSE] /\ ctxDone = [c \in Call |-> FALSE]
  /\ settled = [c \in Call |-> FALSE] /\ status = [c \in Call |-> 0]
  /\ result = [c \in Call |-> "none"] /\ liveResults = 0

JobOver(c) == job[c] \in {"value", "error"}

\* osv_result_release of the report of c, if it is held in one of these ways.
Drop(c, held) ==
  IF result[c] \in held
  THEN result' = [result EXCEPT ![c] = "released"] /\ liveResults' = liveResults - 1
  ELSE UNCHANGED resVars
-----------------------------------------------------------------------------
(* The coroutine. *)

\* scan up to its await: the job is given to the executor.
Submit(c) ==
  /\ task[c] = "new"
  /\ task' = [task EXCEPT ![c] = "awaiting"]
  /\ job' = [job EXCEPT ![c] = "queued"] /\ queue' = Append(queue, c)
  /\ UNCHANGED <<ctlVars, failed, opVars, resVars>>

\* The await ends with the job's outcome.
Resume(c) ==
  /\ task[c] = "awaiting" /\ JobOver(c)
  /\ task' = [task EXCEPT ![c] = IF job[c] = "value" THEN "returned" ELSE "raised"]
  /\ UNCHANGED <<ctlVars, jobVars, opVars, resVars>>

\* The await ends with a cancellation, even if the job is over by now.
CancelTask(c) ==
  /\ task[c] = "awaiting"
  /\ task' = [task EXCEPT ![c] = "cancel"]
  /\ UNCHANGED <<ctlVars, jobVars, opVars, resVars>>

\* controller.cancel: takes the lock, sets the flag and, if there is a handle,
\* goes on to its native call.
CancelSetting(c, flag) ==
  /\ task[c] = "cancel" /\ lock[c] = "free"
  /\ cancelled' = [cancelled EXCEPT ![c] = flag]
  /\ IF handle[c]
     THEN lock' = [lock EXCEPT ![c] = "held"] /\ task' = [task EXCEPT ![c] = "native"]
     ELSE task' = [task EXCEPT ![c] = "draining"] /\ UNCHANGED lock
  /\ UNCHANGED <<handle, jobVars, opVars, resVars>>

\* Mutant: the controller does not remember a cancellation it has no handle for.
MutantForgetEarlyCancel(c) == CancelSetting(c, handle[c])

CancelBegin(c) == CancelSetting(c, TRUE)

\* controller.cancel: osv_batch_cancel, then the lock is given back.
CancelNative(c) ==
  /\ task[c] = "native"
  /\ ctxDone' = [ctxDone EXCEPT ![c] = TRUE]
  /\ lock' = [lock EXCEPT ![c] = "free"]
  /\ task' = [task EXCEPT ![c] = "draining"]
  /\ UNCHANGED <<cancelled, handle, jobVars, op, started, settled, status, resVars>>

\* Mutant: a second cancellation abandons the job.
MutantAbandon(c) ==
  /\ task[c] = "draining"
  /\ task' = [task EXCEPT ![c] = "cancelled"]
  /\ UNCHANGED <<ctlVars, jobVars, opVars, resVars>>

\* A further cancellation while the coroutine waits for the job changes nothing.
CancelAgain(c) == task[c] = "draining" /\ UNCHANGED vars

\* The job is over: its outcome is dropped, a report with it, and the
\* cancellation goes on to the caller.
Drained(c) ==
  /\ task[c] = "draining" /\ JobOver(c)
  /\ task' = [task EXCEPT ![c] = "cancelled"]
  /\ Drop(c, {"view"})
  /\ UNCHANGED <<ctlVars, jobVars, opVars>>

\* The caller drops the last view of a report (_Owner.__dealloc__).
DropView(c) ==
  /\ task[c] = "returned" /\ result[c] = "view"
  /\ Drop(c, {"view"})
  /\ UNCHANGED <<taskVars, ctlVars, jobVars, opVars>>
-----------------------------------------------------------------------------
(* The job. *)

At(c, pc) == job[c] = pc
Goto(c, pc) == job' = [job EXCEPT ![c] = pc] /\ UNCHANGED <<queue, failed>>
\* An exception inside the inner try: its finally begins.
Raise(c) ==
  /\ job' = [job EXCEPT ![c] = "detach"] /\ failed' = [failed EXCEPT ![c] = TRUE]
  /\ UNCHANGED queue

\* A thread of the executor takes the oldest job.
TakeJob ==
  /\ queue # << >> /\ Cardinality({c \in Call : job[c] \in Threaded}) < PoolSize
  /\ job' = [job EXCEPT ![Head(queue)] = "check"] /\ queue' = Tail(queue)
  /\ UNCHANGED <<taskVars, ctlVars, failed, opVars, resVars>>

\* controller.cancelled, before there is an operation.
CheckCancelled(c) ==
  /\ At(c, "check") /\ lock[c] = "free"
  /\ IF cancelled[c] THEN Raise(c) ELSE Goto(c, "create")
  /\ UNCHANGED <<taskVars, ctlVars, opVars, resVars>>

\* osv_batch_create, which fails without a handle or returns one.
Create(c) ==
  /\ At(c, "create")
  /\ \/ Raise(c) /\ UNCHANGED op
     \/ Goto(c, "publish") /\ op' = [op EXCEPT ![c] = "live"]
  /\ UNCHANGED <<taskVars, ctlVars, started, ctxDone, settled, status, resVars>>

\* controller.publish, which may be refused.
PublishUnless(c, refused) ==
  /\ At(c, "publish") /\ lock[c] = "free"
  /\ IF refused THEN Raise(c) /\ UNCHANGED handle
     ELSE Goto(c, "start") /\ handle' = [handle EXCEPT ![c] = TRUE]
  /\ UNCHANGED <<taskVars, lock, cancelled, opVars, resVars>>

\* Mutant: publish does not look at was_cancelled.
MutantPublishCancelled(c) == PublishUnless(c, FALSE)

Publish(c) == PublishUnless(c, cancelled[c])

\* osv_batch_start.
Start(c) ==
  /\ At(c, "start")
  /\ started' = [started EXCEPT ![c] = TRUE] /\ Goto(c, "wait")
  /\ UNCHANGED <<taskVars, ctlVars, op, ctxDone, settled, status, resVars>>

\* What wait and finish return.
WaitStatus(c) == IF ctxDone[c] THEN 4 ELSE status[c]

\* osv_batch_wait.
Wait(c) ==
  /\ At(c, "wait") /\ settled[c]
  /\ IF WaitStatus(c) # 0 THEN Raise(c) ELSE Goto(c, "finish")
  /\ UNCHANGED <<taskVars, ctlVars, opVars, resVars>>

\* osv_batch_finish waits ...
FinishIf(c, granted) ==
  /\ At(c, "finish")
  /\ IF granted THEN Goto(c, "granted") ELSE Raise(c)
  /\ UNCHANGED <<taskVars, ctlVars, opVars, resVars>>

\* Mutant: only the status of the operation counts, not a cancellation since.
MutantFinish(c) == FinishIf(c, status[c] = 0)

Finish(c) == FinishIf(c, WaitStatus(c) = 0)

\* ... and gives the report a handle, whatever has come since it looked.
Transfer(c) ==
  /\ At(c, "granted")
  /\ result' = [result EXCEPT ![c] = "local"] /\ liveResults' = liveResults + 1
  /\ Goto(c, "own")
  /\ UNCHANGED <<taskVars, ctlVars, opVars>>

\* owner.handle = result.
Own(c) ==
  /\ At(c, "own")
  /\ result' = [result EXCEPT ![c] = "owner"] /\ Goto(c, "detach")
  /\ UNCHANGED <<taskVars, ctlVars, opVars, liveResults>>

\* A signal raises in the job as it comes back from a native call.
Interrupt(c) ==
  /\ job[c] \in {"publish", "start", "wait", "finish", "own"}
  /\ Raise(c)
  /\ UNCHANGED <<taskVars, ctlVars, opVars, resVars>>

\* Mutant: detach does not take the lock.
MutantDetachUnlocked(c) ==
  /\ At(c, "detach")
  /\ handle' = [handle EXCEPT ![c] = FALSE] /\ Goto(c, "dispose")
  /\ UNCHANGED <<taskVars, lock, cancelled, opVars, resVars>>

\* controller.detach.
Detach(c) ==
  /\ At(c, "detach") /\ lock[c] = "free"
  /\ handle' = [handle EXCEPT ![c] = FALSE] /\ Goto(c, "dispose")
  /\ UNCHANGED <<taskVars, lock, cancelled, opVars, resVars>>

\* Mutant: a report that nobody owns is forgotten.
MutantForgetResult(c) ==
  /\ At(c, "dispose")
  /\ Goto(c, IF op[c] = "none" THEN "unwind" ELSE "release")
  /\ UNCHANGED <<taskVars, ctlVars, opVars, resVars>>

\* osv_result_release of a report that has not got its owner; without an
\* operation there is nothing to release.
Dispose(c) ==
  /\ At(c, "dispose")
  /\ Drop(c, {"local"})
  /\ Goto(c, IF op[c] = "none" THEN "unwind" ELSE "release")
  /\ UNCHANGED <<taskVars, ctlVars, opVars>>

\* osv_batch_release cancels ...
ReleaseCancel(c) ==
  /\ At(c, "release")
  /\ ctxDone' = [ctxDone EXCEPT ![c] = TRUE] /\ Goto(c, "releasing")
  /\ UNCHANGED <<taskVars, ctlVars, op, started, settled, status, resVars>>

\* ... and, once the wait it makes is over, deletes the handle.
ReleaseAfter(c, over) ==
  /\ At(c, "releasing") /\ over
  /\ op' = [op EXCEPT ![c] = "deleted"]
  /\ Goto(c, IF failed[c] THEN "unwind" ELSE "recheck")
  /\ UNCHANGED <<taskVars, ctlVars, started, ctxDone, settled, status, resVars>>

\* Mutant: release waits for an operation that was never started.
MutantReleaseAwaitsAll(c) == ReleaseAfter(c, settled[c])

ReleaseReturn(c) == ReleaseAfter(c, started[c] => settled[c])

\* controller.cancelled, after the cleanup.
Recheck(c) ==
  /\ At(c, "recheck") /\ lock[c] = "free"
  /\ Goto(c, IF cancelled[c] THEN "unwind" ELSE "view")
  /\ UNCHANGED <<taskVars, ctlVars, opVars, resVars>>

\* The view takes over the owner, or its allocation fails.
MakeView(c) ==
  /\ At(c, "view")
  /\ \/ Goto(c, "value") /\ result' = [result EXCEPT ![c] = "view"] /\ UNCHANGED liveResults
     \/ Goto(c, "unwind") /\ UNCHANGED resVars
  /\ UNCHANGED <<taskVars, ctlVars, opVars>>

\* The outer finally drops the owner, and the exception is the job's outcome.
Unwind(c) ==
  /\ At(c, "unwind")
  /\ Drop(c, {"owner"}) /\ Goto(c, "error")
  /\ UNCHANGED <<taskVars, ctlVars, opVars>>
-----------------------------------------------------------------------------
(* The operation. *)

\* A started operation settles.
Settle(c) ==
  /\ op[c] = "live" /\ started[c] /\ ~settled[c]
  /\ settled' = [settled EXCEPT ![c] = TRUE]
  /\ \E s \in {0, 1, 2} \cup (IF ctxDone[c] THEN {4} ELSE {}) : status' = [status EXCEPT ![c] = s]
  /\ UNCHANGED <<taskVars, ctlVars, jobVars, op, started, ctxDone, resVars>>
-----------------------------------------------------------------------------
TaskStep(c) == Resume(c) \/ CancelBegin(c) \/ CancelNative(c) \/ Drained(c)
Environment(c) == Submit(c) \/ CancelTask(c) \/ CancelAgain(c) \/ DropView(c)
JobStep(c) ==
  \/ CheckCancelled(c) \/ Create(c) \/ Publish(c) \/ Start(c) \/ Wait(c) \/ Finish(c)
  \/ Transfer(c) \/ Own(c) \/ Detach(c) \/ Dispose(c) \/ ReleaseCancel(c) \/ ReleaseReturn(c)
  \/ Recheck(c) \/ MakeView(c) \/ Unwind(c)

\* Everything may stop when every call has ended.
Terminated == (\A c \in Call : task[c] \in Ended) /\ UNCHANGED vars

Next ==
  \/ TakeJob \/ Terminated
  \/ \E c \in Call : TaskStep(c) \/ Environment(c) \/ JobStep(c) \/ Interrupt(c) \/ Settle(c)

Spec == Init /\ [][Next]_vars

\* The loop and the threads of the executor are scheduled fairly, and a
\* cancelled operation settles (Operation, CancelSettles).  Nobody has to
\* cancel, to interrupt or to drop a view.
Fairness ==
  /\ WF_vars(TakeJob)
  /\ \A c \in Call : WF_vars(TaskStep(c)) /\ WF_vars(JobStep(c)) /\ WF_vars(ctxDone[c] /\ Settle(c))
FairSpec == Spec /\ Fairness

\* The same where every operation settles (Operation, StartedSettles).
FiniteSpec == FairSpec /\ \A c \in Call : WF_vars(Settle(c))
-----------------------------------------------------------------------------
\* cancel's native call finds the operation's handle alive, though the job that
\* owns the handle deletes it on another thread (_native.pyx 552 to 556, 568).
CancelFindsHandle == \A c \in Call : task[c] = "native" => op[c] = "live"

\* A call that has ended, cancelled or not, leaves nothing behind: its job is
\* over, its operation settled and deleted, so no worker scans for it any more
\* (scanner.py 74 to 86, README "Cancellation waits for native cleanup").
EndedIsClean ==
  \A c \in Call : task[c] \in Ended =>
    JobOver(c) /\ op[c] # "live" /\ (started[c] => settled[c])

\* When cancel has returned, the operation is cancelled or will never be
\* started: the cancellation cannot fall between the creation of the operation
\* and the publication of its handle (_native.pyx 550 to 564, 584 to 590).
NoLostCancel ==
  \A c \in Call : task[c] = "draining" /\ op[c] = "live" =>
    ctxDone[c] \/ job[c] \in {"publish", "detach", "dispose", "release"}

\* liveResults counts the reports that have a holder, each of them is released
\* at most once, and a call that did not return a report holds none (go/abi.go
\* 20 to 22, 91, 99; _native.pyx 600 to 609, 617 to 621).
ResultsAccounted ==
  /\ liveResults = Cardinality({c \in Call : result[c] \in {"local", "owner", "view"}})
  /\ \A c \in Call :
       /\ task[c] \in {"raised", "cancelled"} => result[c] \in {"none", "released"}
       /\ result[c] = "local" => job[c] \in {"own", "detach", "dispose"}

\* Each call uses its operation as Batch lets its one owner do: it takes the report
\* once, never after a cancellation that finish could have seen, calls nothing between
\* the grant and the transfer, does not cancel what is released, and releases it only
\* when nothing of it runs any more (_native.pyx 588 to 612, go/abi.go 34 to 93).
Contract(c) == INSTANCE Batch WITH
  NumInputs <- 0, report <- << >>,
  started <- started[c], ctxDone <- ctxDone[c], done <- settled[c], status <- status[c],
  finished <- result[c] # "none",
  published <- IF result[c] = "none" THEN << >> ELSE << << >> >>,
  owner <- IF op[c] = "deleted" THEN "released"
           ELSE IF job[c] \in {"granted", "releasing"} THEN job[c] ELSE "idle"

OwnsContract ==
  /\ \A c \in Call : Contract(c)!Init
  /\ [][\A c \in Call : [Contract(c)!Next]_(Contract(c)!vars)]_vars

\* A cancelled call comes to its end, even if scans hang until they are
\* cancelled, where the executor has a thread for each call.
CancelEnds == \A c \in Call : task[c] = "cancel" ~> task[c] = "cancelled"

\* Where every operation settles, every call comes to its end, however few
\* threads the executor has: a cancelled call that still waits for a thread, too.
CallEnds == \A c \in Call : task[c] = "awaiting" ~> task[c] \in Ended
=============================================================================
