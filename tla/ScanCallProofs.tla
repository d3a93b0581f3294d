---------------------------- MODULE ScanCallProofs ----------------------------
(***************************************************************************)
(* Theorems about ScanCall, for any finite set of concurrent calls and any *)
(* size of the executor.                                                   *)
(*                                                                         *)
(* Everything but the count of reports concerns one call at a time: a step *)
(* of another call changes nothing of this one.  So the invariant is a     *)
(* conjunction over the calls of what one call knows (CallInv), and one    *)
(* lemma says that a step of a call preserves its own part.                *)
(***************************************************************************)
EXTENDS ScanCall, FiniteSetTheorems, TLAPS

Place == {"none", "queued", "value", "error"} \cup Threaded

TypeInv ==
  /\ task \in [Call -> {"new", "awaiting", "cancel", "native", "draining"} \cup Ended]
  /\ lock \in [Call -> {"free", "held"}]
  /\ cancelled \in [Call -> BOOLEAN] /\ handle \in [Call -> BOOLEAN]
  /\ job \in [Call -> Place] /\ failed \in [Call -> BOOLEAN]
  /\ op \in [Call -> {"none", "live", "deleted"}]
  /\ started \in [Call -> BOOLEAN] /\ ctxDone \in [Call -> BOOLEAN]
  /\ settled \in [Call -> BOOLEAN] /\ status \in [Call -> {0, 1, 2, 4}]
  /\ result \in [Call -> {"none", "local", "owner", "view", "released"}]

\* The jobs that wait for a thread are there once.
QueueInv ==
  /\ queue \in Seq(Call)
  /\ \A k \in 1..Len(queue) : job[queue[k]] = "queued"
  /\ \A k, l \in 1..Len(queue) : k # l => queue[k] # queue[l]

\* The places of a job at which it holds an operation that it has published,
\* and those at which it holds any operation.
Published == {"start", "wait", "finish", "granted", "own"}
Holding == {"publish", "release", "releasing"} \cup Published

\* Where the job is tells how far the operation has come.
OperationInv(c) ==
  /\ task[c] = "new" <=> job[c] = "none"
  /\ job[c] \in Holding => op[c] = "live"
  /\ op[c] = "live" => job[c] \in Holding \cup {"detach", "dispose"}
  /\ op[c] = "deleted" => job[c] \in {"recheck", "view", "unwind", "value", "error"}
  /\ started[c] => op[c] # "none" /\ job[c] \notin {"publish", "start"}
  /\ op[c] = "deleted" /\ started[c] => settled[c]
  /\ job[c] \in {"finish", "granted", "own"} => settled[c]
  /\ job[c] = "releasing" => ctxDone[c]
  /\ task[c] \in Ended => JobOver(c)

\* The controller has a handle exactly while the job is between its publish and
\* its detach, and while cancel is in its native call it holds the lock that
\* detach needs.
ControllerInv(c) ==
  /\ lock[c] = "held" <=> task[c] = "native"
  /\ job[c] \in Published => handle[c]
  /\ handle[c] => op[c] = "live" /\ job[c] \in Published \cup {"detach"}
  /\ task[c] = "native" => handle[c]
  /\ task[c] \in {"native", "draining"} => cancelled[c]
  /\ task[c] = "draining" /\ handle[c] => ctxDone[c]

\* A report is held by what comes next: the job, its owner, the view.
ReportInv(c) ==
  /\ job[c] \in {"none", "queued", "check", "create", "publish", "start", "wait",
                 "finish", "granted"} => result[c] = "none"
  /\ result[c] = "local" => job[c] \in {"own", "detach", "dispose"}
  /\ result[c] = "view" => job[c] = "value" /\ task[c] \notin {"raised", "cancelled"}
  /\ job[c] = "error" => result[c] \in {"none", "released"}
  /\ task[c] = "raised" => job[c] = "error"
  /\ job[c] = "own" => result[c] = "local"
  /\ job[c] \in {"detach", "dispose", "release", "releasing"} /\ ~failed[c]
       => result[c] = "owner"
  /\ job[c] \in {"recheck", "view"} => result[c] = "owner"
  /\ job[c] = "value" => result[c] \in {"view", "released"}

CallInv(c) == OperationInv(c) /\ ControllerInv(c) /\ ReportInv(c)

Holders == {c \in Call : result[c] \in {"local", "owner", "view"}}

Inv ==
  /\ TypeInv /\ QueueInv
  /\ \A c \in Call : CallInv(c)
  /\ liveResults = Cardinality(Holders)

-----------------------------------------------------------------------------
(* The steps of one call.                                                    *)

Step(c) ==
  \/ TaskStep(c) \/ Environment(c) \/ JobStep(c) \/ Interrupt(c) \/ Settle(c)
  \/ TakeJob /\ c = Head(queue)

LEMMA NextIsStep ==
  ASSUME TypeInv, QueueInv, [Next]_vars
  PROVE  (\E c \in Call : Step(c)) \/ UNCHANGED vars
<1>1. ASSUME TakeJob PROVE \E c \in Call : Step(c)
  <2>1. Head(queue) \in Call
    BY <1>1 DEF TakeJob, QueueInv
  <2> QED BY <1>1, <2>1 DEF Step
<1> QED BY <1>1 DEF Next, Step, Terminated

\* A step of one call keeps the types.
LEMMA StepTypes ==
  ASSUME TypeInv, QueueInv, NEW c \in Call, Step(c)
  PROVE  TypeInv'
<1> USE DEF Step, TaskStep, Resume, CancelBegin, CancelSetting, CancelNative, Drained, Drop,
            Environment, Submit, CancelTask, CancelAgain, DropView, JobStep, CheckCancelled,
            Create, Publish, PublishUnless, Start, Wait, Finish, FinishIf, Transfer, Own,
            Detach, Dispose, ReleaseCancel, ReleaseReturn, ReleaseAfter, Recheck, MakeView,
            Unwind, Interrupt, Settle, TakeJob, At, Goto, Raise,
            taskVars, ctlVars, jobVars, opVars, resVars, vars
<1>1. task' \in [Call -> {"new", "awaiting", "cancel", "native", "draining"} \cup Ended]
  BY DEF TypeInv, Ended
<1>2. /\ lock' \in [Call -> {"free", "held"}]
      /\ cancelled' \in [Call -> BOOLEAN] /\ handle' \in [Call -> BOOLEAN]
  BY DEF TypeInv
<1>3. job' \in [Call -> Place]
  <2>1. \A p \in {"queued", "value", "error"} \cup Threaded : p \in Place
    BY DEF Place
  <2>2. \A p \in {"check", "create", "publish", "start", "wait", "finish", "granted", "own",
                  "detach", "dispose", "release", "releasing", "recheck", "view", "unwind"} :
          p \in Threaded
    BY DEF Threaded
  <2> QED BY <2>1, <2>2 DEF TypeInv
<1>4. failed' \in [Call -> BOOLEAN]
  BY DEF TypeInv
<1>5. op' \in [Call -> {"none", "live", "deleted"}]
  BY DEF TypeInv
<1>6. started' \in [Call -> BOOLEAN] /\ ctxDone' \in [Call -> BOOLEAN]
  BY DEF TypeInv
<1>7. settled' \in [Call -> BOOLEAN]
  BY DEF TypeInv
<1>8. status' \in [Call -> {0, 1, 2, 4}]
  BY DEF TypeInv
<1>9. result' \in [Call -> {"none", "local", "owner", "view", "released"}]
  BY DEF TypeInv
<1> QED BY <1>1, <1>2, <1>3, <1>4, <1>5, <1>6, <1>7, <1>8, <1>9 DEF TypeInv

\* It leaves the others alone.
LEMMA StepIsLocal ==
  ASSUME TypeInv, QueueInv, NEW c \in Call, Step(c), NEW d \in Call, d # c
  PROVE  UNCHANGED <<task[d], lock[d], cancelled[d], handle[d], job[d], failed[d], op[d],
                     started[d], ctxDone[d], settled[d], status[d], result[d]>>
<1> USE DEF TypeInv, taskVars, ctlVars, jobVars, opVars, resVars, vars
<1>1. CASE TaskStep(c)
  BY <1>1 DEF TaskStep, Resume, CancelBegin, CancelSetting, CancelNative, Drained, Drop
<1>2. CASE Environment(c)
  BY <1>2 DEF Environment, Submit, CancelTask, CancelAgain, DropView, Drop
<1>3. CASE JobStep(c)
  <2>1. CASE CheckCancelled(c) \/ Create(c) \/ Publish(c) \/ Start(c) \/ Wait(c) \/ Finish(c)
    BY <2>1 DEF CheckCancelled, Create, Publish, PublishUnless, Start, Wait, Finish, FinishIf,
       At, Goto, Raise
  <2>2. CASE Transfer(c) \/ Own(c) \/ Detach(c) \/ Dispose(c) \/ ReleaseCancel(c)
    BY <2>2 DEF Transfer, Own, Detach, Dispose, ReleaseCancel, Drop, At, Goto
  <2>3. CASE ReleaseReturn(c) \/ Recheck(c) \/ MakeView(c) \/ Unwind(c)
    BY <2>3 DEF ReleaseReturn, ReleaseAfter, Recheck, MakeView, Unwind, Drop, At, Goto
  <2> QED BY <1>3, <2>1, <2>2, <2>3 DEF JobStep
<1>4. CASE Interrupt(c) \/ Settle(c)
  BY <1>4 DEF Interrupt, Raise, Settle
<1>5. CASE TakeJob /\ c = Head(queue)
  BY <1>5 DEF TakeJob
<1> QED BY <1>1, <1>2, <1>3, <1>4, <1>5 DEF Step

\* It keeps the order of what the call knows about itself.
LEMMA StepKeepsCall ==
  ASSUME TypeInv, QueueInv, NEW c \in Call, CallInv(c), Step(c)
  PROVE  CallInv(c)'
<1> USE DEF TypeInv, CallInv, OperationInv, ControllerInv, ReportInv, Published, Holding,
            JobOver, Ended, taskVars, ctlVars, jobVars, opVars, resVars, vars
<1>1. CASE TaskStep(c)
  <2>1. CASE Resume(c) \/ Drained(c)
    BY <2>1 DEF Resume, Drained, Drop
  <2>2. CASE CancelBegin(c) \/ CancelNative(c)
    BY <2>2 DEF CancelBegin, CancelSetting, CancelNative
  <2> QED BY <1>1, <2>1, <2>2 DEF TaskStep
<1>2. CASE Environment(c)
  BY <1>2 DEF Environment, Submit, CancelTask, CancelAgain, DropView, Drop
<1>3. CASE JobStep(c)
  <2>1. CASE CheckCancelled(c) \/ Create(c) \/ Publish(c)
    BY <2>1 DEF CheckCancelled, Create, Publish, PublishUnless, At, Goto, Raise
  <2>2. CASE Start(c) \/ Wait(c) \/ Finish(c)
    BY <2>2 DEF Start, Wait, Finish, FinishIf, At, Goto, Raise
  <2>3. CASE Transfer(c) \/ Own(c) \/ Detach(c)
    BY <2>3 DEF Transfer, Own, Detach, At, Goto
  <2>4. CASE Dispose(c) \/ ReleaseCancel(c) \/ ReleaseReturn(c)
    BY <2>4 DEF Dispose, ReleaseCancel, ReleaseReturn, ReleaseAfter, Drop, At, Goto
  <2>5. CASE Recheck(c) \/ MakeView(c) \/ Unwind(c)
    BY <2>5 DEF Recheck, MakeView, Unwind, Drop, At, Goto
  <2> QED BY <1>3, <2>1, <2>2, <2>3, <2>4, <2>5 DEF JobStep
<1>4. CASE Interrupt(c) \/ Settle(c)
  BY <1>4 DEF Interrupt, Raise, Settle
<1>5. CASE TakeJob /\ c = Head(queue)
  <2>1. job[c] = "queued"
    BY <1>5 DEF TakeJob, QueueInv
  <2> QED BY <1>5, <2>1 DEF TakeJob
<1> QED BY <1>1, <1>2, <1>3, <1>4, <1>5 DEF Step

\* The queue stays a list of different jobs that have no thread.
LEMMA StepKeepsQueue ==
  ASSUME TypeInv, QueueInv, NEW c \in Call, CallInv(c), Step(c)
  PROVE  QueueInv'
<1> USE DEF TypeInv, taskVars, ctlVars, jobVars, opVars, resVars, vars
<1>0. \A d \in Call : d # c => job'[d] = job[d]
  BY StepIsLocal
<1>1. CASE Submit(c)
  <2>1. queue' = Append(queue, c) /\ job'[c] = "queued" /\ job[c] # "queued"
    BY <1>1 DEF Submit, CallInv, OperationInv
  <2>2. \A k \in 1..Len(queue) : queue[k] \in Call /\ queue[k] # c
    BY <2>1 DEF QueueInv
  <2>3. /\ queue' \in Seq(Call) /\ Len(queue') = Len(queue) + 1
        /\ \A k \in 1..Len(queue') :
             queue'[k] = IF k <= Len(queue) THEN queue[k] ELSE c
    BY <2>1 DEF QueueInv
  <2>4. Len(queue) \in Nat
    BY DEF QueueInv
  <2>5. \A k \in 1..Len(queue') : k \in 1..Len(queue) \/ k = Len(queue) + 1
    BY <2>3, <2>4
  <2> QED BY <1>0, <2>1, <2>2, <2>3, <2>4, <2>5 DEF QueueInv
<1>2. CASE TakeJob /\ c = Head(queue)
  <2>1. queue # << >> /\ queue' = Tail(queue) /\ queue[1] = c
    BY <1>2 DEF TakeJob, QueueInv
  <2>2. queue' \in Seq(Call) /\ Len(queue') = Len(queue) - 1
        /\ \A k \in 1..Len(queue') : queue'[k] = queue[k + 1] /\ k + 1 \in 1..Len(queue)
    BY <2>1 DEF QueueInv
  <2>3. 1 \in 1..Len(queue) /\ \A k \in 1..Len(queue') : k \in Nat /\ k + 1 # 1
    BY <2>1 DEF QueueInv
  <2>4. \A k \in 1..Len(queue') : queue'[k] # c /\ queue'[k] \in Call
    BY <2>1, <2>2, <2>3 DEF QueueInv
  <2>5. \A k, l \in 1..Len(queue') : k # l => queue'[k] # queue'[l]
    <3> SUFFICES ASSUME NEW k \in 1..Len(queue'), NEW l \in 1..Len(queue'), k # l
                 PROVE  queue[k + 1] # queue[l + 1]
      BY <2>2
    <3>1. k + 1 # l + 1
      BY <2>3
    <3> QED BY <2>2, <3>1 DEF QueueInv
  <2>6. \A k \in 1..Len(queue') : job[queue'[k]] = "queued"
    BY <2>2 DEF QueueInv
  <2>7. \A k \in 1..Len(queue') : job'[queue'[k]] = "queued"
    BY <1>0, <2>4, <2>6
  <2> QED BY <2>2, <2>5, <2>7 DEF QueueInv
<1>3. CASE ~Submit(c) /\ ~(TakeJob /\ c = Head(queue))
  <2>1. queue' = queue /\ (job[c] = "queued" => job'[c] = "queued")
    <3>1. CASE TaskStep(c) \/ Environment(c) \/ Interrupt(c) \/ Settle(c)
      BY <1>3, <3>1 DEF TaskStep, Resume, CancelBegin, CancelSetting, CancelNative, Drained,
         Environment, CancelTask, CancelAgain, DropView, Interrupt, Settle, Raise
    <3>2. CASE JobStep(c)
      BY <3>2 DEF JobStep, CheckCancelled, Create, Publish, PublishUnless, Start, Wait, Finish,
         FinishIf, Transfer, Own, Detach, Dispose, ReleaseCancel, ReleaseReturn, ReleaseAfter,
         Recheck, MakeView, Unwind, At, Goto, Raise
    <3> QED BY <1>3, <3>1, <3>2 DEF Step
  <2> QED BY <1>0, <2>1 DEF QueueInv
<1> QED BY <1>1, <1>2, <1>3

\* The count of the reports moves with their holders.
LEMMA StepKeepsCount ==
  ASSUME TypeInv, QueueInv, NEW c \in Call, CallInv(c), Step(c),
         liveResults = Cardinality(Holders)
  PROVE  liveResults' = Cardinality(Holders')
<1> USE DEF TypeInv, taskVars, ctlVars, jobVars, opVars, resVars, vars
<1> DEFINE held == {"local", "owner", "view"}
<1>1. \/ liveResults' = liveResults /\ (result'[c] \in held <=> result[c] \in held)
      \/ liveResults' = liveResults + 1 /\ result[c] \notin held /\ result'[c] \in held
      \/ liveResults' = liveResults - 1 /\ result[c] \in held /\ result'[c] \notin held
  <2>1. CASE TaskStep(c) \/ Environment(c)
    BY <2>1 DEF TaskStep, Environment, Resume, CancelBegin, CancelSetting, CancelNative,
       Drained, Submit, CancelTask, CancelAgain, DropView, Drop
  <2>2. CASE JobStep(c)
    <3>1. CASE Transfer(c) \/ Own(c) \/ MakeView(c)
      BY <3>1 DEF Transfer, Own, MakeView, At, Goto, CallInv, ReportInv
    <3>2. CASE Dispose(c) \/ Unwind(c)
      BY <3>2 DEF Dispose, Unwind, Drop
    <3>3. CASE ~(Transfer(c) \/ Own(c) \/ MakeView(c) \/ Dispose(c) \/ Unwind(c))
      BY <2>2, <3>3 DEF JobStep, CheckCancelled, Create, Publish, PublishUnless, Start, Wait,
         Finish, FinishIf, Detach, ReleaseCancel, ReleaseReturn, ReleaseAfter, Recheck
    <3> QED BY <3>1, <3>2, <3>3
  <2>3. CASE Interrupt(c) \/ Settle(c) \/ TakeJob
    BY <2>3 DEF Interrupt, Settle, TakeJob
  <2> QED BY <2>1, <2>2, <2>3 DEF Step
<1>2. \A d \in Call : d # c => result'[d] = result[d]
  BY StepIsLocal
<1>3. IsFiniteSet(Holders) /\ Cardinality(Holders) \in Nat
  BY ScanCallAssumption, FS_Subset, FS_CardinalityType DEF Holders
<1>4. CASE liveResults' = liveResults /\ (result'[c] \in held <=> result[c] \in held)
  <2>1. Holders' = Holders
    BY <1>2, <1>4 DEF Holders
  <2> QED BY <1>4, <2>1
<1>5. CASE liveResults' = liveResults + 1 /\ result[c] \notin held /\ result'[c] \in held
  <2>1. Holders' = Holders \cup {c} /\ c \notin Holders
    BY <1>2, <1>5 DEF Holders
  <2> QED BY <1>3, <1>5, <2>1, FS_AddElement
<1>6. CASE liveResults' = liveResults - 1 /\ result[c] \in held /\ result'[c] \notin held
  <2>1. Holders' = Holders \ {c} /\ c \in Holders
    BY <1>2, <1>6 DEF Holders
  <2> QED BY <1>3, <1>6, <2>1, FS_RemoveElement
<1> QED BY <1>1, <1>4, <1>5, <1>6

-----------------------------------------------------------------------------
(* The invariant, and the safety properties that follow from it.             *)

LEMMA InvInit == Init => Inv
<1> SUFFICES ASSUME Init PROVE Inv
  OBVIOUS
<1>1. TypeInv
  BY DEF Init, TypeInv, Place
<1>2. QueueInv
  BY DEF Init, QueueInv
<1>3. \A c \in Call : CallInv(c)
  BY DEF Init, CallInv, OperationInv, ControllerInv, ReportInv, Holding, Published, JobOver, Ended
<1>4. Holders = {}
  BY DEF Init, Holders
<1>5. liveResults = Cardinality(Holders)
  BY <1>4, FS_EmptySet DEF Init
<1> QED BY <1>1, <1>2, <1>3, <1>5 DEF Inv

LEMMA InvStep == Inv /\ [Next]_vars => Inv'
<1> SUFFICES ASSUME Inv, [Next]_vars PROVE Inv'
  OBVIOUS
<1>1. ASSUME NEW c \in Call, Step(c) PROVE Inv'
  <2>1. TypeInv' /\ QueueInv' /\ CallInv(c)' /\ (liveResults = Cardinality(Holders))'
    BY <1>1, StepTypes, StepKeepsQueue, StepKeepsCall, StepKeepsCount DEF Inv
  <2>2. ASSUME NEW d \in Call, d # c PROVE CallInv(d)'
    <3>1. UNCHANGED <<task[d], lock[d], cancelled[d], handle[d], job[d], failed[d], op[d],
                      started[d], ctxDone[d], settled[d], status[d], result[d]>>
      BY <1>1, <2>2, StepIsLocal DEF Inv
    <3> QED
      BY <3>1 DEF Inv, CallInv, OperationInv, ControllerInv, ReportInv, JobOver
  <2> QED BY <2>1, <2>2 DEF Inv
<1>2. CASE UNCHANGED vars
  BY <1>2 DEF Inv, TypeInv, QueueInv, CallInv, OperationInv, ControllerInv, ReportInv, JobOver,
     Holders, taskVars, ctlVars, jobVars, opVars, resVars, vars
<1> QED BY <1>1, <1>2, NextIsStep DEF Inv

LEMMA InvAlways == Spec => []Inv
  BY InvInit, InvStep, PTL DEF Spec

\* cancel's native call never meets a handle that the job has deleted: detach
\* needs the lock that cancel holds, and release comes after it (_native.pyx 552
\* to 556, 566 to 570, 598 to 611).
THEOREM NativeCancelIsSafe == Spec => []CancelFindsHandle
<1>1. Inv => CancelFindsHandle
  BY DEF Inv, CallInv, ControllerInv, CancelFindsHandle
<1> QED BY <1>1, InvAlways, PTL

\* A cancellation reaches the operation, or the operation is never started,
\* wherever between creation and publication it fell (_native.pyx 550 to 564, 584
\* to 590).
THEOREM CancellationIsNotLost == Spec => []NoLostCancel
<1>1. Inv => NoLostCancel
  BY DEF Inv, CallInv, OperationInv, ControllerInv, Holding, Published, NoLostCancel
<1> QED BY <1>1, InvAlways, PTL

\* A call that has ended has left no operation behind, cancelled or not
\* (scanner.py 74 to 86).
THEOREM EndsClean == Spec => []EndedIsClean
<1>1. Inv => EndedIsClean
  BY DEF Inv, TypeInv, CallInv, OperationInv, Holding, Published, JobOver, EndedIsClean
<1> QED BY <1>1, InvAlways, PTL

\* liveResults is the number of reports that somebody holds, and a call without
\* a report holds none (go/abi.go 20 to 22, 91, 99; _native.pyx 600 to 621).
THEOREM ReportsAccounted == Spec => []ResultsAccounted
<1>1. Inv => ResultsAccounted
  BY DEF Inv, TypeInv, CallInv, OperationInv, ReportInv, JobOver, Ended, Holders,
     ResultsAccounted
<1> QED BY <1>1, InvAlways, PTL

-----------------------------------------------------------------------------
(* The contract of Batch.  A step of a call is a step of its operation as    *)
(* Batch has it, or does not touch the operation at all.                     *)

\* The variables of Batch as a call has them change only with these.
LEMMA ContractStutters ==
  ASSUME NEW c \in Call,
         UNCHANGED <<started[c], ctxDone[c], settled[c], status[c], op[c]>>,
         result'[c] = "none" <=> result[c] = "none",
         job'[c] \in {"granted", "releasing"} \/ job[c] \in {"granted", "releasing"}
           => job'[c] = job[c]
  PROVE  UNCHANGED (Contract(c)!vars)
  BY DEF Contract!vars

LEMMA StepKeepsContract ==
  ASSUME TypeInv, QueueInv, NEW c \in Call, CallInv(c), Step(c)
  PROVE  [Contract(c)!Next]_(Contract(c)!vars)
<1> USE DEF TypeInv, taskVars, ctlVars, jobVars, opVars, resVars, vars
<1>1. CASE TaskStep(c)
  <2>1. CASE CancelNative(c)
    <3>1. CASE ~ctxDone[c]
      <4>1. op[c] = "live"
        BY <2>1 DEF CancelNative, CallInv, ControllerInv
      <4>2. Contract(c)!Cancel
        BY <2>1, <3>1, <4>1 DEF CancelNative, Contract!Cancel
      <4> QED BY <4>2 DEF Contract!Next
    <3>2. CASE ctxDone[c]
      BY <2>1, <3>2, ContractStutters DEF CancelNative
    <3> QED BY <3>1, <3>2
  <2>2. CASE Resume(c) \/ CancelBegin(c) \/ Drained(c)
    BY <2>2, ContractStutters DEF Resume, CancelBegin, CancelSetting, Drained, Drop
  <2> QED BY <1>1, <2>1, <2>2 DEF TaskStep
<1>2. CASE Environment(c) \/ Interrupt(c) \/ TakeJob
  <2>1. UNCHANGED <<started, ctxDone, settled, status, op>>
    BY <1>2 DEF Environment, Submit, CancelTask, CancelAgain, DropView, Interrupt, TakeJob
  <2>2. result'[c] = "none" <=> result[c] = "none"
    BY <1>2 DEF Environment, Submit, CancelTask, CancelAgain, DropView, Drop, Interrupt, TakeJob
  <2>3. CASE Submit(c)
    BY <2>1, <2>2, <2>3, ContractStutters DEF Submit, CallInv, OperationInv
  <2>4. CASE CancelTask(c) \/ CancelAgain(c) \/ DropView(c) \/ Interrupt(c)
    BY <2>1, <2>2, <2>4, ContractStutters
    DEF CancelTask, CancelAgain, DropView, Interrupt, Raise
  <2>5. CASE TakeJob
    <3>1. job[Head(queue)] = "queued"
      BY <2>5 DEF TakeJob, QueueInv
    <3> QED BY <2>1, <2>2, <2>5, <3>1, ContractStutters DEF TakeJob
  <2> QED BY <1>2, <2>3, <2>4, <2>5 DEF Environment
<1>3. CASE Settle(c)
  <2>1. started[c] /\ ~settled[c] /\ settled'[c] = TRUE
        /\ UNCHANGED <<started[c], ctxDone[c], op[c], job[c], result[c]>>
        /\ (status'[c] \in {0, 1, 2} \/ (ctxDone[c] /\ status'[c] = 4))
    BY <1>3 DEF Settle
  <2>2. << >> \in Contract(c)!WholeReport
    <3>1. [i \in 1..0 |-> "complete"] \in [1..0 -> Contract(c)!ReportedOutcome]
      BY DEF Contract!ReportedOutcome
    <3>2. [i \in 1..0 |-> [index |-> i - 1,
                           outcome |-> [j \in 1..0 |-> "complete"][i]]] = << >>
      OBVIOUS
    <3> QED BY <3>1, <3>2 DEF Contract!WholeReport
  <2>3. Contract(c)!Settle
    BY <2>1, <2>2 DEF Contract!Settle
  <2> QED BY <2>3 DEF Contract!Next
<1>4. CASE JobStep(c)
  <2>1. CASE CheckCancelled(c) \/ Create(c) \/ Publish(c)
    <3>1. UNCHANGED <<started, ctxDone, settled, status, result>>
          /\ job[c] \notin {"granted", "releasing"} /\ job'[c] \notin {"granted", "releasing"}
      BY <2>1 DEF CheckCancelled, Create, Publish, PublishUnless, At, Goto, Raise
    <3>2. op[c] # "deleted" /\ op'[c] # "deleted"
      BY <2>1 DEF CheckCancelled, Create, Publish, PublishUnless, At, CallInv, OperationInv
    <3> QED BY <3>1, <3>2 DEF Contract!vars
  <2>2. CASE Start(c)
    <3>1. ~started[c] /\ op[c] = "live"
      BY <2>2 DEF Start, At, CallInv, OperationInv, Holding, Published
    <3>2. Contract(c)!Start
      BY <2>2, <3>1 DEF Start, At, Goto, Contract!Start
    <3> QED BY <3>2 DEF Contract!Next
  <2>3. CASE Wait(c) \/ Detach(c) \/ Dispose(c) \/ Recheck(c) \/ MakeView(c) \/ Unwind(c) \/ Own(c)
    BY <2>3, ContractStutters DEF Wait, Detach, Dispose, Recheck, MakeView, Unwind, Own, Drop,
       At, Goto, Raise, CallInv, ReportInv
  <2>4. CASE Finish(c)
    <3>1. CASE WaitStatus(c) = 0
      <4>1. ~ctxDone[c] /\ status[c] = 0 /\ settled[c] /\ op[c] = "live"
        BY <2>4, <3>1 DEF WaitStatus, Finish, FinishIf, At, CallInv, OperationInv, Holding,
           Published
      <4>2. Contract(c)!Grant
        BY <2>4, <3>1, <4>1 DEF Finish, FinishIf, At, Goto, Contract!Grant
      <4> QED BY <4>2 DEF Contract!Next
    <3>2. CASE WaitStatus(c) # 0
      BY <2>4, <3>2, ContractStutters DEF Finish, FinishIf, At, Raise
    <3> QED BY <3>1, <3>2
  <2>5. CASE Transfer(c)
    <3>1. result[c] = "none" /\ op[c] = "live"
      BY <2>5 DEF Transfer, At, CallInv, OperationInv, ReportInv, Holding, Published
    <3>2. Append(<< >>, << >>) = << << >> >>
      OBVIOUS
    <3>3. Contract(c)!Transfer
      BY <2>5, <3>1, <3>2 DEF Transfer, At, Goto, Contract!Transfer
    <3> QED BY <3>3 DEF Contract!Next
  <2>6. CASE ReleaseCancel(c)
    <3>1. op[c] = "live"
      BY <2>6 DEF ReleaseCancel, At, CallInv, OperationInv, Holding
    <3>2. Contract(c)!Release
      BY <2>6, <3>1 DEF ReleaseCancel, At, Goto, Contract!Release
    <3> QED BY <3>2 DEF Contract!Next
  <2>7. CASE ReleaseReturn(c)
    <3>1. op[c] = "live"
      BY <2>7 DEF ReleaseReturn, ReleaseAfter, At, CallInv, OperationInv, Holding
    <3>2. Contract(c)!Released
      BY <2>7, <3>1 DEF ReleaseReturn, ReleaseAfter, At, Goto, Contract!Released
    <3> QED BY <3>2 DEF Contract!Next
  <2> QED BY <1>4, <2>1, <2>2, <2>3, <2>4, <2>5, <2>6, <2>7 DEF JobStep
<1> QED BY <1>1, <1>2, <1>3, <1>4 DEF Step, Environment

\* Every call uses its operation as Batch lets its one owner do, whatever the
\* other calls do and wherever it is interrupted or cancelled (_native.pyx 588 to
\* 612, go/abi.go 34 to 93).
THEOREM CallsKeepContract == Spec => OwnsContract
<1>1. Init => \A c \in Call : Contract(c)!Init
  BY DEF Init, Contract!Init
<1>2. Inv /\ [Next]_vars => \A c \in Call : [Contract(c)!Next]_(Contract(c)!vars)
  <2> SUFFICES ASSUME Inv, [Next]_vars, NEW d \in Call
               PROVE  [Contract(d)!Next]_(Contract(d)!vars)
    OBVIOUS
  <2>1. ASSUME NEW c \in Call, Step(c) PROVE [Contract(d)!Next]_(Contract(d)!vars)
    <3>1. CASE c = d
      BY <2>1, <3>1, StepKeepsContract DEF Inv
    <3>2. CASE c # d
      BY <2>1, <3>2, StepIsLocal, ContractStutters DEF Inv
    <3> QED BY <3>1, <3>2
  <2>2. CASE UNCHANGED vars
    BY <2>2, ContractStutters DEF taskVars, ctlVars, jobVars, opVars, resVars, vars
  <2> QED BY <2>1, <2>2, NextIsStep DEF Inv
<1> QED BY <1>1, <1>2, InvAlways, PTL DEF Spec, OwnsContract
===============================================================================
