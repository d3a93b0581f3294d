-------------------------------- MODULE Batch --------------------------------
(***************************************************************************)
(* What one native operation promises its owner: the contract that         *)
(* go/operation.go gives to go/abi.go and to the Cython binding, with the  *)
(* workers, the channels and the coordinator left out.                     *)
(*                                                                         *)
(* An operation settles at most once.  It settles either with one image    *)
(* per input, in input order, whatever order the scans ended in, or with a *)
(* failure status and nothing else.  A settled report goes to at most one  *)
(* finish call, never after a cancellation that finish could have seen,    *)
(* and once release returns nothing of the operation runs any more.        *)
(***************************************************************************)
EXTENDS Naturals, Sequences

CONSTANT NumInputs      \* len(op.req.Inputs)

VARIABLES
  started,    \* op.started
  ctxDone,    \* op.ctx has been cancelled
  done,       \* op.done is closed: status and report are settled
  status,     \* op.status: 0 success, 1 failure, 2 overflow, 4 cancelled
  report,     \* op.report: the images not handed over yet
  finished,   \* op.finished
  published,  \* the reports finish has handed over, in order
  owner       \* where the one owner of the operation is: idle, inside finish
              \* past its wait ("granted"), inside release, or gone

vars == <<started, ctxDone, done, status, report, finished, published, owner>>

\* An image that a report may hold: a scan that ran to its end, or one that
\* failed for a reason of its own.  Nothing that a cancellation cut short.
ReportedOutcome == {"complete", "failed"}

\* One image per input, in input order.
WholeReport ==
  {[i \in 1..NumInputs |-> [index |-> i - 1, outcome |-> outcome[i]]] :
     outcome \in [1..NumInputs -> ReportedOutcome]}

Init ==
  /\ started = FALSE /\ ctxDone = FALSE /\ done = FALSE /\ finished = FALSE
  /\ status = 0 /\ report = << >> /\ published = << >> /\ owner = "idle"

Start ==
  /\ owner = "idle" /\ ~started
  /\ started' = TRUE
  /\ UNCHANGED <<ctxDone, done, status, report, finished, published, owner>>

\* Cancellation is the only control operation that may come at any time.
Cancel ==
  /\ ~ctxDone /\ owner # "released"
  /\ ctxDone' = TRUE
  /\ UNCHANGED <<started, done, status, report, finished, published, owner>>

\* The operation ends, whole or with nothing; a cancelled status needs a
\* cancellation.
Settle ==
  /\ started /\ ~done
  /\ done' = TRUE
  /\ \/ status' = 0 /\ report' \in WholeReport
     \/ status' \in {1, 2} /\ report' = << >>
     \/ ctxDone /\ status' = 4 /\ report' = << >>
  /\ UNCHANGED <<started, ctxDone, finished, published, owner>>

\* finish commits to a report only if no cancellation has come.
Grant ==
  /\ owner = "idle" /\ done /\ status = 0 /\ ~ctxDone
  /\ owner' = "granted"
  /\ UNCHANGED <<started, ctxDone, done, status, report, finished, published>>

\* The first finish takes the report; a later one gets nothing.
Transfer ==
  /\ owner = "granted"
  /\ owner' = "idle"
  /\ IF finished THEN UNCHANGED <<finished, published, report>>
     ELSE /\ finished' = TRUE
          /\ published' = Append(published, report)
          /\ report' = << >>
  /\ UNCHANGED <<started, ctxDone, done, status>>

Release ==
  /\ owner = "idle"
  /\ owner' = "releasing" /\ ctxDone' = TRUE
  /\ UNCHANGED <<started, done, status, report, finished, published>>

\* release returns only when what was started has ended.
Released ==
  /\ owner = "releasing" /\ (started => done)
  /\ owner' = "released" /\ report' = << >>
  /\ UNCHANGED <<started, ctxDone, done, status, finished, published>>

Next == Start \/ Cancel \/ Settle \/ Grant \/ Transfer \/ Release \/ Released

Spec == Init /\ [][Next]_vars
=============================================================================
