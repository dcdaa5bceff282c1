----------------------------- MODULE OneShotRun ------------------------------
(***************************************************************************)
(* One-shot execution once the child runs: run (process/spawn.rs) feeds    *)
(* stdin, then wait_with_timeout (process/wait.rs) polls for output and for*)
(* the exit, kills at the wall-time limit and gives up on a child that     *)
(* cannot be killed.  Child::wait_async runs wait_with_timeout_async, the  *)
(* same loop with an await in place of the sleep, without a limit and      *)
(* without pipes, and its future may be dropped at that await.             *)
(*                                                                         *)
(* Time is two flags the clock may raise: the limit has expired, the grace *)
(* period after the kill is over.  The child program is arbitrary; a read  *)
(* or write it has entered blocks it.  Bytes are counted in units of which *)
(* a pipe holds PipeCap; stdout stands for both output pipes.              *)
(***************************************************************************)
EXTENDS Naturals

CONSTANTS
  StdinLen,  \* units of stdin data the caller passes
  OutLen,    \* bound: units the child writes at most
  PipeCap    \* capacity of a pipe

ASSUME RunAssumption ==
  /\ StdinLen \in Nat /\ OutLen \in Nat /\ PipeCap \in Nat \ {0}

VARIABLES
  limited,    \* FALSE: Duration::MAX, as in Child::wait_with_output
  async,      \* Child::wait_async
  hpc,        \* where the host is
  unfed,      \* stdin data not yet written
  inPipe,     \* units in the stdin pipe
  child,      \* "alive", or how it died: "exited", "signalled", "killed"
  cop,        \* the call the child is in: "run" (none), "read" or "write"
  stdinOpen,  \* the child has its stdin open
  sigkill,    \* the host's SIGKILL is pending or delivered
  reaped,     \* waitpid has returned the status
  written,    \* units the child has written
  outPipe,    \* units in the stdout pipe
  collected,  \* units in the stdout buffer
  expired,    \* the wall-time limit is over
  graceOver,  \* POST_KILL_GRACE is over
  killed_by_timeout,
  answer      \* "none", "ok" or "err"

vars == <<limited, async, hpc, unfed, inPipe, child, cop, stdinOpen, sigkill, reaped,
          written, outPipe, collected, expired, graceOver, killed_by_timeout, answer>>

stdinVars == <<unfed, inPipe, stdinOpen>>
outVars == <<written, outPipe, collected>>
clockVars == <<limited, async, expired, graceOver>>
hostVars == <<hpc, reaped, killed_by_timeout, answer>>

Init ==
  /\ limited \in BOOLEAN /\ async \in BOOLEAN /\ ~(limited /\ async)
  /\ hpc = IF async THEN "Open" ELSE "Feed"
  /\ unfed = IF async THEN 0 ELSE StdinLen
  /\ inPipe = 0
  /\ child = "alive" /\ cop = "run" /\ stdinOpen = TRUE
  /\ sigkill = FALSE /\ reaped = FALSE
  /\ written = 0 /\ outPipe = 0 /\ collected = 0
  /\ expired = FALSE /\ graceOver = FALSE
  /\ killed_by_timeout = FALSE /\ answer = "none"

-----------------------------------------------------------------------------
(* The host: run                                                           *)

(* The child still reads its stdin: otherwise a write gets EPIPE.          *)
HasReader == child = "alive" /\ stdinOpen

(* write_all_raw on the blocking pipe: no timer runs yet.                  *)
FeedWrite ==
  /\ hpc = "Feed" /\ unfed > 0
  /\ HasReader /\ inPipe < PipeCap
  /\ unfed' = unfed - 1 /\ inPipe' = inPipe + 1
  /\ UNCHANGED <<hostVars, child, cop, stdinOpen, sigkill, outVars, clockVars>>

(* Everything is written, or the write failed, which is ignored; stdin is  *)
(* closed and wait_and_collect starts.                                     *)
FeedDone ==
  /\ hpc = "Feed"
  /\ unfed = 0 \/ ~HasReader
  /\ hpc' = "Read"
  /\ UNCHANGED <<reaped, killed_by_timeout, answer, stdinVars, child, cop, sigkill,
                 outVars, clockVars>>

-----------------------------------------------------------------------------
(* The host: wait_with_timeout, one iteration of its loop                  *)

(* read_available: a read that returns data, and the loop goes on.         *)
ReadSome ==
  /\ hpc = "Read" /\ outPipe > 0
  /\ collected' = collected + 1 /\ outPipe' = outPipe - 1
  /\ UNCHANGED <<hostVars, stdinVars, child, cop, sigkill, written, clockVars>>

(* Mutant: the loop over the pipe may be left while it has data.           *)
ReadDoneEarly ==
  /\ hpc = "Read"
  /\ hpc' = "Reap"
  /\ UNCHANGED <<reaped, killed_by_timeout, answer, stdinVars, child, cop, sigkill,
                 outVars, clockVars>>

(* read_available: EAGAIN or EOF, the pipe is empty.                       *)
ReadDone ==
  /\ hpc = "Read" /\ outPipe = 0
  /\ hpc' = "Reap"
  /\ UNCHANGED <<reaped, killed_by_timeout, answer, stdinVars, child, cop, sigkill,
                 outVars, clockVars>>

(* finalize: once the child is reaped the pipe is drained to its end.      *)
Finalize ==
  /\ collected' = collected + outPipe
  /\ outPipe' = 0

(* Mutant: returns what was read before the exit was noticed.              *)
TryReapNoFinalize ==
  /\ hpc = "Reap"
  /\ IF child = "alive" THEN hpc' = "Expiry" /\ UNCHANGED <<reaped, answer>>
     ELSE hpc' = "Done" /\ reaped' = TRUE /\ answer' = "ok"
  /\ UNCHANGED <<killed_by_timeout, stdinVars, child, cop, sigkill, outVars, clockVars>>

(* Mutant: a death by signal is taken for "not yet exited".                *)
TryReapExitsOnly ==
  /\ hpc = "Reap"
  /\ \/ /\ child = "exited"
        /\ reaped' = TRUE /\ answer' = "ok" /\ hpc' = "Done"
        /\ Finalize
     \/ /\ child # "exited"
        /\ hpc' = "Expiry"
        /\ UNCHANGED <<reaped, answer, collected, outPipe>>
  /\ UNCHANGED <<killed_by_timeout, stdinVars, child, cop, sigkill, written, clockVars>>

(* try_reap, and finalize when it has the status.  waitpid errs, other than*)
(* by EINTR, which is retried, only for a pid that is not an unreaped child*)
(* (ECHILD); this wait owns the child and no one else reaps it.            *)
TryReap ==
  /\ hpc = "Reap"
  /\ \/ /\ child # "alive"
        /\ reaped' = TRUE /\ answer' = "ok" /\ hpc' = "Done"
        /\ Finalize
     \/ /\ child = "alive"
        /\ hpc' = "Expiry"
        /\ UNCHANGED <<reaped, answer, collected, outPipe>>
  /\ UNCHANGED <<killed_by_timeout, stdinVars, child, cop, sigkill, written, clockVars>>

(* Mutant: the kill is not recorded.                                       *)
CheckExpiryUnrecorded ==
  /\ hpc = "Expiry"
  /\ hpc' = "Grace"
  /\ sigkill' = (sigkill \/ (expired /\ child = "alive"))
  /\ UNCHANGED <<reaped, killed_by_timeout, answer, stdinVars, child, cop, outVars,
                 clockVars>>

(* Past the limit, once: kill the child and its group, remember it.  The   *)
(* child may have died since try_reap, then the signal does nothing.       *)
CheckExpiry ==
  /\ hpc = "Expiry"
  /\ hpc' = "Grace"
  /\ \/ /\ expired /\ ~killed_by_timeout
        /\ sigkill' = (child = "alive")
        /\ killed_by_timeout' = TRUE
     \/ /\ ~(expired /\ ~killed_by_timeout)
        /\ UNCHANGED <<sigkill, killed_by_timeout>>
  /\ UNCHANGED <<reaped, answer, stdinVars, child, cop, outVars, clockVars>>

(* Mutant: keeps polling an unkillable child.                              *)
CheckGraceNever ==
  /\ hpc = "Grace"
  /\ hpc' = "Read"
  /\ UNCHANGED <<reaped, killed_by_timeout, answer, stdinVars, child, cop, sigkill,
                 outVars, clockVars>>

(* Give up on an unkillable child, or sleep and poll again.                *)
CheckGrace ==
  /\ hpc = "Grace"
  /\ hpc' = IF killed_by_timeout /\ graceOver THEN "Drop"
            ELSE IF async THEN "Await" ELSE "Read"
  /\ UNCHANGED <<reaped, killed_by_timeout, answer, stdinVars, child, cop, sigkill,
                 outVars, clockVars>>

(* The pidfd becomes an AsyncFd, which may fail; a kernel without pidfds   *)
(* goes on without one.                                                    *)
OpenPidfd ==
  /\ hpc = "Open"
  /\ hpc' \in {"Read", "Drop"}
  /\ UNCHANGED <<reaped, killed_by_timeout, answer, stdinVars, child, cop, sigkill,
                 outVars, clockVars>>

(* The pidfd is readable or the sleep is over.                             *)
AwaitReturns ==
  /\ hpc = "Await"
  /\ hpc' = "Read"
  /\ UNCHANGED <<reaped, killed_by_timeout, answer, stdinVars, child, cop, sigkill,
                 outVars, clockVars>>

(* The caller drops the future of wait_async, and with it the Child.       *)
Cancel ==
  /\ hpc = "Await"
  /\ hpc' = "Drop"
  /\ UNCHANGED <<reaped, killed_by_timeout, answer, stdinVars, child, cop, sigkill,
                 outVars, clockVars>>

(* Mutant: the drop takes the Child for one that was waited for.           *)
DropChildWaited ==
  /\ hpc = "Drop"
  /\ hpc' = "Done" /\ answer' = "err"
  /\ UNCHANGED <<reaped, sigkill, killed_by_timeout, stdinVars, child, cop, outVars,
                 clockVars>>

(* The error drops the Child: it kills again and polls for the exit.       *)
DropChild ==
  /\ hpc = "Drop"
  /\ sigkill' = (sigkill \/ child = "alive")
  /\ reaped' = (child # "alive")
  /\ hpc' = "Done" /\ answer' = "err"
  /\ UNCHANGED <<killed_by_timeout, stdinVars, child, cop, outVars, clockVars>>

Host == \/ FeedWrite \/ FeedDone \/ ReadSome \/ ReadDone \/ TryReap
        \/ CheckExpiry \/ CheckGrace \/ OpenPidfd \/ AwaitReturns \/ DropChild

-----------------------------------------------------------------------------
(* The child program and the kernel                                        *)

ChildRuns == child = "alive" /\ ~sigkill

(* In wait_async the streams are the caller's.                             *)
ChildCalls(op) ==
  /\ ChildRuns /\ cop = "run" /\ ~async
  /\ op = "write" => written < OutLen
  /\ op = "read" => stdinOpen
  /\ cop' = op
  /\ UNCHANGED <<hostVars, stdinVars, child, sigkill, outVars, clockVars>>

WriteReturns ==
  /\ ChildRuns /\ cop = "write" /\ outPipe < PipeCap
  /\ written' = written + 1 /\ outPipe' = outPipe + 1
  /\ cop' = "run"
  /\ UNCHANGED <<hostVars, stdinVars, child, sigkill, collected, clockVars>>

(* Data, or EOF once the host has closed its end.                          *)
ReadReturns ==
  /\ ChildRuns /\ cop = "read"
  /\ \/ inPipe > 0 /\ inPipe' = inPipe - 1
     \/ inPipe = 0 /\ hpc # "Feed" /\ UNCHANGED inPipe
  /\ cop' = "run"
  /\ UNCHANGED <<hostVars, unfed, stdinOpen, child, sigkill, outVars, clockVars>>

ChildClosesStdin ==
  /\ ChildRuns /\ cop = "run" /\ stdinOpen
  /\ stdinOpen' = FALSE /\ inPipe' = 0
  /\ UNCHANGED <<hostVars, unfed, child, cop, sigkill, outVars, clockVars>>

ChildDies(how) ==
  /\ child = "alive"
  /\ \/ how = "exited" /\ ~sigkill /\ cop = "run"
     \/ how = "signalled" /\ ~sigkill
     \/ how = "killed" /\ sigkill
  /\ child' = how
  /\ UNCHANGED <<hostVars, stdinVars, cop, sigkill, outVars, clockVars>>

(* The timer of the limit starts when wait_with_timeout is entered.        *)
LimitExpires ==
  /\ limited /\ hpc \notin {"Feed", "Done"} /\ ~expired
  /\ expired' = TRUE
  /\ UNCHANGED <<hostVars, stdinVars, child, cop, sigkill, outVars, limited, async, graceOver>>

GraceExpires ==
  /\ killed_by_timeout /\ hpc # "Done" /\ ~graceOver
  /\ graceOver' = TRUE
  /\ UNCHANGED <<hostVars, stdinVars, child, cop, sigkill, outVars, limited, async, expired>>

Next ==
  \/ Host \/ Cancel
  \/ \E op \in {"read", "write"} : ChildCalls(op)
  \/ WriteReturns \/ ReadReturns \/ ChildClosesStdin
  \/ \E how \in {"exited", "signalled", "killed"} : ChildDies(how)
  \/ LimitExpires \/ GraceExpires

Spec == Init /\ [][Next]_vars

(* The host thread runs, calls that can return do, time passes; the program*)
(* may compute forever, a SIGKILL may stay pending (D-state), and nobody   *)
(* has to cancel.                                                          *)
Fairness ==
  /\ WF_vars(Host) /\ WF_vars(WriteReturns) /\ WF_vars(ReadReturns)
  /\ WF_vars(LimitExpires) /\ WF_vars(GraceExpires)

FairSpec == Spec /\ Fairness

-----------------------------------------------------------------------------
(* Properties                                                              *)

TypeOK ==
  /\ limited \in BOOLEAN /\ async \in BOOLEAN
  /\ hpc \in {"Feed", "Open", "Read", "Reap", "Expiry", "Grace", "Await", "Drop", "Done"}
  /\ unfed \in 0..StdinLen /\ inPipe \in 0..PipeCap
  /\ child \in {"alive", "exited", "signalled", "killed"}
  /\ cop \in {"run", "read", "write"} /\ stdinOpen \in BOOLEAN
  /\ sigkill \in BOOLEAN /\ reaped \in BOOLEAN
  /\ written \in 0..OutLen /\ outPipe \in 0..PipeCap /\ collected \in 0..OutLen
  /\ expired \in BOOLEAN /\ graceOver \in BOOLEAN /\ killed_by_timeout \in BOOLEAN
  /\ answer \in {"none", "ok", "err"}

(* An Ok result holds everything the child wrote, also what it wrote       *)
(* between the last read_available and the reap.                           *)
CollectsEverything == answer = "ok" => collected = written

(* A child the host killed for its time limit is never reported as one that*)
(* ended otherwise.                                                        *)
TimeoutIsReported == answer = "ok" /\ child = "killed" => killed_by_timeout

(* The inductive invariant: no unit of output is lost or invented, only the*)
(* time limit or a dropped Child makes the host kill, and an error or a    *)
(* cancelled wait leaves no child that runs on.                            *)
RunInv ==
  /\ TypeOK
  /\ written = collected + outPipe
  /\ cop = "write" => written < OutLen
  /\ answer = "ok" => child # "alive" /\ outPipe = 0
  /\ answer = "err" => hpc = "Done" /\ (sigkill \/ child # "alive")
  /\ sigkill => killed_by_timeout \/ (async /\ answer = "err")
  /\ child = "killed" => sigkill
  /\ hpc \in {"Open", "Await"} => async
  /\ hpc = "Drop" => killed_by_timeout \/ async
  /\ killed_by_timeout => expired

(* Without a limit, a death of any kind ends the wait with its status,     *)
(* unless an asynchronous wait has failed or was cancelled.                *)
DeathEndsWait ==
  ~limited /\ child # "alive" ~> answer = "ok" \/ (async /\ answer = "err")

(* While the host waits, a child blocked on a full output pipe goes on,    *)
(* unless it is being killed.                                              *)
BlockedWriterGoesOn ==
  cop = "write" /\ hpc # "Feed" ~> cop # "write" \/ child # "alive" \/ sigkill

(* With a wall-time limit every one-shot run ends.                         *)
LimitEndsRun == limited => <>(answer # "none")
=============================================================================
