-------------------------- MODULE OneShotRunProofs ---------------------------
(***************************************************************************)
(* Proofs about OneShotRun, for every amount of input and output, every    *)
(* pipe capacity, with and without a limit.                                *)
(***************************************************************************)
EXTENDS OneShotRun, TLAPS

(* The inductive invariant holds when the child has just been started.     *)
LEMMA RunInit == Init => RunInv
  <1> SUFFICES ASSUME Init PROVE RunInv
    OBVIOUS
  <1>1. /\ 0 \in 0..StdinLen /\ StdinLen \in 0..StdinLen /\ 0 \in 0..PipeCap
        /\ 0 \in 0..OutLen /\ 0 = 0 + 0
    BY RunAssumption
  <1> QED
    BY <1>1, Zenon DEF Init, RunInv, TypeOK

(* Every step of run and wait_with_timeout keeps it.                       *)
LEMMA HostStep ==
  ASSUME RunInv, Host
  PROVE  RunInv'
  <1> USE RunAssumption
      DEF RunInv, TypeOK, stdinVars, outVars, clockVars, hostVars
  <1>1. CASE FeedWrite
    BY <1>1 DEF FeedWrite
  <1>2. CASE FeedDone
    BY <1>2 DEF FeedDone
  <1>3. CASE ReadSome
    BY <1>3 DEF ReadSome
  <1>4. CASE TryReap
    <2> USE <1>4 DEF TryReap, Finalize
    <2>1. CASE child # "alive"
      <3>1. /\ hpc' = "Done" /\ reaped' = TRUE /\ answer' = "ok"
            /\ collected' = written' /\ outPipe' = 0 /\ child' # "alive"
        BY <2>1
      <3>2. UNCHANGED <<killed_by_timeout, stdinVars, child, cop, sigkill, written,
                        clockVars>>
        BY <2>1
      <3> QED
        BY <2>1, <3>1, <3>2
    <2>2. CASE child = "alive"
      <3>1. /\ hpc' = "Expiry"
            /\ UNCHANGED <<reaped, answer, outVars, killed_by_timeout, stdinVars,
                           child, cop, sigkill, clockVars>>
        BY <2>2
      <3> QED
        BY <2>2, <3>1
    <2> QED
      BY <2>1, <2>2
  <1>5. CASE CheckExpiry
    <2> USE <1>5 DEF CheckExpiry
    <2>1. UNCHANGED <<reaped, answer, stdinVars, child, cop, outVars, clockVars>>
      OBVIOUS
    <2>2. CASE expired /\ ~killed_by_timeout
      <3>1. hpc' = "Grace" /\ killed_by_timeout' = TRUE /\ expired' = TRUE
        BY <2>1, <2>2, Zenon
      <3>2. answer # "err"
        BY <2>2
      <3>3. sigkill' \in BOOLEAN /\ child # "killed"
        BY <2>2, <3>2, Zenon
      <3> QED
        BY ONLY RunInv, <2>1, <3>1, <3>2, <3>3
        DEF RunInv, TypeOK, stdinVars, outVars, clockVars
    <2>3. CASE ~(expired /\ ~killed_by_timeout)
      <3>1. hpc' = "Grace" /\ UNCHANGED <<sigkill, killed_by_timeout>>
        BY <2>3, Zenon
      <3>2. answer # "err"
        BY <2>3
      <3> QED
        BY ONLY RunInv, <2>1, <3>1, <3>2
        DEF RunInv, TypeOK, stdinVars, outVars, clockVars
    <2> QED
      BY <2>2, <2>3
  <1>8. CASE ReadDone
    BY <1>8 DEF ReadDone
  <1>6. CASE CheckGrace
    BY <1>6 DEF CheckGrace
  <1>7. CASE DropChild
    <2> USE <1>7 DEF DropChild
    <2>1. /\ hpc' = "Done" /\ answer' = "err"
          /\ sigkill' \in BOOLEAN /\ reaped' \in BOOLEAN
          /\ killed_by_timeout \/ async
          /\ child = "killed" => sigkill'
          /\ child = "alive" => sigkill'
      BY Zenon
    <2>2. UNCHANGED <<killed_by_timeout, stdinVars, child, cop, outVars, clockVars>>
      OBVIOUS
    <2> QED
      BY ONLY RunInv, <2>1, <2>2
      DEF RunInv, TypeOK, stdinVars, outVars, clockVars
  <1>9. CASE OpenPidfd
    BY <1>9 DEF OpenPidfd
  <1>10. CASE AwaitReturns
    BY <1>10 DEF AwaitReturns
  <1> QED
    BY <1>1, <1>2, <1>3, <1>4, <1>5, <1>6, <1>7, <1>8, <1>9, <1>10 DEF Host

(* Every step of the child and of the clock keeps it.                      *)
LEMMA NextStep ==
  ASSUME RunInv, [Next]_vars
  PROVE  RunInv'
  <1> USE RunAssumption
      DEF RunInv, TypeOK, stdinVars, outVars, clockVars, hostVars
  <1>1. CASE Host
    BY <1>1, HostStep
  <1>2. ASSUME NEW op \in {"read", "write"}, ChildCalls(op)
        PROVE  RunInv'
    BY <1>2 DEF ChildCalls
  <1>3. CASE WriteReturns
    BY <1>3 DEF WriteReturns, ChildRuns
  <1>4. CASE ReadReturns
    BY <1>4 DEF ReadReturns
  <1>5. CASE ChildClosesStdin
    <2>1. /\ stdinOpen' \in BOOLEAN /\ inPipe' = 0
          /\ UNCHANGED <<hostVars, unfed, child, cop, sigkill, outVars, clockVars>>
      BY <1>5, Zenon DEF ChildClosesStdin
    <2> QED
      BY ONLY RunInv, <2>1, RunAssumption
      DEF RunInv, TypeOK, outVars, clockVars, hostVars
  <1>6. ASSUME NEW how \in {"exited", "signalled", "killed"}, ChildDies(how)
        PROVE  RunInv'
    <2> USE <1>6 DEF ChildDies
    <2>1. /\ child' \in {"exited", "signalled", "killed"} /\ child' # "alive"
          /\ child = "alive" /\ (child' = "killed" => sigkill)
          /\ UNCHANGED <<hostVars, stdinVars, cop, sigkill, outVars, clockVars>>
      OBVIOUS
    <2> QED
      BY ONLY RunInv, <2>1 DEF RunInv, TypeOK, stdinVars, outVars, clockVars, hostVars
  <1>7. CASE LimitExpires
    BY <1>7 DEF LimitExpires
  <1>8. CASE GraceExpires
    BY <1>8 DEF GraceExpires
  <1>9. CASE UNCHANGED vars
    BY <1>9 DEF vars
  <1>10. CASE Cancel
    BY <1>10 DEF Cancel
  <1> QED
    BY <1>1, <1>2, <1>3, <1>4, <1>5, <1>6, <1>7, <1>8, <1>9, <1>10 DEF Next

(* The inductive invariant holds of every one-shot run.                    *)
THEOREM RunInvariant == Spec => []RunInv
  BY RunInit, NextStep, PTL DEF Spec

(* An Ok result of wait_with_timeout has every byte the child wrote.       *)
THEOREM RunCollectsEverything == Spec => []CollectsEverything
  <1>1. RunInv => CollectsEverything
    BY RunAssumption DEF RunInv, TypeOK, CollectsEverything
  <1> QED
    BY <1>1, RunInvariant, PTL

(* A kill at the time limit is always reported as one.                     *)
THEOREM RunReportsTimeout == Spec => []TimeoutIsReported
  <1>1. RunInv => TimeoutIsReported
    BY DEF RunInv, TypeOK, TimeoutIsReported
  <1> QED
    BY <1>1, RunInvariant, PTL
=============================================================================
