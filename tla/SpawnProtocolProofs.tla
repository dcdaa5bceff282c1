------------------------ MODULE SpawnProtocolProofs --------------------------
(***************************************************************************)
(* Proofs about SpawnProtocol, for every set of concurrent spawns and every*)
(* set of faults.                                                          *)
(***************************************************************************)
EXTENDS SpawnProtocol, TLAPS

(* The initial states satisfy the inductive invariant: nothing has been    *)
(* opened, cloned or released.                                             *)
LEMMA InitInd == Init => IndInv
  BY SpawnAssumption
  DEF Init, IndInv, TypeOK, SandboxInv, ControlInv, BarrierInv, PipeInv, KillInv,
      AcceptInv, Failed, Succeeded, Confined, ParentPcs, ChildPcs, Released,
      Committed, Stages, Failures, Procs, Ends

(* Every parent step keeps the types.                                      *)
LEMMA ParentType ==
  ASSUME NEW s \in Sandboxes, TypeOK, Parent(s)
  PROVE  TypeOK'
  <1> USE SpawnAssumption DEF TypeOK, Procs, Goto, HostOpens, HostCloses, childVars
  <1>1. CASE ResolveStdio(s)
    BY <1>1 DEF ResolveStdio, ReturnEarly, Ends, ParentPcs, Failures
  <1>2. CASE OpenPipes(s)
    BY <1>2 DEF OpenPipes, ReturnEarly, Ends, ParentPcs, Failures
  <1>3. CASE Clone(s)
    BY <1>3 DEF Clone, ReturnEarly, Ends, ParentPcs, ChildPcs, Failures
  <1>4. CASE CloseReadyRead(s)
    BY <1>4 DEF CloseReadyRead, Ends, ParentPcs
  <1>5. CASE CloseErrorWrite(s)
    BY <1>5 DEF CloseErrorWrite, Ends, ParentPcs, Failures
  <1>6. CASE WriteMappings(s)
    BY <1>6 DEF WriteMappings, AbortStartup, Ends, ParentPcs, Failures
  <1>7. CASE ConfigureCgroup(s)
    BY <1>7 DEF ConfigureCgroup, AbortStartup, Ends, ParentPcs, Failures
  <1>8. CASE Release(s)
    BY <1>8 DEF Release, AbortStartup, Ends, ParentPcs, Failures
  <1>9. CASE Drain(s)
    BY <1>9 DEF Drain, ParentPcs
  <1>10. CASE ReadFrame(s)
    BY <1>10 DEF ReadFrame, ParentPcs, Failures
  <1>11. CASE KillChild(s)
    BY <1>11 DEF KillChild, ParentPcs
  <1>12. CASE ReapChild(s)
    BY <1>12 DEF ReapChild, ParentPcs
  <1>13. CASE DropLocals(s)
    BY <1>13 DEF DropLocals, Ends, ParentPcs
  <1> QED
    BY <1>1, <1>2, <1>3, <1>4, <1>5, <1>6, <1>7, <1>8, <1>9, <1>10, <1>11,
       <1>12, <1>13 DEF Parent

(* Every step of a child, of the caller or of the environment on one       *)
(* sandbox keeps the types.                                                *)
OtherStep(s) ==
  \/ Child(s) \/ CloseStdin(s) \/ TargetExit(s) \/ KillDelivered(s)
  \/ ChildInterrupted(s) \/ ChildSignalled(s) \/ ErrorPipeFails(s)

(* The steps of the child and of faults keep the types.                    *)
LEMMA OtherType ==
  ASSUME NEW s \in Sandboxes, TypeOK, OtherStep(s)
  PROVE  TypeOK'
  <1> USE SpawnAssumption
      DEF TypeOK, Procs, Goto, HostCloses, Die, ChildAt, childVars, parentVars
  <1>1. CASE ChildEntry(s)
    BY <1>1 DEF ChildEntry, ChildPcs, Ends
  <1>2. CASE ChildReleased(s)
    BY <1>2 DEF ChildReleased, ChildPcs, Stages, Ends
  <1>3. CASE ChildNotReleased(s)
    BY <1>3 DEF ChildNotReleased
  <1>4. CASE SetupStep(s)
    BY <1>4 DEF SetupStep, SetupOk, SetupFails, NextStage, ChildPcs, Stages
  <1>5. CASE AbortExit(s)
    BY <1>5 DEF AbortExit
  <1>6. CASE CommitSetup(s)
    BY <1>6 DEF CommitSetup, ChildPcs, Ends
  <1>7. CASE ExecTarget(s)
    BY <1>7 DEF ExecTarget, ChildPcs
  <1>8. CASE CloseStdin(s)
    BY <1>8 DEF CloseStdin, Ends
  <1>9. CASE TargetExit(s)
    BY <1>9 DEF TargetExit
  <1>10. CASE KillDelivered(s)
    BY <1>10 DEF KillDelivered
  <1>11. CASE ChildSignalled(s)
    BY <1>11 DEF ChildSignalled
  <1>13. CASE ChildInterrupted(s)
    BY <1>13 DEF ChildInterrupted
  <1>12. CASE ErrorPipeFails(s)
    BY <1>12 DEF ErrorPipeFails, ParentPcs, Failures
  <1> QED
    BY <1>1, <1>2, <1>3, <1>4, <1>5, <1>6, <1>7, <1>8, <1>9, <1>10, <1>11,
       <1>12, <1>13 DEF OtherStep, Child

(* What the invariant of sandbox t can see is unchanged.                   *)
Untouched(t) ==
  /\ ppc'[t] = ppc[t] /\ fate'[t] = fate[t] /\ cpc'[t] = cpc[t]
  /\ proc'[t] = proc[t] /\ frame'[t] = frame[t] /\ cg'[t] = cg[t]
  /\ t \in sigkilled' <=> t \in sigkilled
  /\ t \in byte' <=> t \in byte
  /\ t \in mapped' <=> t \in mapped
  /\ fdtable'[t] = fdtable[t]
  /\ \A e \in Ends : <<t, e>> \in fdtable'[Host] <=> <<t, e>> \in fdtable[Host]

(* The invariant of a sandbox depends on nothing else.                     *)
LEMMA UntouchedKeeps ==
  ASSUME NEW t \in Sandboxes, SandboxInv(t), Untouched(t)
  PROVE  SandboxInv(t)'
  BY DEF SandboxInv, ControlInv, BarrierInv, PipeInv, KillInv, AcceptInv, Untouched,
         Failed, Succeeded, Confined, EndsOf, Ends

(* A parent step of one spawn touches no other sandbox: in the host's fd   *)
(* table it opens and closes only its own ends.                            *)
LEMMA ParentLocal ==
  ASSUME NEW s \in Sandboxes, NEW t \in Sandboxes \ {s}, TypeOK, Parent(s)
  PROVE  Untouched(t)
  <1> USE SpawnAssumption DEF TypeOK, Procs, Goto, childVars, Untouched
  <1>1. CASE ResolveStdio(s)
    BY <1>1 DEF ResolveStdio, ReturnEarly, HostOpens, HostCloses
  <1>2. CASE OpenPipes(s)
    BY <1>2 DEF OpenPipes, ReturnEarly, HostOpens, HostCloses
  <1>3. CASE Clone(s)
    BY <1>3 DEF Clone, ReturnEarly, HostCloses
  <1>4. CASE CloseReadyRead(s)
    BY <1>4 DEF CloseReadyRead, HostCloses
  <1>5. CASE CloseErrorWrite(s)
    BY <1>5 DEF CloseErrorWrite, HostCloses
  <1>6. CASE WriteMappings(s)
    BY <1>6 DEF WriteMappings, AbortStartup, HostCloses
  <1>7. CASE ConfigureCgroup(s)
    BY <1>7 DEF ConfigureCgroup, AbortStartup, HostCloses
  <1>8. CASE Release(s)
    BY <1>8 DEF Release, AbortStartup, HostCloses
  <1>9. CASE Drain(s)
    BY <1>9 DEF Drain
  <1>10. CASE ReadFrame(s)
    BY <1>10 DEF ReadFrame
  <1>11. CASE KillChild(s)
    BY <1>11 DEF KillChild
  <1>12. CASE ReapChild(s)
    BY <1>12 DEF ReapChild
  <1>13. CASE DropLocals(s)
    BY <1>13 DEF DropLocals, HostCloses
  <1> QED
    BY <1>1, <1>2, <1>3, <1>4, <1>5, <1>6, <1>7, <1>8, <1>9, <1>10, <1>11,
       <1>12, <1>13 DEF Parent

(* Nor does a step of a child, of the caller or of the environment.        *)
LEMMA OtherLocal ==
  ASSUME NEW s \in Sandboxes, NEW t \in Sandboxes \ {s}, TypeOK, OtherStep(s)
  PROVE  Untouched(t)
  <1> USE SpawnAssumption
      DEF TypeOK, Procs, Goto, Die, ChildAt, childVars, parentVars, Untouched
  <1>1. CASE ChildEntry(s)
    BY <1>1 DEF ChildEntry
  <1>2. CASE ChildReleased(s)
    BY <1>2 DEF ChildReleased
  <1>3. CASE ChildNotReleased(s)
    BY <1>3 DEF ChildNotReleased
  <1>4. CASE SetupStep(s)
    BY <1>4 DEF SetupStep, SetupOk, SetupFails, NextStage
  <1>5. CASE AbortExit(s)
    BY <1>5 DEF AbortExit
  <1>6. CASE CommitSetup(s)
    BY <1>6 DEF CommitSetup
  <1>7. CASE ExecTarget(s)
    BY <1>7 DEF ExecTarget
  <1>8. CASE CloseStdin(s)
    BY <1>8 DEF CloseStdin, HostCloses
  <1>9. CASE TargetExit(s)
    BY <1>9 DEF TargetExit
  <1>10. CASE KillDelivered(s)
    BY <1>10 DEF KillDelivered
  <1>11. CASE ChildSignalled(s)
    BY <1>11 DEF ChildSignalled
  <1>13. CASE ChildInterrupted(s)
    BY <1>13 DEF ChildInterrupted
  <1>12. CASE ErrorPipeFails(s)
    BY <1>12 DEF ErrorPipeFails
  <1> QED
    BY <1>1, <1>2, <1>3, <1>4, <1>5, <1>6, <1>7, <1>8, <1>9, <1>10, <1>11,
       <1>12, <1>13 DEF OtherStep, Child

(* A parent step keeps the invariant of its own sandbox.                   *)
LEMMA ParentInd ==
  ASSUME NEW s \in Sandboxes, TypeOK, SandboxInv(s), Parent(s)
  PROVE  SandboxInv(s)'
  <1> USE SpawnAssumption
      DEF TypeOK, Procs, Goto, childVars, SandboxInv, ControlInv, BarrierInv,
          PipeInv, KillInv, AcceptInv, Failed, Succeeded, Confined, Released,
          Committed, EndsOf
  <1>1. CASE ResolveStdio(s)
    BY <1>1 DEF ResolveStdio, ReturnEarly, HostOpens, HostCloses, Failures, Stages, Ends
  <1>2. CASE OpenPipes(s)
    BY <1>2 DEF OpenPipes, ReturnEarly, HostOpens, HostCloses, Failures, Stages, Ends
  <1>3. CASE Clone(s)
    BY <1>3 DEF Clone, ReturnEarly, HostCloses, Failures, Stages, Ends
  <1>4. CASE CloseReadyRead(s)
    BY <1>4 DEF CloseReadyRead, HostCloses, Failures, Stages, Ends
  <1>5. CASE CloseErrorWrite(s)
    BY <1>5 DEF CloseErrorWrite, HostCloses, Failures, Stages, Ends
  <1>6. CASE WriteMappings(s)
    BY <1>6 DEF WriteMappings, AbortStartup, HostCloses, Failures, Stages, Ends
  <1>7. CASE ConfigureCgroup(s)
    BY <1>7 DEF ConfigureCgroup, AbortStartup, HostCloses, Failures, Stages, Ends
  <1>8. CASE Release(s)
    BY <1>8 DEF Release, AbortStartup, HostCloses, Failures, Stages, Ends
  <1>9. CASE Drain(s)
    BY <1>9 DEF Drain, NoHolder, Failures, Stages, Ends
  <1>10. CASE ReadFrame(s)
    BY <1>10 DEF ReadFrame, Failures, Stages, Ends
  <1>11. CASE KillChild(s)
    BY <1>11 DEF KillChild, Failures, Stages, Ends
  <1>12. CASE ReapChild(s)
    BY <1>12 DEF ReapChild, Failures, Stages, Ends
  <1>13. CASE DropLocals(s)
    BY <1>13 DEF DropLocals, HostCloses, Failures, Stages, Ends
  <1> QED
    BY <1>1, <1>2, <1>3, <1>4, <1>5, <1>6, <1>7, <1>8, <1>9, <1>10, <1>11,
       <1>12, <1>13 DEF Parent

(* A step of its child, of the caller or of the environment keeps it too.  *)
LEMMA OtherInd ==
  ASSUME NEW s \in Sandboxes, TypeOK, SandboxInv(s), OtherStep(s)
  PROVE  SandboxInv(s)'
  <1> USE SpawnAssumption
      DEF TypeOK, Procs, Goto, Die, ChildAt, Runs, childVars, parentVars, SandboxInv,
          ControlInv, BarrierInv, PipeInv, KillInv, AcceptInv, Failed, Succeeded,
          Confined, Released, Committed, EndsOf
  <1>1. CASE ChildEntry(s)
    BY <1>1 DEF ChildEntry, Failures, Stages, Ends
  <1>2. CASE ChildReleased(s)
    BY <1>2 DEF ChildReleased, Failures, Stages, Ends
  <1>3. CASE ChildNotReleased(s)
    BY <1>3 DEF ChildNotReleased, Failures, Stages, Ends
  <1>4. CASE SetupStep(s)
    BY <1>4 DEF SetupStep, SetupOk, SetupFails, NextStage, Failures, Stages, Ends
  <1>5. CASE AbortExit(s)
    BY <1>5 DEF AbortExit, Failures, Stages, Ends
  <1>6. CASE CommitSetup(s)
    BY <1>6 DEF CommitSetup, Failures, Stages, Ends
  <1>7. CASE ExecTarget(s)
    BY <1>7 DEF ExecTarget, Failures, Stages, Ends
  <1>8. CASE CloseStdin(s)
    BY <1>8 DEF CloseStdin, HostCloses, Failures, Stages, Ends
  <1>9. CASE TargetExit(s)
    BY <1>9 DEF TargetExit, Failures, Stages, Ends
  <1>10. CASE KillDelivered(s)
    BY <1>10 DEF KillDelivered, Failures, Stages, Ends
  <1>11. CASE ChildSignalled(s)
    BY <1>11 DEF ChildSignalled, Failures, Stages, Ends
  <1>13. CASE ChildInterrupted(s)
    BY <1>13 DEF ChildInterrupted, Failures, Stages, Ends
  <1>12. CASE ErrorPipeFails(s)
    BY <1>12 DEF ErrorPipeFails, Failures, Stages, Ends
  <1> QED
    BY <1>1, <1>2, <1>3, <1>4, <1>5, <1>6, <1>7, <1>8, <1>9, <1>10, <1>11,
       <1>12, <1>13 DEF OtherStep, Child

(* The host's death keeps the invariant: it only closes host fds and ends  *)
(* every run_prepared.                                                     *)
LEMMA CrashInd ==
  ASSUME IndInv, HostCrash
  PROVE  IndInv'
  BY SpawnAssumption
  DEF HostCrash, IndInv, TypeOK, SandboxInv, ControlInv, BarrierInv, PipeInv,
      KillInv, AcceptInv, Failed, Succeeded, Confined, Procs, ParentPcs, childVars

(* Every step keeps the inductive invariant.                               *)
LEMMA NextInd ==
  ASSUME IndInv, [Next]_vars
  PROVE  IndInv'
  <1>1. CASE UNCHANGED vars
    BY <1>1 DEF IndInv, vars, TypeOK, SandboxInv, ControlInv, BarrierInv, PipeInv,
                KillInv, AcceptInv, Failed, Succeeded, Confined
  <1>2. CASE HostCrash
    BY <1>2, CrashInd
  <1>3. ASSUME NEW s \in Sandboxes, Parent(s) \/ OtherStep(s)
        PROVE  IndInv'
    <2>1. TypeOK /\ SandboxInv(s)
      BY DEF IndInv
    <2>2. TypeOK'
      BY <1>3, <2>1, ParentType, OtherType
    <2>3. SandboxInv(s)'
      BY <1>3, <2>1, ParentInd, OtherInd
    <2>4. ASSUME NEW t \in Sandboxes \ {s} PROVE SandboxInv(t)'
      <3>1. Untouched(t)
        BY <1>3, <2>1, ParentLocal, OtherLocal
      <3>2. SandboxInv(t)
        BY DEF IndInv
      <3> QED
        BY <3>1, <3>2, UntouchedKeeps
    <2> QED
      BY <2>2, <2>3, <2>4 DEF IndInv
  <1> QED
    BY <1>1, <1>2, <1>3 DEF Next, OtherStep

(* The inductive invariant holds of every behaviour of the protocol.       *)
THEOREM SpawnInvariant == Spec => []IndInv
  BY InitInd, NextInd, PTL DEF Spec

(* Types: the variables always describe states of run_prepared and         *)
(* exec_sandboxed.                                                         *)
THEOREM SpawnTypes == Spec => []TypeOK
  <1>1. IndInv => TypeOK
    BY DEF IndInv
  <1> QED
    BY <1>1, SpawnInvariant, PTL

(* No setup step of exec_sandboxed runs before the parent has written the  *)
(* maps and settled the cgroup, for any number of concurrent spawns.       *)
THEOREM SpawnConfines == Spec => []ConfinedBeforeSetup
  <1>1. IndInv => ConfinedBeforeSetup
    BY DEF IndInv, TypeOK, SandboxInv, BarrierInv, Confined, ConfinedBeforeSetup
  <1> QED
    BY <1>1, SpawnInvariant, PTL

(* An error of run_prepared leaves no child that can still take a step, no *)
(* open host fd and no attached cgroup.                                    *)
THEOREM SpawnFailureIsClean == Spec => []FailedSpawnLeavesNothing
  <1>1. IndInv => FailedSpawnLeavesNothing
    BY DEF IndInv, SandboxInv, KillInv, FailedSpawnLeavesNothing, Runs
  <1> QED
    BY <1>1, SpawnInvariant, PTL

(* Ok of run_prepared means that the child has committed or is dead, and   *)
(* that no failure frame was missed.                                       *)
THEOREM SpawnReportsFailures == Spec => []SetupFailureNeverMissed
  <1>1. IndInv => SetupFailureNeverMissed
    BY DEF IndInv, SandboxInv, AcceptInv, SetupFailureNeverMissed
  <1> QED
    BY <1>1, SpawnInvariant, PTL

-----------------------------------------------------------------------------
(* After an error of run_prepared its child takes no step any more: the    *)
(* steps of a child need it alive without a pending SIGKILL.               *)
THEOREM SpawnErrorIsFinal == Spec => NothingRunsAfterError
  <1> DEFINE Final == \A s \in Sandboxes :
                        Failed(s) => cpc'[s] = cpc[s] /\ fate'[s] = fate[s]
  <1>1. ASSUME IndInv, [Next]_vars
        PROVE  [Final]_vars
    <2>1. CASE UNCHANGED vars
      BY <2>1
    <2>2. CASE HostCrash
      BY <2>2 DEF HostCrash, childVars
    <2>3. ASSUME NEW s \in Sandboxes, Parent(s) \/ OtherStep(s)
          PROVE  Final
      <3> SUFFICES ASSUME NEW t \in Sandboxes, Failed(t)
                   PROVE  cpc'[t] = cpc[t] /\ fate'[t] = fate[t]
        OBVIOUS
      <3>1. CASE t # s
        <4>1. Untouched(t)
          BY <1>1, <2>3, <3>1, ParentLocal, OtherLocal DEF IndInv
        <4> QED
          BY <4>1 DEF Untouched
      <3>2. CASE t = s
        <4>1. ~Runs(s)
          BY <1>1, <3>2 DEF IndInv, SandboxInv, KillInv, Runs
        <4>2. ~Parent(s)
          BY <3>2 DEF Failed, Parent, ResolveStdio, OpenPipes, Clone, CloseReadyRead,
             CloseErrorWrite, WriteMappings, ConfigureCgroup, Release, Drain,
             ReadFrame, KillChild, ReapChild, DropLocals
        <4>3. ~Child(s) /\ ~TargetExit(s) /\ ~ChildSignalled(s) /\ ~ChildInterrupted(s)
          BY <4>1 DEF Child, ChildEntry, ChildReleased, ChildNotReleased, SetupStep,
             SetupOk, SetupFails, AbortExit, CommitSetup, ExecTarget, ChildAt,
             TargetExit, ChildSignalled, ChildInterrupted
        <4>4. ~ErrorPipeFails(s) /\ ~CloseStdin(s)
          BY <3>2 DEF Failed, ErrorPipeFails, CloseStdin
        <4>5. KillDelivered(s)
          BY <2>3, <4>2, <4>3, <4>4 DEF OtherStep
        <4> QED
          BY <3>2, <4>5 DEF KillDelivered, childVars, parentVars
      <3> QED
        BY <3>1, <3>2
    <2> QED
      BY <1>1, <2>1, <2>2, <2>3 DEF Next, OtherStep
  <1> QED
    BY <1>1, SpawnInvariant, PTL DEF Spec, NothingRunsAfterError

-----------------------------------------------------------------------------
(* The refinement, one sandbox at a time.                                  *)

Moves(s, from, to) ==
  PhaseOf(s) \in from /\ PhaseOf(s)' = to /\ AnswerOf(s)' = AnswerOf(s)

Answers(s, from, to) ==
  /\ AnswerOf(s) = "pending" /\ AnswerOf(s)' = to
  /\ PhaseOf(s) \in from /\ PhaseOf(s)' = PhaseOf(s)

(* The abstract step that a step of sandbox s is, or a stutter.            *)
LocalStep(s) ==
  \/ PhaseOf(s)' = PhaseOf(s) /\ AnswerOf(s)' = AnswerOf(s)
  \/ AnswerOf(s) = "pending" /\ Moves(s, {"absent"}, "created")
  \/ AnswerOf(s) = "pending" /\ Moves(s, {"created"}, "confined")
  \/ Moves(s, {"confined"}, "started")
  \/ Moves(s, {"created", "confined", "started"}, "gone")
  \/ Answers(s, {"started", "gone"}, "ok")
  \/ Answers(s, {"absent", "gone"}, "error")

(* A parent step is at most one step of the abstract lifecycle.            *)
LEMMA ParentRefines ==
  ASSUME NEW s \in Sandboxes, TypeOK, SandboxInv(s), Parent(s)
  PROVE  LocalStep(s)
  <1> USE SpawnAssumption
      DEF TypeOK, Procs, Goto, childVars, SandboxInv, ControlInv, BarrierInv,
          PipeInv, KillInv, Confined, Committed, Released, Runs, PhaseOf, AnswerOf,
          LocalStep, Moves, Answers, Failures, Stages
  <1>1. CASE ResolveStdio(s)
    BY <1>1 DEF ResolveStdio, ReturnEarly
  <1>2. CASE OpenPipes(s)
    BY <1>2 DEF OpenPipes, ReturnEarly
  <1>3. CASE Clone(s)
    BY <1>3 DEF Clone, ReturnEarly
  <1>4. CASE CloseReadyRead(s)
    BY <1>4 DEF CloseReadyRead
  <1>5. CASE CloseErrorWrite(s)
    BY <1>5 DEF CloseErrorWrite
  <1>6. CASE WriteMappings(s)
    BY <1>6 DEF WriteMappings, AbortStartup
  <1>7. CASE ConfigureCgroup(s)
    BY <1>7 DEF ConfigureCgroup, AbortStartup
  <1>8. CASE Release(s)
    BY <1>8 DEF Release, AbortStartup
  <1>9. CASE Drain(s)
    BY <1>9 DEF Drain, NoHolder
  <1>10. CASE ReadFrame(s)
    BY <1>10 DEF ReadFrame
  <1>11. CASE KillChild(s)
    BY <1>11 DEF KillChild
  <1>12. CASE ReapChild(s)
    BY <1>12 DEF ReapChild
  <1>13. CASE DropLocals(s)
    BY <1>13 DEF DropLocals
  <1> QED
    BY <1>1, <1>2, <1>3, <1>4, <1>5, <1>6, <1>7, <1>8, <1>9, <1>10, <1>11,
       <1>12, <1>13 DEF Parent

(* So is a step of the child, of the caller or of the environment.         *)
LEMMA OtherRefines ==
  ASSUME NEW s \in Sandboxes, TypeOK, SandboxInv(s), OtherStep(s)
  PROVE  LocalStep(s)
  <1> USE SpawnAssumption
      DEF TypeOK, Goto, Die, ChildAt, childVars, parentVars, SandboxInv, ControlInv,
          BarrierInv, PipeInv, Confined, Committed, Released, Runs, PhaseOf,
          AnswerOf, LocalStep, Moves, Answers
  <1>1. CASE ChildEntry(s)
    BY <1>1 DEF ChildEntry
  <1>2. CASE ChildReleased(s)
    BY <1>2 DEF ChildReleased
  <1>3. CASE ChildNotReleased(s)
    BY <1>3 DEF ChildNotReleased
  <1>4. CASE SetupStep(s)
    BY <1>4 DEF SetupStep, SetupOk, SetupFails, NextStage, Stages
  <1>5. CASE AbortExit(s)
    BY <1>5 DEF AbortExit
  <1>6. CASE CommitSetup(s)
    BY <1>6 DEF CommitSetup
  <1>7. CASE ExecTarget(s)
    BY <1>7 DEF ExecTarget
  <1>8. CASE CloseStdin(s)
    BY <1>8 DEF CloseStdin
  <1>9. CASE TargetExit(s)
    BY <1>9 DEF TargetExit
  <1>10. CASE KillDelivered(s)
    BY <1>10 DEF KillDelivered
  <1>11. CASE ChildSignalled(s)
    BY <1>11 DEF ChildSignalled
  <1>13. CASE ChildInterrupted(s)
    BY <1>13 DEF ChildInterrupted
  <1>12. CASE ErrorPipeFails(s)
    BY <1>12 DEF ErrorPipeFails
  <1> QED
    BY <1>1, <1>2, <1>3, <1>4, <1>5, <1>6, <1>7, <1>8, <1>9, <1>10, <1>11,
       <1>12, <1>13 DEF OtherStep, Child

(* A step of one sandbox is a step of the whole abstract lifecycle.        *)
LEMMA LocalStepLifts ==
  ASSUME NEW s \in Sandboxes, LocalStep(s),
         \A t \in Sandboxes \ {s} :
           PhaseOf(t)' = PhaseOf(t) /\ AnswerOf(t)' = AnswerOf(t)
  PROVE  [Lifecycle!Next]_(Lifecycle!lifecycle)
  <1> DEFINE ph == [t \in Sandboxes |-> PhaseOf(t)]
             an == [t \in Sandboxes |-> AnswerOf(t)]
  <1>1. ph' = [ph EXCEPT ![s] = PhaseOf(s)'] /\ an' = [an EXCEPT ![s] = AnswerOf(s)']
    OBVIOUS
  <1>2. ph[s] = PhaseOf(s) /\ an[s] = AnswerOf(s)
    OBVIOUS
  <1> QED
    BY <1>1, <1>2
    DEF LocalStep, Moves, Answers, Lifecycle!Next, Lifecycle!lifecycle,
        Lifecycle!Create, Lifecycle!Confine, Lifecycle!Start, Lifecycle!Vanish,
        Lifecycle!Accept, Lifecycle!Reject

(* The spawn protocol implements the abstract lifecycle: the proof maps    *)
(* every step of every thread, child and fault to one abstract step.       *)
THEOREM SpawnRefinesLifecycle == Spec => ImplementsLifecycle
  <1>1. Init => Lifecycle!Init
    <2> SUFFICES ASSUME Init PROVE Lifecycle!Init
      OBVIOUS
    <2>1. \A s \in Sandboxes : PhaseOf(s) = "absent" /\ AnswerOf(s) = "pending"
      BY DEF Init, PhaseOf, AnswerOf
    <2> QED
      BY <2>1 DEF Lifecycle!Init
  <1>2. ASSUME IndInv, [Next]_vars
        PROVE  [Lifecycle!Next]_(Lifecycle!lifecycle)
    <2>1. CASE UNCHANGED vars
      BY <2>1 DEF vars, Lifecycle!lifecycle, PhaseOf, AnswerOf, Runs, Confined
    <2>2. CASE HostCrash
      BY <2>2 DEF HostCrash, childVars, Lifecycle!Next, Lifecycle!Lose, PhaseOf,
                  AnswerOf, Runs, Confined
    <2>3. ASSUME NEW s \in Sandboxes, Parent(s) \/ OtherStep(s)
          PROVE  [Lifecycle!Next]_(Lifecycle!lifecycle)
      <3>1. LocalStep(s)
        BY <1>2, <2>3, ParentRefines, OtherRefines DEF IndInv
      <3>2. ASSUME NEW t \in Sandboxes \ {s}
            PROVE  PhaseOf(t)' = PhaseOf(t) /\ AnswerOf(t)' = AnswerOf(t)
        <4>1. Untouched(t)
          BY <1>2, <2>3, ParentLocal, OtherLocal DEF IndInv
        <4> QED
          BY <4>1 DEF Untouched, PhaseOf, AnswerOf, Runs, Confined
      <3> QED
        BY <3>1, <3>2, LocalStepLifts
    <2> QED
      BY <1>2, <2>1, <2>2, <2>3 DEF Next, OtherStep
  <1> QED
    BY <1>1, <1>2, SpawnInvariant, PTL DEF Spec, ImplementsLifecycle, Lifecycle!Spec
=============================================================================
