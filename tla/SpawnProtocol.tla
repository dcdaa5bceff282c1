---------------------------- MODULE SpawnProtocol ----------------------------
(***************************************************************************)
(* The parent/child spawn protocol: run_prepared (process/protocol.rs) in  *)
(* the host, exec_sandboxed (process/child_setup.rs) in the cloned child.  *)
(*                                                                         *)
(* Several threads of one host process may spawn at the same time, one     *)
(* sandbox each.  The cloned child of sandbox s is the process named s.    *)
(* A process is represented by its fd table: clone() without CLONE_FILES   *)
(* copies the WHOLE table of the host, including the pipe ends of spawns   *)
(* that are in progress on other threads.                                  *)
(***************************************************************************)

CONSTANTS
  Sandboxes,     \* the concurrent run_prepared calls of one host process
  Host,          \* the host process
  NeedsCgroup,   \* the sandboxes whose configuration needs a cgroup
  HangingHooks,  \* the sandboxes whose caller-supplied hook may never return
  Faults         \* the environment faults that may happen, and the setup
                 \* stages that may fail

Procs == Sandboxes \cup {Host}

(* The pipe ends of one spawn whose closing somebody waits for.            *)
Ends == {"ready_r", "ready_w", "error_w", "stdin_w"}

(* Only the error pipe is created with O_CLOEXEC.                          *)
CloseOnExec == {"error_w"}

(* The setup steps that report a failure, in their order.                  *)
NextStage ==
  [Dup2 |-> "Sethostname", Sethostname |-> "Mount", Mount |-> "Chdir",
   Chdir |-> "Seccomp", Seccomp |-> "Hook", Hook |-> "Commit"]

Stages == {"Dup2", "Sethostname", "Mount", "Chdir", "Seccomp", "Hook"}

ASSUME SpawnAssumption ==
  /\ Host \notin Sandboxes
  /\ NeedsCgroup \subseteq Sandboxes
  /\ HangingHooks \subseteq Sandboxes
  /\ Faults \subseteq {"signal", "eintr", "read", "crash"} \cup Stages

Failures == Stages \cup {"Resources", "Startup", "Namespace", "Cgroup", "Read"}

VARIABLES
  ppc,       \* where run_prepared is, for each sandbox
  fate,      \* what run_prepared will return: "none", "ok" or a failure
  cpc,       \* where exec_sandboxed is (its last place, once the child is dead)
  proc,      \* "none", "alive", "zombie" or "reaped"
  sigkilled, \* the children with a SIGKILL pending or delivered
  fdtable,   \* the pipe ends each process has open
  byte,      \* the sandboxes whose ready pipe holds the release byte
  frame,     \* the failure frame in the error pipe, "none" if empty
  mapped,    \* the sandboxes whose uid/gid maps are written
  cg         \* "none", "attached", "degraded", "removed" or "leaked"

vars == <<ppc, fate, cpc, proc, sigkilled, fdtable, byte, frame, mapped, cg>>

parentVars == <<ppc, fate, mapped, cg>>
childVars == <<cpc, frame>>

ParentPcs == {"Resolve", "Pipes", "Clone", "CloseReady", "CloseError", "Map",
              "Limit", "Release", "Drain", "Frame", "Kill", "Reap", "Drop",
              "Done", "Crashed"}

ChildPcs == Stages \cup {"none", "Entry", "Await", "Abort", "Commit", "Exec",
                         "Target"}

(* The child has passed the ready-pipe barrier.                            *)
Released == Stages \cup {"Abort", "Commit", "Exec", "Target"}

(* The child has closed its error pipe: setup is complete.                 *)
Committed == {"Exec", "Target"}

Init ==
  /\ ppc = [s \in Sandboxes |-> "Resolve"]
  /\ fate = [s \in Sandboxes |-> "none"]
  /\ cpc = [s \in Sandboxes |-> "none"]
  /\ proc = [s \in Sandboxes |-> "none"]
  /\ sigkilled = {}
  /\ fdtable = [p \in Procs |-> {}]
  /\ byte = {}
  /\ frame = [s \in Sandboxes |-> "none"]
  /\ mapped = {}
  /\ cg = [s \in Sandboxes |-> "none"]

-----------------------------------------------------------------------------
(* Pipes and processes, as the kernel provides them.                       *)

EndsOf(s) == {<<s, e>> : e \in Ends}

(* A read sees EOF once the pipe is empty and nobody has a write end open. *)
NoHolder(s, e) == \A p \in Procs : <<s, e>> \notin fdtable[p]

HostOpens(s, ends) ==
  fdtable' = [fdtable EXCEPT ![Host] = @ \cup {<<s, e>> : e \in ends}]

HostCloses(s, ends) ==
  fdtable' = [fdtable EXCEPT ![Host] = @ \ {<<s, e>> : e \in ends}]

(* A process takes steps of its own until a SIGKILL is pending.            *)
Runs(s) == proc[s] = "alive" /\ s \notin sigkilled

(* Process exit: every fd it had open is closed, the parent may reap it.   *)
Die(s) ==
  /\ proc' = [proc EXCEPT ![s] = "zombie"]
  /\ fdtable' = [fdtable EXCEPT ![s] = {}]

-----------------------------------------------------------------------------
(* The parent: run_prepared                                                *)

Goto(s, pc) == ppc' = [ppc EXCEPT ![s] = pc]

(* The early returns before clone(): the guards close what is open.        *)
ReturnEarly(s) ==
  /\ Goto(s, "Done")
  /\ fate' = [fate EXCEPT ![s] = "Resources"]
  /\ HostCloses(s, Ends)

(* Mutant: the ready pipe is dropped but the child is neither killed nor   *)
(* reaped.                                                                 *)
AbortStartupNoKill(s, why) ==
  /\ Goto(s, "Drop")
  /\ fate' = [fate EXCEPT ![s] = why]
  /\ HostCloses(s, {"ready_w"})

(* A failure after clone(): drop the ready pipe, then kill and reap.       *)
AbortStartup(s, why) ==
  /\ Goto(s, "Kill")
  /\ fate' = [fate EXCEPT ![s] = why]
  /\ HostCloses(s, {"ready_w"})

ResolveStdio(s) ==
  /\ ppc[s] = "Resolve"
  /\ \/ Goto(s, "Pipes") /\ HostOpens(s, {"stdin_w"}) /\ UNCHANGED fate
     \/ ReturnEarly(s)
  /\ UNCHANGED <<childVars, proc, sigkilled, byte, mapped, cg>>

OpenPipes(s) ==
  /\ ppc[s] = "Pipes"
  /\ \/ /\ Goto(s, "Clone")
        /\ HostOpens(s, {"ready_r", "ready_w", "error_w"})
        /\ UNCHANGED fate
     \/ ReturnEarly(s)
  /\ UNCHANGED <<childVars, proc, sigkilled, byte, mapped, cg>>

(* clone() copies the host's fd table as it is at that moment.             *)
Clone(s) ==
  /\ ppc[s] = "Clone"
  /\ \/ /\ Goto(s, "CloseReady")
        /\ fdtable' = [fdtable EXCEPT ![s] = fdtable[Host]]
        /\ proc' = [proc EXCEPT ![s] = "alive"]
        /\ cpc' = [cpc EXCEPT ![s] = "Entry"]
        /\ UNCHANGED fate
     \/ ReturnEarly(s) /\ UNCHANGED <<proc, cpc>>
  /\ UNCHANGED <<sigkilled, byte, frame, mapped, cg>>

(* A failing close of the ready read end is tolerated (the fd is released  *)
(* either way), one of the error write end aborts the startup.             *)
CloseReadyRead(s) ==
  /\ ppc[s] = "CloseReady"
  /\ Goto(s, "CloseError")
  /\ HostCloses(s, {"ready_r"})
  /\ UNCHANGED <<fate, childVars, proc, sigkilled, byte, mapped, cg>>

(* Mutant: the host keeps its copy of the error write end.                 *)
CloseErrorWriteLeaks(s) ==
  /\ ppc[s] = "CloseError"
  /\ Goto(s, "Map")
  /\ UNCHANGED <<fate, fdtable, childVars, proc, sigkilled, byte, mapped, cg>>

CloseErrorWrite(s) ==
  /\ ppc[s] = "CloseError"
  /\ \/ Goto(s, "Map") /\ HostCloses(s, {"error_w"}) /\ UNCHANGED fate
     \/ /\ Goto(s, "Kill")
        /\ fate' = [fate EXCEPT ![s] = "Startup"]
        /\ HostCloses(s, {"error_w", "ready_w"})
  /\ UNCHANGED <<childVars, proc, sigkilled, byte, mapped, cg>>

(* Mutant: the child is released before the cgroup is configured.          *)
WriteMappingsThenRelease(s) ==
  /\ ppc[s] = "Map"
  /\ Goto(s, "Release")
  /\ mapped' = mapped \cup {s}
  /\ UNCHANGED <<fate, fdtable, childVars, proc, sigkilled, byte, cg>>

WriteMappings(s) ==
  /\ ppc[s] = "Map"
  /\ \/ /\ Goto(s, "Limit")
        /\ mapped' = mapped \cup {s}
        /\ UNCHANGED <<fate, fdtable>>
     \/ AbortStartup(s, "Namespace") /\ UNCHANGED mapped
  /\ UNCHANGED <<childVars, proc, sigkilled, byte, cg>>

(* configure_cgroup attaches the child, or gives up on best-effort limits  *)
(* without a cgroup, or fails (its own directory is removed again); see    *)
(* module CgroupLimits.  A child that is already dead cannot be attached.  *)
ConfigureCgroup(s) ==
  /\ ppc[s] = "Limit"
  /\ \/ /\ s \notin NeedsCgroup
        /\ Goto(s, "Release")
        /\ UNCHANGED <<fate, fdtable, cg>>
     \/ /\ s \in NeedsCgroup
        /\ \E outcome \in {"attached", "degraded"} :
             /\ outcome = "attached" => proc[s] = "alive"
             /\ cg' = [cg EXCEPT ![s] = outcome]
        /\ Goto(s, "Release")
        /\ UNCHANGED <<fate, fdtable>>
     \/ /\ s \in NeedsCgroup
        /\ AbortStartup(s, "Cgroup")
        /\ UNCHANGED cg
  /\ UNCHANGED <<childVars, proc, sigkilled, byte, mapped>>

(* write_byte_and_close: EPIPE when no process has the read end open; a    *)
(* failing close is an error although the byte is already in the pipe.     *)
Release(s) ==
  /\ ppc[s] = "Release"
  /\ \/ /\ ~NoHolder(s, "ready_r")
        /\ byte' = byte \cup {s}
        /\ \/ Goto(s, "Drain") /\ HostCloses(s, {"ready_w"}) /\ UNCHANGED fate
           \/ AbortStartup(s, "Startup")
     \/ /\ NoHolder(s, "ready_r")
        /\ AbortStartup(s, "Startup")
        /\ UNCHANGED byte
  /\ UNCHANGED <<childVars, proc, sigkilled, mapped, cg>>

(* Mutant: a non-blocking drain takes "nothing yet" for EOF.               *)
DrainNonBlocking(s) ==
  /\ ppc[s] = "Drain"
  /\ \/ frame[s] # "none" /\ Goto(s, "Frame") /\ UNCHANGED fate
     \/ /\ frame[s] = "none"
        /\ Goto(s, "Done")
        /\ fate' = [fate EXCEPT ![s] = "ok"]
  /\ UNCHANGED <<childVars, proc, sigkilled, fdtable, byte, mapped, cg>>

(* The blocking drain ends with data or, once nobody writes, with EOF.     *)
Drain(s) ==
  /\ ppc[s] = "Drain"
  /\ \/ frame[s] # "none" /\ Goto(s, "Frame") /\ UNCHANGED fate
     \/ /\ frame[s] = "none"
        /\ NoHolder(s, "error_w")
        /\ Goto(s, "Done")
        /\ fate' = [fate EXCEPT ![s] = "ok"]
  /\ UNCHANGED <<childVars, proc, sigkilled, fdtable, byte, mapped, cg>>

(* The rest of the frame is read until EOF, then decoded.                  *)
ReadFrame(s) ==
  /\ ppc[s] = "Frame"
  /\ NoHolder(s, "error_w")
  /\ Goto(s, "Kill")
  /\ fate' = [fate EXCEPT ![s] = frame[s]]
  /\ UNCHANGED <<childVars, proc, sigkilled, fdtable, byte, mapped, cg>>

(* An unexpected read error ends the drain; after the first piece of a     *)
(* frame the error counts as the end of the frame.                         *)
ErrorPipeFails(s) ==
  /\ "read" \in Faults
  /\ \/ ppc[s] = "Drain" /\ fate' = [fate EXCEPT ![s] = "Read"]
     \/ ppc[s] = "Frame" /\ fate' = [fate EXCEPT ![s] = frame[s]]
  /\ Goto(s, "Kill")
  /\ UNCHANGED <<childVars, proc, sigkilled, fdtable, byte, mapped, cg>>

(* Mutant: polls for the exit without sending the SIGKILL.                 *)
KillChildNoSignal(s) ==
  /\ ppc[s] = "Kill"
  /\ Goto(s, "Reap")
  /\ UNCHANGED <<fate, childVars, proc, sigkilled, fdtable, byte, mapped, cg>>

KillChild(s) ==
  /\ ppc[s] = "Kill"
  /\ Goto(s, "Reap")
  /\ sigkilled' = sigkilled \cup {s}
  /\ UNCHANGED <<fate, childVars, proc, fdtable, byte, mapped, cg>>

(* Ten WNOHANG polls: reap a zombie, or give up on one still dying.        *)
ReapChild(s) ==
  /\ ppc[s] = "Reap"
  /\ \/ proc[s] = "zombie" /\ proc' = [proc EXCEPT ![s] = "reaped"]
     \/ proc[s] = "alive" /\ UNCHANGED proc
  /\ Goto(s, "Drop")
  /\ UNCHANGED <<fate, childVars, sigkilled, fdtable, byte, mapped, cg>>

(* The locals are dropped: the CgroupManager kills what is left in the     *)
(* cgroup and removes the directory, which fails while a member is alive.  *)
DropLocals(s) ==
  /\ ppc[s] = "Drop"
  /\ Goto(s, "Done")
  /\ HostCloses(s, Ends)
  /\ cg' = [cg EXCEPT ![s] = IF @ # "attached" THEN @
                             ELSE IF proc[s] = "alive" THEN "leaked" ELSE "removed"]
  /\ UNCHANGED <<fate, childVars, proc, sigkilled, byte, mapped>>

(* Child::close_stdin on the handle run_prepared returned.                 *)
CloseStdin(s) ==
  /\ ppc[s] = "Done" /\ fate[s] = "ok"
  /\ <<s, "stdin_w">> \in fdtable[Host]
  /\ HostCloses(s, {"stdin_w"})
  /\ UNCHANGED <<parentVars, childVars, proc, sigkilled, byte>>

Parent(s) ==
  \/ ResolveStdio(s)  \/ OpenPipes(s)       \/ Clone(s)
  \/ CloseReadyRead(s) \/ CloseErrorWrite(s) \/ WriteMappings(s)
  \/ ConfigureCgroup(s) \/ Release(s)        \/ Drain(s)
  \/ ReadFrame(s)     \/ KillChild(s)       \/ ReapChild(s) \/ DropLocals(s)

-----------------------------------------------------------------------------
(* The child: exec_sandboxed                                               *)

ChildAt(s, pc) == Runs(s) /\ cpc[s] = pc

(* Mutant: the child keeps its copy of the ready write end.                *)
ChildEntryKeepsReady(s) ==
  /\ ChildAt(s, "Entry")
  /\ cpc' = [cpc EXCEPT ![s] = "Await"]
  /\ fdtable' = [fdtable EXCEPT ![s] = @ \ {<<s, "stdin_w">>}]
  /\ UNCHANGED <<parentVars, proc, sigkilled, byte, frame>>

(* Close the inherited parent ends of its own pipes, and only of its own.  *)
ChildEntry(s) ==
  /\ ChildAt(s, "Entry")
  /\ cpc' = [cpc EXCEPT ![s] = "Await"]
  /\ fdtable' = [fdtable EXCEPT ![s] = @ \ {<<s, "ready_w">>, <<s, "stdin_w">>}]
  /\ UNCHANGED <<parentVars, proc, sigkilled, byte, frame>>

(* Mutant: any return of the read, EOF included, counts as the release.    *)
ChildReleasedByAnyRead(s) ==
  /\ ChildAt(s, "Await")
  /\ s \in byte \/ NoHolder(s, "ready_w")
  /\ byte' = byte \ {s}
  /\ cpc' = [cpc EXCEPT ![s] = "Dup2"]
  /\ fdtable' = [fdtable EXCEPT ![s] = @ \ {<<s, "ready_r">>}]
  /\ UNCHANGED <<parentVars, proc, sigkilled, frame>>

ChildReleased(s) ==
  /\ ChildAt(s, "Await")
  /\ s \in byte
  /\ byte' = byte \ {s}
  /\ cpc' = [cpc EXCEPT ![s] = "Dup2"]
  /\ fdtable' = [fdtable EXCEPT ![s] = @ \ {<<s, "ready_r">>}]
  /\ UNCHANGED <<parentVars, proc, sigkilled, frame>>

(* EOF: return 1, nothing is reported.                                     *)
ChildNotReleased(s) ==
  /\ ChildAt(s, "Await")
  /\ s \notin byte /\ NoHolder(s, "ready_w")
  /\ Die(s)
  /\ UNCHANGED <<parentVars, childVars, sigkilled, byte>>

(* One setup step succeeds; a step that is not configured always does.     *)
SetupOk(s) ==
  /\ cpc[s] \in Stages /\ ChildAt(s, cpc[s])
  /\ cpc' = [cpc EXCEPT ![s] = NextStage[cpc[s]]]
  /\ UNCHANGED <<parentVars, proc, sigkilled, fdtable, byte, frame>>

(* One setup step fails: child_abort writes [tag][msg].                    *)
SetupFails(s) ==
  /\ cpc[s] \in Stages \cap Faults /\ ChildAt(s, cpc[s])
  /\ frame' = [frame EXCEPT ![s] = cpc[s]]
  /\ cpc' = [cpc EXCEPT ![s] = "Abort"]
  /\ UNCHANGED <<parentVars, proc, sigkilled, fdtable, byte>>

SetupStep(s) == SetupOk(s) \/ SetupFails(s)

(* ... closes the error pipe and returns 1.                                *)
AbortExit(s) ==
  /\ ChildAt(s, "Abort")
  /\ Die(s)
  /\ UNCHANGED <<parentVars, childVars, sigkilled, byte>>

CommitSetup(s) ==
  /\ ChildAt(s, "Commit")
  /\ cpc' = [cpc EXCEPT ![s] = "Exec"]
  /\ fdtable' = [fdtable EXCEPT ![s] = @ \ {<<s, "error_w">>}]
  /\ UNCHANGED <<parentVars, proc, sigkilled, byte, frame>>

(* execvpe: success keeps every fd without O_CLOEXEC, failure exits 127.   *)
ExecTarget(s) ==
  /\ ChildAt(s, "Exec")
  /\ \/ /\ cpc' = [cpc EXCEPT ![s] = "Target"]
        /\ fdtable' = [fdtable EXCEPT ![s] = {fd \in @ : fd[2] \notin CloseOnExec}]
        /\ UNCHANGED proc
     \/ Die(s) /\ UNCHANGED cpc
  /\ UNCHANGED <<parentVars, sigkilled, byte, frame>>

TargetExit(s) ==
  /\ ChildAt(s, "Target")
  /\ Die(s)
  /\ UNCHANGED <<parentVars, childVars, sigkilled, byte>>

Child(s) ==
  \/ ChildEntry(s) \/ ChildReleased(s) \/ ChildNotReleased(s) \/ SetupStep(s)
  \/ AbortExit(s)  \/ CommitSetup(s)   \/ ExecTarget(s)

-----------------------------------------------------------------------------
(* The environment                                                         *)

(* A pending SIGKILL takes effect, later if the child is in D-state.       *)
KillDelivered(s) ==
  /\ proc[s] = "alive" /\ s \in sigkilled
  /\ Die(s)
  /\ UNCHANGED <<parentVars, childVars, sigkilled, byte>>

(* EINTR of the barrier read, which is not retried: return 1 as well.      *)
ChildInterrupted(s) ==
  /\ "eintr" \in Faults
  /\ ChildAt(s, "Await")
  /\ Die(s)
  /\ UNCHANGED <<parentVars, childVars, sigkilled, byte>>

(* The child dies of a signal: a seccomp trap, the OOM killer, an operator.*)
ChildSignalled(s) ==
  /\ "signal" \in Faults
  /\ Runs(s)
  /\ Die(s)
  /\ UNCHANGED <<parentVars, childVars, sigkilled, byte>>

(* The host process dies; its threads and its fd table go with it.         *)
HostCrash ==
  /\ "crash" \in Faults
  /\ \E s \in Sandboxes : ppc[s] # "Crashed"
  /\ ppc' = [s \in Sandboxes |-> "Crashed"]
  /\ fdtable' = [fdtable EXCEPT ![Host] = {}]
  /\ UNCHANGED <<fate, childVars, proc, sigkilled, byte, mapped, cg>>

Next ==
  \/ \E s \in Sandboxes :
       \/ Parent(s) \/ Child(s) \/ CloseStdin(s)
       \/ TargetExit(s) \/ KillDelivered(s)
       \/ ChildInterrupted(s) \/ ChildSignalled(s) \/ ErrorPipeFails(s)
  \/ HostCrash

(* Threads of the host and the child get the CPU; a hook that may hang, the*)
(* target program, the caller and the faults are under no obligation.      *)
Fairness ==
  \A s \in Sandboxes :
    /\ WF_vars(Parent(s))
    /\ WF_vars(Child(s) /\ (s \in HangingHooks => cpc[s] # "Hook"))
    /\ WF_vars(KillDelivered(s))

Spec == Init /\ [][Next]_vars
FairSpec == Spec /\ Fairness

-----------------------------------------------------------------------------
(* Properties                                                              *)

TypeOK ==
  /\ ppc \in [Sandboxes -> ParentPcs]
  /\ fate \in [Sandboxes -> Failures \cup {"none", "ok"}]
  /\ cpc \in [Sandboxes -> ChildPcs]
  /\ proc \in [Sandboxes -> {"none", "alive", "zombie", "reaped"}]
  /\ sigkilled \subseteq Sandboxes
  /\ fdtable \in [Procs -> SUBSET (Sandboxes \X Ends)]
  /\ byte \subseteq Sandboxes
  /\ frame \in [Sandboxes -> Stages \cup {"none"}]
  /\ mapped \subseteq Sandboxes
  /\ cg \in [Sandboxes -> {"none", "attached", "degraded", "removed", "leaked"}]

(* The parent's invariants are established for s.                          *)
Confined(s) == s \in mapped /\ (s \in NeedsCgroup => cg[s] # "none")

Failed(s) == ppc[s] = "Done" /\ fate[s] \notin {"none", "ok"}
Succeeded(s) == ppc[s] = "Done" /\ fate[s] = "ok"

(* A child past the ready-pipe barrier has its uid/gid maps and, if it     *)
(* needs a cgroup, the outcome of configure_cgroup; whatever the faults and*)
(* the other spawns do, no setup step runs before the parent's invariants. *)
ConfinedBeforeSetup ==
  \A s \in Sandboxes :
    proc[s] = "alive" /\ cpc[s] \in Released =>
      s \in mapped /\ (s \in NeedsCgroup => cg[s] \in {"attached", "degraded", "leaked"})

(* When run_prepared returns an error, its child can take no further step  *)
(* of its own (it was reaped or its SIGKILL is pending), the host keeps no *)
(* pipe end of it open, and its cgroup directory is gone unless a member   *)
(* of it could not be killed in time.                                      *)
FailedSpawnLeavesNothing ==
  \A s \in Sandboxes :
    Failed(s) =>
      /\ ~Runs(s)
      /\ fdtable[Host] \cap EndsOf(s) = {}
      /\ cg[s] # "attached"

(* When run_prepared returns Ok the child has either completed its setup   *)
(* or died without a report: the blocking drain never misses a failure     *)
(* frame, neither one already written nor one still to come.               *)
SetupFailureNeverMissed ==
  \A s \in Sandboxes :
    Succeeded(s) =>
      frame[s] = "none" /\ (cpc[s] \in Committed \/ proc[s] # "alive")

(* The inductive invariant behind the theorems, part by part.              *)

(* Before clone() there is no child; afterwards there is one.              *)
ControlInv(s) ==
  /\ ppc[s] \in {"Resolve", "Pipes", "Clone"} =>
       /\ proc[s] = "none" /\ cg[s] = "none" /\ fate[s] = "none"
       /\ s \notin sigkilled /\ s \notin mapped
  /\ proc[s] = "none" => cpc[s] = "none" /\ frame[s] = "none"
  /\ proc[s] # "none" => cpc[s] # "none"
  /\ ppc[s] \in {"CloseReady", "CloseError", "Map", "Limit", "Release", "Drain",
                 "Frame", "Kill", "Reap", "Drop"} => proc[s] # "none"
  /\ ppc[s] \in {"Kill", "Reap", "Drop"} => fate[s] \in Failures
  /\ ppc[s] = "Done" => fate[s] # "none"

(* The release byte is written after the maps and the cgroup are settled.  *)
BarrierInv(s) ==
  /\ ppc[s] = "Limit" => s \in mapped
  /\ ppc[s] \in {"Release", "Drain", "Frame"} => Confined(s)
  /\ s \in byte => Confined(s)
  /\ cpc[s] \in Released => Confined(s)
  /\ cg[s] = "removed" => proc[s] # "alive"

(* Until it commits, a living child holds its own error write end, and a   *)
(* frame is in the pipe exactly when the child went through child_abort.   *)
PipeInv(s) ==
  /\ ppc[s] = "Clone" => <<s, "error_w">> \in fdtable[Host]
  /\ proc[s] = "alive" /\ cpc[s] \notin Committed => <<s, "error_w">> \in fdtable[s]
  /\ frame[s] # "none" <=> cpc[s] = "Abort"
  /\ ppc[s] = "Frame" => frame[s] # "none"

(* A spawn that fails after clone() has sent the SIGKILL.                  *)
KillInv(s) ==
  /\ ppc[s] \in {"Reap", "Drop"} => s \in sigkilled
  /\ Failed(s) => proc[s] = "none" \/ s \in sigkilled
  /\ Failed(s) => fdtable[Host] \cap EndsOf(s) = {} /\ cg[s] # "attached"

(* A spawn that succeeded has a child that committed or is dead.           *)
AcceptInv(s) ==
  Succeeded(s) =>
    /\ proc[s] # "none" /\ frame[s] = "none"
    /\ cpc[s] \in Committed \/ proc[s] # "alive"

SandboxInv(s) ==
  ControlInv(s) /\ BarrierInv(s) /\ PipeInv(s) /\ KillInv(s) /\ AcceptInv(s)

(* The whole of it: every spawn keeps its five parts, whatever the others  *)
(* do meanwhile.                                                           *)
IndInv == TypeOK /\ \A s \in Sandboxes : SandboxInv(s)

(* The stronger claim of the comment at step 10 of run_prepared.           *)
OkMeansSetupCompleted ==
  \A s \in Sandboxes : Succeeded(s) => cpc[s] \in Committed

(* After run_prepared has returned an error, no step of the child changes  *)
(* where it is, and no later step revises the answer.                      *)
NothingRunsAfterError ==
  [][\A s \in Sandboxes :
       Failed(s) => cpc'[s] = cpc[s] /\ fate'[s] = fate[s]]_vars

(* The refinement mapping to the abstract lifecycle.  A child whose SIGKILL*)
(* is pending counts as gone: it takes no step of its own any more.        *)
PhaseOf(s) ==
  IF proc[s] = "none" THEN "absent"
  ELSE IF ~Runs(s) THEN "gone"
  ELSE IF cpc[s] \in Committed THEN "started"
  ELSE IF Confined(s) THEN "confined" ELSE "created"

AnswerOf(s) ==
  IF ppc[s] = "Crashed" THEN "lost"
  ELSE IF ppc[s] # "Done" THEN "pending"
  ELSE IF fate[s] = "ok" THEN "ok" ELSE "error"

Lifecycle == INSTANCE SandboxLifecycle
  WITH phase <- [s \in Sandboxes |-> PhaseOf(s)],
       answer <- [s \in Sandboxes |-> AnswerOf(s)]

(* The protocol implements the abstract lifecycle: nothing starts that was *)
(* not confined, Ok is never returned for a child still in setup, and a    *)
(* child whose spawn failed is gone for good.                              *)
ImplementsLifecycle == Lifecycle!Spec

(* A hook that does not return keeps the error pipe of s open, be it the   *)
(* child's own copy or one that another spawn's child inherited.           *)
HeldByHook(s) ==
  \E t \in HangingHooks :
    proc[t] = "alive" /\ cpc[t] = "Hook" /\ <<s, "error_w">> \in fdtable[t]

(* No run_prepared call waits forever, except on a hanging hook that keeps *)
(* its error pipe open: concurrent spawns never wait on each other in a    *)
(* circle.  (Done and Crashed are final, so the call returns for good.)    *)
SpawnReturns ==
  \A s \in Sandboxes : []<>(ppc[s] \in {"Done", "Crashed"} \/ HeldByHook(s))

(* If the host dies before the release, the child sees EOF on the ready    *)
(* pipe and exits: no orphan stays blocked at the barrier on account of    *)
(* itself.  (Children of concurrent spawns that inherited each other's     *)
(* ready write ends do keep each other there.)                             *)
OrphanExits ==
  \A s \in Sandboxes :
    ppc[s] = "Crashed" /\ cpc[s] = "Await" ~>
      \/ cpc[s] # "Await" \/ proc[s] # "alive"
      \/ \E t \in Sandboxes \ {s} : <<s, "ready_w">> \in fdtable[t]
=============================================================================
