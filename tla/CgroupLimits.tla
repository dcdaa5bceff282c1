---------------------------- MODULE CgroupLimits -----------------------------
(***************************************************************************)
(* Resource limits: configure_cgroup (cgroup/limits.rs) with the cgroup    *)
(* creation it drives (cgroup/manager.rs), for sandboxes that several      *)
(* threads configure at the same time below one shared parent cgroup.      *)
(*                                                                         *)
(* Root and delegated mode create alike: enable the controllers at the top,*)
(* make the shared parent "libsandbox", enable them there, make the        *)
(* sandbox's directory.  A limit value is abstracted to "written".         *)
(***************************************************************************)
EXTENDS FiniteSets

CONSTANTS
  Sandboxes,  \* sandboxes being configured
  Limits,     \* limits a configuration may have, of AllLimits
  Offered,    \* controllers the top cgroup has
  MayFail     \* steps of the environment that may fail, of Failures

AllLimits == {"memory", "cpu", "pids"}
Failures == {"probe", "mkdir", "enable", "write", "attach"}

ASSUME LimitsAssumption ==
  /\ Limits \subseteq AllLimits /\ Offered \subseteq AllLimits
  /\ MayFail \subseteq Failures

VARIABLES
  root,      \* the host runs as root
  mode,      \* LimitPlan of each sandbox
  pc,        \* where each configure_cgroup is
  top,       \* subtree_control of the top: controllers the parent has
  parent,    \* the shared parent exists
  below,     \* subtree_control of the parent: controllers its children have
  dir,       \* the sandbox's own directory exists
  avail,     \* available_controllers of its CgroupManager
  written,   \* limit files written
  attached,  \* the child is a member
  diag,      \* LimitDiagnostics
  answer,    \* "none", "some" (Ok(Some)), "without" (Ok(None)) or "err"
  failed     \* the environment failed a step of this sandbox

vars == <<root, mode, pc, top, parent, below, dir, avail, written, attached, diag,
          answer, failed>>

sharedVars == <<root, mode, top, parent, below>>
setupVars == <<dir, avail, written, attached>>
outcomeVars == <<diag, answer, failed>>

-----------------------------------------------------------------------------
(* The plan                                                                *)

(* limit_mode                                                              *)
LimitMode(configured, explicit, strict) ==
  IF ~configured THEN "NotRequested"
  ELSE IF explicit /\ strict THEN "Strict" ELSE "BestEffort"

(* LimitPlan::from                                                         *)
LimitPlan(configured, explicit, strict) ==
  [l \in AllLimits |-> LimitMode(l \in configured, l \in explicit, strict)]

(* requested_controllers                                                   *)
Requested(s) == {l \in AllLimits : mode[s][l] # "NotRequested"}

(* limit_status                                                            *)
LimitStatus(plan) ==
  [l \in AllLimits |-> IF plan[l] = "NotRequested" THEN "NotRequested" ELSE "Unknown"]

(* rootless_memory_required                                                *)
RootlessMemory(s) == "memory" \in Requested(s) /\ ~root

(* A failure that concerns the cgroup as a whole is an error.              *)
MustHaveCgroup(s) ==
  RootlessMemory(s) \/ \E l \in AllLimits : mode[s][l] = "Strict"

(* needs_cgroup holds: some limit is configured.                           *)
Plans ==
  {LimitPlan(c, x, e) : c \in SUBSET Limits \ {{}}, x \in SUBSET Limits, e \in BOOLEAN}

Init ==
  /\ root \in BOOLEAN
  /\ mode \in [Sandboxes -> Plans]
  /\ pc = [s \in Sandboxes |-> "Probe"]
  /\ top = {} /\ parent = FALSE /\ below = {}
  /\ dir = [s \in Sandboxes |-> FALSE]
  /\ avail = [s \in Sandboxes |-> {}]
  /\ written = [s \in Sandboxes |-> {}]
  /\ attached = [s \in Sandboxes |-> FALSE]
  /\ diag = [s \in Sandboxes |-> LimitStatus(mode[s])]
  /\ answer = [s \in Sandboxes |-> "none"]
  /\ failed = [s \in Sandboxes |-> FALSE]

-----------------------------------------------------------------------------
(* Outcomes                                                                *)

Goto(s, p) == pc' = [pc EXCEPT ![s] = p]

Answer(s, a) == /\ Goto(s, "Done")
                /\ answer' = [answer EXCEPT ![s] = a]

(* Mutant: the other statuses are lost.                                    *)
StatusOnly(s, L, st) == diag' = [diag EXCEPT ![s] = [l \in L |-> st]]

(* The statuses of the limits in L become st.                              *)
Status(s, L, st) ==
  diag' = [diag EXCEPT ![s] = [l \in AllLimits |-> IF l \in L THEN st ELSE @[l]]]

(* No cgroup: an error, or every best-effort limit goes unenforced         *)
(* (set_best_effort_unavailable).                                          *)
Unavailable(s) ==
  \/ /\ MustHaveCgroup(s)
     /\ Answer(s, "err") /\ UNCHANGED diag
  \/ /\ ~MustHaveCgroup(s)
     /\ Answer(s, "without")
     /\ Status(s, Requested(s), "NotEnforced")

(* The environment fails a step of s.                                      *)
Fault(s, f) == f \in MayFail /\ failed' = [failed EXCEPT ![s] = TRUE]

-----------------------------------------------------------------------------
(* probe_cgroup_support and CgroupManager::create                          *)

Probe(s) ==
  /\ pc[s] = "Probe"
  /\ Goto(s, "EnableTop")
  /\ UNCHANGED <<sharedVars, setupVars, outcomeVars>>

(* Not mounted or not accessible.                                          *)
ProbeFails(s) ==
  /\ pc[s] = "Probe" /\ Fault(s, "probe")
  /\ Unavailable(s)
  /\ UNCHANGED <<sharedVars, setupVars>>

(* try_enable_controllers at the top; a refused write is ignored.          *)
EnableTop(s) ==
  /\ pc[s] = "EnableTop"
  /\ top' = top \cup (Requested(s) \cap Offered)
  /\ Goto(s, "MakeParent")
  /\ UNCHANGED <<root, mode, parent, below, setupVars, outcomeVars>>

(* Mutant: whoever made the parent is trusted to have enabled controllers. *)
MakeParentTrusting(s) ==
  /\ pc[s] = "MakeParent"
  /\ parent' = TRUE
  /\ Goto(s, IF parent THEN "MakeDir" ELSE "EnableParent")
  /\ UNCHANGED <<root, mode, top, below, setupVars, outcomeVars>>

(* The shared parent may exist: AlreadyExists is fine.                     *)
MakeParent(s) ==
  /\ pc[s] = "MakeParent"
  /\ parent' = TRUE
  /\ Goto(s, "EnableParent")
  /\ UNCHANGED <<root, mode, top, below, setupVars, outcomeVars>>

(* try_enable_controllers in the parent, done by everyone: its creator may *)
(* not have come to it yet.  A controller needs to be in the parent.       *)
EnableParent(s) ==
  /\ pc[s] = "EnableParent"
  /\ below' = IF parent THEN below \cup (Requested(s) \cap top) ELSE below
  /\ Goto(s, "MakeDir")
  /\ UNCHANGED <<root, mode, top, parent, setupVars, outcomeVars>>

(* The writes for the controllers outside C are refused.                   *)
EnableFails(s, C) ==
  /\ Fault(s, "enable")
  /\ \/ /\ pc[s] = "EnableTop" /\ Goto(s, "MakeParent")
        /\ top' = top \cup (Requested(s) \cap Offered \cap C) /\ UNCHANGED below
     \/ /\ pc[s] = "EnableParent" /\ Goto(s, "MakeDir")
        /\ below' = below \cup (Requested(s) \cap top \cap C) /\ UNCHANGED top
  /\ UNCHANGED <<root, mode, parent, setupVars, diag, answer>>

(* create_dir_all of root mode makes a missing parent, create_dir does not.*)
CanMakeDir == parent \/ root

(* The sandbox's directory, and read_controllers of it.  The directory is  *)
(* named after the pid of the child, which nobody else has while the child *)
(* waits at the barrier; one left behind by an earlier child with the same *)
(* pid, which create_dir_all joins, is modelled in ChildHandle.            *)
MakeDir(s) ==
  /\ pc[s] = "MakeDir" /\ CanMakeDir
  /\ parent' = TRUE /\ dir' = [dir EXCEPT ![s] = TRUE]
  /\ avail' = [avail EXCEPT ![s] = below]
  /\ Goto(s, "memory")
  /\ UNCHANGED <<root, mode, top, below, written, attached, outcomeVars>>

(* create fails, for want of the parent or because of the environment.     *)
CreateFails(s) ==
  /\ pc[s] \in {"MakeParent", "MakeDir"}
  /\ "mkdir" \in MayFail \/ (pc[s] = "MakeDir" /\ ~CanMakeDir)
  /\ failed' = [failed EXCEPT ![s] = @ \/ pc[s] = "MakeParent" \/ CanMakeDir]
  /\ Unavailable(s)
  /\ UNCHANGED <<sharedVars, setupVars>>

-----------------------------------------------------------------------------
(* The limits, the process, the end                                        *)

(* Mutant: cleanup also removes the parent when it looks empty.            *)
CleanupParent(s) ==
  /\ dir' = [dir EXCEPT ![s] = FALSE]
  /\ parent' = (\E t \in Sandboxes \ {s} : dir[t])
  /\ below' = IF parent' THEN below ELSE {}

(* CgroupManager::cleanup: kill, drain, remove the directory; the parent   *)
(* stays.  The removal fails, unnoticed, if a process is left after 100 ms *)
(* of draining.  On the error paths the cgroup is empty, for the child is  *)
(* attached last; of a cgroup that was in use, see ChildHandle.            *)
Cleanup(s) ==
  /\ dir' = [dir EXCEPT ![s] = FALSE]
  /\ UNCHANGED <<parent, below>>

After(l) == IF l = "memory" THEN "cpu" ELSE IF l = "cpu" THEN "pids" ELSE "Attach"

(* Mutant: memory of a rootless host is a limit like any other.            *)
SetFailsRootful(s, l) ==
  \/ /\ mode[s][l] = "Strict"
     /\ Answer(s, "err") /\ Cleanup(s) /\ UNCHANGED diag
  \/ /\ mode[s][l] # "Strict"
     /\ Goto(s, After(l)) /\ Status(s, {l}, "NotEnforced")
     /\ UNCHANGED <<answer, dir, parent, below>>

(* Mutant: the manager is leaked when a limit cannot be set.               *)
SetFailsLeak(s, l) ==
  \/ /\ mode[s][l] = "Strict" \/ (l = "memory" /\ RootlessMemory(s))
     /\ Answer(s, "err") /\ UNCHANGED <<dir, parent, below, diag>>
  \/ /\ ~(mode[s][l] = "Strict" \/ (l = "memory" /\ RootlessMemory(s)))
     /\ Goto(s, After(l)) /\ Status(s, {l}, "NotEnforced")
     /\ UNCHANGED <<answer, dir, parent, below>>

(* handle_limit_error, after the check for rootless memory; an error drops *)
(* the CgroupManager.                                                      *)
SetFails(s, l) ==
  \/ /\ mode[s][l] = "Strict" \/ (l = "memory" /\ RootlessMemory(s))
     /\ Answer(s, "err") /\ Cleanup(s) /\ UNCHANGED diag
  \/ /\ ~(mode[s][l] = "Strict" \/ (l = "memory" /\ RootlessMemory(s)))
     /\ Goto(s, After(l)) /\ Status(s, {l}, "NotEnforced")
     /\ UNCHANGED <<answer, dir, parent, below>>

(* set_memory_limit, set_cpu_limit or set_pids_limit, if configured.       *)
SetLimit(s, l) ==
  /\ pc[s] = l
  /\ \/ /\ l \notin Requested(s)
        /\ Goto(s, After(l)) /\ UNCHANGED <<written, diag, answer, dir, parent, below>>
     \/ /\ l \in Requested(s) \cap avail[s]
        /\ written' = [written EXCEPT ![s] = @ \cup {l}]
        /\ Goto(s, After(l)) /\ UNCHANGED <<diag, answer, dir, parent, below>>
     \/ /\ l \in Requested(s) \ avail[s]
        /\ SetFails(s, l) /\ UNCHANGED written
  /\ UNCHANGED <<root, mode, top, avail, attached, failed>>

SetLimitFails(s, l) ==
  /\ pc[s] = l /\ l \in Requested(s) \cap avail[s] /\ Fault(s, "write")
  /\ SetFails(s, l)
  /\ UNCHANGED <<root, mode, top, avail, written, attached>>

(* Mutant: a limit counts as enforced as soon as it is planned.            *)
AddProcessPromising(s) ==
  /\ pc[s] = "Attach"
  /\ attached' = [attached EXCEPT ![s] = TRUE]
  /\ Status(s, Requested(s), "Enforced") /\ Answer(s, "some")
  /\ UNCHANGED <<sharedVars, dir, avail, written, failed>>

(* add_process; the configured limits are enforced.                        *)
AddProcess(s) ==
  /\ pc[s] = "Attach"
  /\ attached' = [attached EXCEPT ![s] = TRUE]
  /\ Status(s, written[s], "Enforced") /\ Answer(s, "some")
  /\ UNCHANGED <<sharedVars, dir, avail, written, failed>>

(* Mutant: only a rootless memory limit makes a failed attach an error.    *)
AddProcessFailsLenient(s) ==
  /\ pc[s] = "Attach" /\ Fault(s, "attach")
  /\ \/ RootlessMemory(s) /\ Answer(s, "err") /\ UNCHANGED diag
     \/ ~RootlessMemory(s) /\ Answer(s, "without") /\ Status(s, written[s], "NotEnforced")
  /\ Cleanup(s)
  /\ UNCHANGED <<root, mode, top, avail, written, attached>>

(* The directory goes on every path.                                       *)
AddProcessFails(s) ==
  /\ pc[s] = "Attach" /\ Fault(s, "attach")
  /\ \/ MustHaveCgroup(s) /\ Answer(s, "err") /\ UNCHANGED diag
     \/ ~MustHaveCgroup(s) /\ Answer(s, "without") /\ Status(s, written[s], "NotEnforced")
  /\ Cleanup(s)
  /\ UNCHANGED <<root, mode, top, avail, written, attached>>

(* The sandbox has ended and its handle is dropped.                        *)
DropManager(s) ==
  /\ pc[s] = "Done" /\ answer[s] = "some"
  /\ Cleanup(s)
  /\ attached' = [attached EXCEPT ![s] = FALSE]
  /\ Goto(s, "Gone")
  /\ UNCHANGED <<root, mode, top, avail, written, outcomeVars>>

Next ==
  \E s \in Sandboxes :
    \/ Probe(s) \/ ProbeFails(s) \/ EnableTop(s) \/ MakeParent(s)
    \/ EnableParent(s) \/ MakeDir(s) \/ CreateFails(s)
    \/ \E C \in SUBSET Limits : EnableFails(s, C)
    \/ \E l \in AllLimits : SetLimit(s, l) \/ SetLimitFails(s, l)
    \/ AddProcess(s) \/ AddProcessFails(s) \/ DropManager(s)

Spec == Init /\ [][Next]_vars

-----------------------------------------------------------------------------
(* Properties                                                              *)

Modes == {"NotRequested", "Strict", "BestEffort"}
Statuses == {"NotRequested", "Unknown", "Enforced", "NotEnforced"}

TypeOK ==
  /\ root \in BOOLEAN /\ parent \in BOOLEAN
  /\ mode \in [Sandboxes -> [AllLimits -> Modes]]
  /\ pc \in [Sandboxes -> {"Probe", "EnableTop", "MakeParent", "EnableParent", "MakeDir",
                           "Attach", "Done", "Gone"} \cup AllLimits]
  /\ top \subseteq AllLimits /\ below \subseteq AllLimits
  /\ dir \in [Sandboxes -> BOOLEAN] /\ avail \in [Sandboxes -> SUBSET AllLimits]
  /\ written \in [Sandboxes -> SUBSET AllLimits] /\ attached \in [Sandboxes -> BOOLEAN]
  /\ diag \in [Sandboxes -> [AllLimits -> Statuses]]
  /\ answer \in [Sandboxes -> {"none", "some", "without", "err"}]
  /\ failed \in [Sandboxes -> BOOLEAN]

Returned(s) == pc[s] = "Done" /\ answer[s] # "err"

(* The limit is written and the child is subject to it.                    *)
InForce(s, l) == l \in written[s] /\ attached[s] /\ dir[s]

(* Strict fails closed: a sandbox whose configuration succeeds has every   *)
(* explicitly requested limit in force, whatever failed on the way.        *)
StrictNeverDegraded ==
  \A s \in Sandboxes : \A l \in AllLimits :
    Returned(s) /\ mode[s][l] = "Strict" => InForce(s, l)

(* Without root, no sandbox runs with a memory limit that is not in force, *)
(* not even a best-effort one.                                             *)
RootlessMemoryInForce ==
  \A s \in Sandboxes : Returned(s) /\ RootlessMemory(s) => InForce(s, "memory")

(* The diagnostics are settled and tell what the kernel does.              *)
DiagnosticsHonest ==
  \A s \in Sandboxes : \A l \in AllLimits :
    Returned(s) =>
      diag[s][l] = IF l \notin Requested(s) THEN "NotRequested"
                   ELSE IF InForce(s, l) THEN "Enforced" ELSE "NotEnforced"

(* A cgroup directory of a returned call is owned by the manager returned: *)
(* no error and no fallback leaves one behind.                             *)
NoOrphanCgroup ==
  \A s \in Sandboxes : pc[s] \in {"Done", "Gone"} /\ dir[s] =>
                         pc[s] = "Done" /\ answer[s] = "some"

(* Other sandboxes coming and going cost a sandbox nothing: if the         *)
(* environment failed none of its own steps and the controllers exist, all *)
(* its limits are in force.                                                *)
NeighboursDoNoHarm ==
  \A s \in Sandboxes :
    pc[s] = "Done" /\ ~failed[s] /\ Requested(s) \subseteq Offered =>
      \A l \in Requested(s) : InForce(s, l)

-----------------------------------------------------------------------------
(* The inductive invariant                                                 *)

Early == {"Probe", "EnableTop", "MakeParent", "EnableParent", "MakeDir"}
Setting == AllLimits \cup {"Attach"}

(* The limits dealt with when configure_cgroup is at p.                    *)
Passed(p) ==
  {l \in AllLimits : \/ p \in {"Attach", "Done"}
                     \/ l = "memory" /\ p \in {"cpu", "pids"}
                     \/ l = "cpu" /\ p = "pids"}

(* A limit that may go unenforced.                                         *)
Dispensable(s, l) == mode[s][l] # "Strict" /\ (l = "memory" => root)

(* The limits passed are written or reported as unenforced, and then       *)
(* dispensable.                                                            *)
LimitsDealtWith(s) ==
  /\ written[s] \subseteq Requested(s) \cap Passed(pc[s])
  /\ \A l \in (Requested(s) \cap Passed(pc[s])) \ written[s] :
       diag[s][l] = "NotEnforced" /\ Dispensable(s, l)

SandboxInv(s) ==
  /\ \A l \in AllLimits \ Requested(s) : diag[s][l] = "NotRequested"
  /\ pc[s] \in {"EnableParent", "MakeDir"} => parent
  /\ pc[s] \in Early => ~dir[s] /\ written[s] = {} /\ ~attached[s]
  /\ pc[s] \in Setting => dir[s] /\ ~attached[s] /\ LimitsDealtWith(s)
  /\ pc[s] = "Done" =>
       \/ answer[s] = "err" /\ ~dir[s]
       \/ /\ answer[s] = "without" /\ ~dir[s] /\ ~MustHaveCgroup(s)
          /\ \A l \in Requested(s) : diag[s][l] = "NotEnforced"
       \/ /\ answer[s] = "some" /\ dir[s] /\ attached[s] /\ LimitsDealtWith(s)
          /\ \A l \in written[s] : diag[s][l] = "Enforced"
  /\ pc[s] = "Gone" => ~dir[s]

(* What a sandbox whose own steps do not fail can count on.                *)
UnharmedInv(s) ==
  ~failed[s] /\ Requested(s) \subseteq Offered =>
    /\ pc[s] \in {"MakeParent", "EnableParent"} => Requested(s) \subseteq top
    /\ pc[s] = "MakeDir" => Requested(s) \subseteq below
    /\ pc[s] \in Setting => Requested(s) \subseteq avail[s]
    /\ pc[s] \in Setting \cup {"Done"} => Requested(s) \cap Passed(pc[s]) \subseteq written[s]
    /\ pc[s] = "Done" => answer[s] = "some"

(* The invariant the proofs rest on: how far a sandbox has come decides    *)
(* which of its limits are written, reported or dispensable.               *)
LimitsInv == TypeOK /\ \A s \in Sandboxes : SandboxInv(s) /\ UnharmedInv(s)
=============================================================================
