---------------------------- MODULE DynamicMounts ----------------------------
(***************************************************************************)
(* Dynamic mounts of a running sandbox: MountHandle and DynamicMount       *)
(* (mount/handle.rs) and the forked helper that enters the namespaces of   *)
(* the child for them (mount/syscalls.rs).                                 *)
(*                                                                         *)
(* The module follows one path of the sandbox, the target; what is mounted *)
(* on another path is another instance. A slot is a thread of the host     *)
(* that adds one mount at a time, remounts the target, and removes, drops  *)
(* or detaches its DynamicMount. An early Err (an invalid path, no mount   *)
(* API, pipe or fork failing) changes nothing and is no step, except on    *)
(* the path of drop.                                                       *)
(***************************************************************************)
EXTENDS Integers, FiniteSets, SequencesExt

CONSTANTS
  Slots,
  ReadOnly,  \* slots that add a read-only bind mount; the others add a
             \* read-write one or a tmpfs
  Errnos,    \* errnos of failing system calls
  Pidfd      \* MountHandleInner::child_pidfd is there

Einval == 22

(* The errnos are those that encode_errno asserts.                         *)
ASSUME MountAssumption ==
  /\ IsFiniteSet(Slots) /\ ReadOnly \subseteq Slots
  /\ Errnos \subseteq 1..253 /\ Einval \in Errnos /\ Pidfd \in BOOLEAN

VARIABLES
  users,    \* the slots that work on the target; fixed
  reaped,   \* the child is dead and waited for
  stack,    \* mounts on the target, the last on top: owner and permission
  handle,   \* the DynamicMount of a slot: "none", "held", "removed" (still
            \* there, with its flag set), "detached" (gone, its mount is not)
  perm,     \* whether its mount is to be read-only
  op,       \* the operation under way, or "none"
  helper,   \* "none", a step, "rollback", "exited"
  byte,     \* status byte in the pipe
  cause,    \* the failure the helper met
  leaked,   \* the helper was killed, and another process has the write end
  spoiled   \* an operation on the target lost its effect or its result

handleVars == <<handle, perm>>
helperVars == <<helper, byte, cause>>
vars == <<users, reaped, stack, handleVars, op, helperVars, leaked, spoiled>>

Remounts == {"remount_ro", "remount_rw"}
Operations == {"add", "remove", "drop"} \cup Remounts

NoByte == -1
Outcome(k, errno) == [kind |-> k, errno |-> errno]
Success == Outcome("ok", 0)

Init ==
  /\ users \in SUBSET Slots /\ reaped = FALSE /\ stack = <<>>
  /\ handle = [m \in Slots |-> "none"]
  /\ perm = [m \in Slots |-> m \in ReadOnly]
  /\ op = [m \in Slots |-> "none"] /\ helper = [m \in Slots |-> "none"]
  /\ byte = [m \in Slots |-> NoByte] /\ cause = [m \in Slots |-> Success]
  /\ leaked = [m \in Slots |-> FALSE] /\ spoiled = FALSE

-----------------------------------------------------------------------------
(* The operations of the host                                              *)

Idle(m) == op[m] = "none"

(* check_alive: without a pidfd there is no check.                         *)
ChildGone == Pidfd /\ reaped

(* fork_in_namespaces up to the fork                                       *)
Start(m, o) ==
  /\ op' = [op EXCEPT ![m] = o]
  /\ helper' = [helper EXCEPT ![m] = "enter"]
  /\ UNCHANGED <<users, reaped, stack, handleVars, byte, cause, leaked, spoiled>>

(* Bound: nothing is added or remounted once the target is spoiled, as the *)
(* properties of its mounts then say nothing more.                         *)
MayStart(m) == m \in users /\ Idle(m) /\ ~ChildGone /\ ~spoiled

(* add_mount, add_tmpfs                                                    *)
Add(m) ==
  /\ MayStart(m) /\ handle[m] = "none"
  /\ Start(m, "add")

Remount(m, o) ==
  /\ MayStart(m)
  /\ Start(m, o)

RemoveMount(m) ==
  /\ Idle(m) /\ handle[m] = "held"
  /\ Start(m, "remove")

Drop(m) ==
  /\ Idle(m) /\ handle[m] = "held"
  /\ Start(m, "drop")

(* Drop without a helper: it was removed, or pipe or fork fails.           *)
DropEarly(m) ==
  /\ Idle(m) /\ handle[m] \in {"held", "removed"}
  /\ handle' = [handle EXCEPT ![m] = "none"]
  /\ perm' = [perm EXCEPT ![m] = m \in ReadOnly]
  /\ spoiled' = (spoiled \/ handle[m] = "held")
  /\ UNCHANGED <<users, reaped, stack, op, helperVars, leaked>>

(* Mutant: detach does not mark the handle, and its drop unmounts.         *)
DetachUnmarked(m) ==
  /\ Idle(m) /\ handle[m] = "held"
  /\ handle' = [handle EXCEPT ![m] = "detached"]
  /\ stack' = IF stack = <<>> THEN stack ELSE Front(stack)
  /\ UNCHANGED <<users, reaped, perm, op, helperVars, leaked, spoiled>>

(* detach, and the drop that skips the handle it marked; a handle that was *)
(* removed before is just dropped.                                         *)
Detach(m) ==
  /\ Idle(m) /\ handle[m] = "held"
  /\ handle' = [handle EXCEPT ![m] = "detached"]
  /\ UNCHANGED <<users, reaped, stack, perm, op, helperVars, leaked, spoiled>>

-----------------------------------------------------------------------------
(* The helper                                                              *)

(* The system call of an operation. Those before it - setns twice,         *)
(* open_tree, mkdirat - are one step "enter": they leave the mounts alone. *)
MainStep(m) ==
  CASE op[m] = "add" -> "move"
    [] op[m] \in Remounts -> "setperm"
    [] OTHER -> "umount"

(* Mutant: the mount is made and the remount forgotten.                    *)
StepAfterUnprotected(m) == IF helper[m] = "enter" THEN MainStep(m) ELSE "report"

StepAfter(m) ==
  CASE helper[m] = "enter" -> MainStep(m)
    [] helper[m] = "move" /\ m \in ReadOnly -> "protect"
    [] OTHER -> "report"

Running(m) == helper[m] \in {"enter", "move", "setperm", "umount", "protect"}

(* System calls work on the topmost mount of the path.                     *)
SetTop(s, ro) == [s EXCEPT ![Len(s)].ro = ro]

Effect(m, s) ==
  CASE helper[m] = "move" -> Append(s, [of |-> m, ro |-> FALSE])
    [] helper[m] = "protect" -> SetTop(s, TRUE)
    [] helper[m] = "setperm" -> SetTop(s, op[m] = "remount_ro")
    [] helper[m] = "umount" -> Front(s)
    [] OTHER -> s

(* Nothing is mounted where the step needs a mount: EINVAL.                *)
NothingThere(m) ==
  helper[m] \in {"protect", "setperm", "umount"} /\ stack = <<>>

(* The helper has changed the mounts.                                      *)
Touched(m) == helper[m] \in {"protect", "rollback", "report"}

(* Mutant: without the offset an errno of 1 reads as the generic failure.  *)
EncodePlain(c) ==
  CASE c.kind = "ok" -> 0
    [] c.kind = "generic" -> 1
    [] OTHER -> c.errno

(* STATUS_OK, STATUS_ERROR, encode_errno                                   *)
Encode(c) ==
  CASE c.kind = "ok" -> 0
    [] c.kind = "generic" -> 1
    [] OTHER -> (IF c.errno > 253 THEN 253 ELSE c.errno) + 2

Decode(b) ==
  CASE b = 0 -> Success
    [] b = 1 -> Outcome("generic", 0)
    [] OTHER -> Outcome("errno", b - 2)

HelperSucceeds(m) ==
  /\ Running(m) /\ ~NothingThere(m)
  /\ stack' = Effect(m, stack)
  /\ helper' = [helper EXCEPT ![m] = StepAfter(m)]
  /\ UNCHANGED <<users, reaped, handleVars, op, byte, cause, leaked, spoiled>>

(* Failures of setns are reported without their errno.                     *)
Failures(m) ==
  {Outcome("errno", e) : e \in IF NothingThere(m) THEN {Einval} ELSE Errnos}
    \cup IF helper[m] = "enter" THEN {Outcome("generic", 0)} ELSE {}

Report(m, c) ==
  /\ byte' = [byte EXCEPT ![m] = Encode(c)]
  /\ helper' = [helper EXCEPT ![m] = "exited"]

(* Mutant: a failed remount leaves the mount, read-write.                  *)
HelperFailsNoRollback(m) ==
  /\ Running(m)
  /\ \E c \in Failures(m) : cause' = [cause EXCEPT ![m] = c] /\ Report(m, c)
  /\ UNCHANGED <<users, reaped, stack, handleVars, op, leaked, spoiled>>

HelperFails(m) ==
  /\ Running(m)
  /\ \E c \in Failures(m) :
       /\ cause' = [cause EXCEPT ![m] = c]
       /\ IF helper[m] = "protect"
          THEN helper' = [helper EXCEPT ![m] = "rollback"] /\ UNCHANGED byte
          ELSE Report(m, c)
  /\ UNCHANGED <<users, reaped, stack, handleVars, op, leaked, spoiled>>

(* Mutant: the errno is read after the umount, which succeeded.            *)
RollbackReadsErrno(m) ==
  /\ helper[m] = "rollback" /\ stack # <<>>
  /\ stack' = Front(stack)
  /\ Report(m, Success)
  /\ UNCHANGED <<users, reaped, handleVars, op, cause, leaked, spoiled>>

(* dynamic_bind_mount keeps the errno of the failed remount.               *)
Rollback(m) ==
  /\ helper[m] = "rollback" /\ stack # <<>>
  /\ stack' = Front(stack)
  /\ Report(m, cause[m])
  /\ UNCHANGED <<users, reaped, handleVars, op, cause, leaked, spoiled>>

(* The result of the umount is ignored.                                    *)
RollbackFails(m) ==
  /\ helper[m] = "rollback"
  /\ Report(m, cause[m])
  /\ spoiled' = TRUE
  /\ UNCHANGED <<users, reaped, stack, handleVars, op, cause, leaked>>

HelperReports(m) ==
  /\ helper[m] = "report"
  /\ Report(m, Success)
  /\ UNCHANGED <<users, reaped, stack, handleVars, op, cause, leaked, spoiled>>

(* SIGKILL, from the OOM killer or an operator. The pipe has no O_CLOEXEC: *)
(* a child that another thread forked before status_w was closed may still *)
(* have a copy.                                                            *)
HelperKilled(m) ==
  /\ Running(m) \/ helper[m] \in {"rollback", "report"}
  /\ helper' = [helper EXCEPT ![m] = "exited"]
  /\ cause' = [cause EXCEPT ![m] = Success]
  /\ spoiled' = (spoiled \/ Touched(m))
  /\ leaked' \in {leaked, [leaked EXCEPT ![m] = TRUE]}
  /\ UNCHANGED <<users, reaped, stack, handleVars, op, byte>>

-----------------------------------------------------------------------------
(* The host again                                                          *)

(* A slot's mount is there: its handle neither removed nor dropped it.     *)
Present(m) == handle[m] \in {"held", "detached"}

(* Mutant: a remove that failed still marks the mount as removed.          *)
HandleMarkedAnyway(m, ok) ==
  CASE op[m] = "add" -> IF ok THEN "held" ELSE "none"
    [] op[m] = "remove" -> "removed"
    [] op[m] = "drop" -> "none"
    [] OTHER -> handle[m]

(* What the caller of fork_in_namespaces does with its result.             *)
HandleAfter(m, ok) ==
  CASE op[m] = "add" -> IF ok THEN "held" ELSE "none"
    [] op[m] = "remove" -> IF ok THEN "removed" ELSE "held"
    [] op[m] = "drop" -> "none"
    [] OTHER -> handle[m]

PermAfter(m, ok) ==
  IF HandleAfter(m, ok) \in {"none", "removed"} THEN m \in ReadOnly
  ELSE IF op[m] \in Remounts /\ ok THEN op[m] = "remount_ro"
  ELSE perm[m]

Finish(m, ok) ==
  /\ handle' = [handle EXCEPT ![m] = HandleAfter(m, ok)]
  /\ perm' = [perm EXCEPT ![m] = PermAfter(m, ok)]
  /\ op' = [op EXCEPT ![m] = "none"] /\ helper' = [helper EXCEPT ![m] = "none"]
  /\ byte' = [byte EXCEPT ![m] = NoByte] /\ cause' = [cause EXCEPT ![m] = Success]
  /\ leaked' = [leaked EXCEPT ![m] = FALSE]
  /\ UNCHANGED <<users, reaped, stack>>

(* Mutant: the host waits for a byte, also of a helper that was killed.    *)
HelperReturnsByte(m) ==
  /\ helper[m] = "exited" /\ byte[m] # NoByte
  /\ Finish(m, Decode(byte[m]) = Success)
  /\ spoiled' = (spoiled \/ (op[m] = "drop" /\ byte[m] # 0))

(* waitpid, then one byte or the end of the file, which a copy of the      *)
(* write end elsewhere holds back. A drop that fails is only logged.       *)
HelperReturns(m) ==
  /\ helper[m] = "exited" /\ (byte[m] = NoByte => ~leaked[m])
  /\ Finish(m, byte[m] # NoByte /\ Decode(byte[m]) = Success)
  /\ spoiled' = (spoiled \/ (op[m] = "drop" /\ byte[m] # 0))

(* Somebody else in the host reaped the helper: ECHILD.                    *)
WaitpidFails(m) ==
  /\ helper[m] = "exited"
  /\ Finish(m, FALSE)
  /\ spoiled' = (spoiled \/ (op[m] = "drop" \/ byte[m] = 0))

(* The process that has the copy of the write end exits.                   *)
HolderExits(m) ==
  /\ leaked[m]
  /\ leaked' = [leaked EXCEPT ![m] = FALSE]
  /\ UNCHANGED <<users, reaped, stack, handleVars, op, helperVars, spoiled>>

ChildReaped ==
  /\ ~reaped /\ reaped' = TRUE
  /\ UNCHANGED <<users, stack, handleVars, op, helperVars, leaked, spoiled>>

HelperStep(m) ==
  \/ HelperSucceeds(m) \/ HelperReports(m) \/ Rollback(m) \/ RollbackFails(m)
  \/ HelperFails(m)

Next ==
  \/ \E m \in Slots :
       \/ Add(m) \/ RemoveMount(m) \/ Drop(m) \/ DropEarly(m) \/ Detach(m)
       \/ HelperStep(m) \/ HelperKilled(m)
       \/ HelperReturns(m) \/ WaitpidFails(m) \/ HolderExits(m)
       \/ \E o \in Remounts : Remount(m, o)
  \/ ChildReaped

Spec == Init /\ [][Next]_vars

(* The helper runs, and so does the thread that waits for it.              *)
FairSpec ==
  Spec /\ \A m \in Slots : WF_vars(HelperStep(m)) /\ WF_vars(HelperReturns(m))

-----------------------------------------------------------------------------
(* Properties                                                              *)

(* Types; an idle slot has no helper, and a helper that reported has ended.*)
TypeOK ==
  /\ users \subseteq Slots
  /\ reaped \in BOOLEAN /\ stack \in Seq([of : Slots, ro : BOOLEAN])
  /\ handle \in [Slots -> {"none", "held", "removed", "detached"}]
  /\ perm \in [Slots -> BOOLEAN]
  /\ op \in [Slots -> Operations \cup {"none"}]
  /\ helper \in [Slots -> {"none", "enter", "move", "setperm", "umount", "protect",
                           "rollback", "report", "exited"}]
  /\ byte \in [Slots -> -1..255] /\ leaked \in [Slots -> BOOLEAN]
  /\ cause \in [Slots -> [kind : {"ok", "generic", "errno"}, errno : Errnos \cup {0}]]
  /\ spoiled \in BOOLEAN
  /\ \A m \in Slots : Idle(m) <=> helper[m] = "none"
  /\ \A m \in Slots : byte[m] # NoByte \/ leaked[m] => helper[m] = "exited"

Quiet == ~spoiled /\ \A m \in Slots : Idle(m)

(* Where no helper is at work and no operation lost its effect (a killed   *)
(* helper, a failed rollback or drop), the target has one mount for every  *)
(* handle that still stands for one, also when several handles share it    *)
(* and their helpers ran at the same time: a failed add leaves nothing, a  *)
(* failed remove takes nothing, remove then drop take one mount.           *)
MountsBalanced ==
  Quiet => Len(stack) = Cardinality({m \in Slots : Present(m)})

(* A target that only one slot uses carries the mount of its handle with   *)
(* the permission asked last; a read-only mount is never left writable.    *)
PermissionApplied ==
  \A m \in Slots :
    users = {m} /\ Quiet /\ Present(m) => stack = <<[of |-> m, ro |-> perm[m]]>>

(* The caller reads the failure that the helper met, through the status    *)
(* byte and past the rollback; Ok means that there was none.               *)
ErrorNamesCause ==
  \A m \in Slots :
    helper[m] = "exited" /\ byte[m] # NoByte => Decode(byte[m]) = cause[m]

(* Every operation returns, whatever becomes of its helper, unless another *)
(* process keeps the write end of the status pipe of a killed helper.      *)
OperationEnds ==
  \A m \in Slots : []<>Idle(m) \/ <>[](leaked[m] /\ byte[m] = NoByte)
=============================================================================
