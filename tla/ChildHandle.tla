----------------------------- MODULE ChildHandle -----------------------------
(***************************************************************************)
(* The handles a spawn returns: Child and DetachedChild (process/child.rs) *)
(* with the cgroup they own (cgroup/manager.rs), in a kernel that recycles *)
(* pids.  Several handles are used by several threads.                     *)
(*                                                                         *)
(* A process is known by its pid while that is taken; a cgroup directory is*)
(* named after the pid its sandbox had.  Descendants are not modelled.     *)
(***************************************************************************)
CONSTANTS
  Handles,  \* sandboxes the host spawns
  Pids      \* pids the kernel has to give

Nobody == "nobody"   \* a free pid
Foreign == "foreign" \* a process that is no child of the host

ASSUME HandleAssumption ==
  /\ Nobody \notin Handles /\ Foreign \notin Handles
  /\ Pids # {}

VARIABLES
  delegated, \* cgroup strategy: TRUE delegated, FALSE root
  careful,  \* callers leave a Child alone once try_wait has given its status
  who,      \* whose process has the pid
  st,       \* its state: "free", "alive", "killed" (SIGKILL pending), "zombie"
  member,   \* it is in the cgroup directory of its pid
  dirs,     \* that directory: "none", "held", "abandoned" or "busy"
  hs,       \* state of each handle
  pid,      \* Child::pid
  waited,   \* Child::waited
  cg,       \* the handle owns a CgroupManager
  piped,    \* the handle owns stdout or stderr
  status,   \* what waiting gave: "none", "own", "other" or "err"
  harmed    \* owners of processes that got SIGKILL from another's handle

vars == <<delegated, careful, who, st, member, dirs, hs, pid, waited, cg, piped, status, harmed>>

fixedVars == <<delegated, careful>>
procVars == <<who, st, member>>

(* Steps of a handle within one call: Drop, wait, reap.                    *)
HandleStates == {"none", "child", "killing", "polling", "cleanup", "removing",
                 "waiting", "detached", "reaping", "abandoned", "gone"}

Init ==
  /\ delegated \in BOOLEAN /\ careful \in BOOLEAN
  /\ who = [p \in Pids |-> Nobody] /\ st = [p \in Pids |-> "free"]
  /\ member = [p \in Pids |-> FALSE] /\ dirs = [p \in Pids |-> "none"]
  /\ hs = [h \in Handles |-> "none"]
  /\ pid \in [Handles -> {CHOOSE p \in Pids : TRUE}]
  /\ waited = [h \in Handles |-> FALSE] /\ cg = [h \in Handles |-> FALSE]
  /\ piped = [h \in Handles |-> FALSE]
  /\ status = [h \in Handles |-> "none"]
  /\ harmed = {}

-----------------------------------------------------------------------------
(* The kernel                                                              *)

Running(p) == st[p] \in {"alive", "killed"}

FreePid(p) ==
  /\ who' = [who EXCEPT ![p] = Nobody] /\ st' = [st EXCEPT ![p] = "free"]
  /\ member' = [member EXCEPT ![p] = FALSE]

ForeignStarts(p) ==
  /\ st[p] = "free"
  /\ who' = [who EXCEPT ![p] = Foreign] /\ st' = [st EXCEPT ![p] = "alive"]
  /\ UNCHANGED <<member, dirs, hs, pid, waited, cg, piped, status, harmed>>

ForeignEnds(p) ==
  /\ who[p] = Foreign
  /\ FreePid(p)
  /\ UNCHANGED <<dirs, hs, pid, waited, cg, piped, status, harmed>>

(* A process exits, or its pending SIGKILL takes effect.                   *)
ProcessEnds(p) ==
  /\ who[p] \in Handles /\ Running(p)
  /\ st' = [st EXCEPT ![p] = "zombie"]
  /\ UNCHANGED <<who, member, dirs, hs, pid, waited, cg, piped, status, harmed>>

(* Handle h sends SIGKILL to whoever has pid p.                            *)
SignalPid(h, p) ==
  /\ st' = [st EXCEPT ![p] = IF @ = "alive" THEN "killed" ELSE @]
  /\ harmed' = IF Running(p) THEN harmed \cup ({who[p]} \ {h}) ELSE harmed

Quiet == UNCHANGED <<st, harmed>>

-----------------------------------------------------------------------------
(* waitpid, kill_all, Child::kill                                          *)

(* waitpid finds an exited child, finds one that runs, or gets ECHILD.     *)
Exited(h) == who[pid[h]] \in Handles /\ st[pid[h]] = "zombie"
StillAlive(h) == who[pid[h]] \in Handles /\ Running(pid[h])
Echild(h) == who[pid[h]] \notin Handles

(* waitpid reaps: the pid is free, the status is of whoever had the pid.   *)
ReapPid(h) ==
  /\ FreePid(pid[h])
  /\ status' = [status EXCEPT ![h] = IF who[pid[h]] = h THEN "own" ELSE "other"]

(* CgroupManager::kill_all on the directory of the handle.                 *)
KillAll(h) ==
  IF cg[h] /\ dirs[pid[h]] # "none" /\ member[pid[h]] THEN SignalPid(h, pid[h])
  ELSE Quiet

(* Mutant: without a cgroup only the pidfd would be used, and there is none.*)
SignalNoTree(h) == IF cg[h] THEN KillAll(h) ELSE Quiet

(* Child::kill: the cgroup, else kill_tree on the raw pid; the pidfd adds  *)
(* nothing to that.                                                        *)
Signal(h) == IF cg[h] THEN KillAll(h) ELSE SignalPid(h, pid[h])

Usable(h) == hs[h] = "child" /\ (careful => ~waited[h])

-----------------------------------------------------------------------------
(* Operations of Child                                                     *)

(* Mutant: the delegated directory of an earlier sandbox is reused.        *)
MakesCgroupShared(p, limits) == limits

(* Root mode reuses a directory (create_dir_all), delegated mode fails and *)
(* a best-effort sandbox goes without.                                     *)
MakesCgroup(p, limits) == limits /\ (~delegated \/ dirs[p] = "none")

Spawn(h, p, limits, pipes) ==
  /\ hs[h] = "none" /\ st[p] = "free"
  /\ hs' = [hs EXCEPT ![h] = "child"] /\ pid' = [pid EXCEPT ![h] = p]
  /\ who' = [who EXCEPT ![p] = h] /\ st' = [st EXCEPT ![p] = "alive"]
  /\ cg' = [cg EXCEPT ![h] = MakesCgroup(p, limits)]
  /\ member' = [member EXCEPT ![p] = MakesCgroup(p, limits)]
  /\ dirs' = [dirs EXCEPT ![p] = IF MakesCgroup(p, limits) THEN "held" ELSE @]
  /\ piped' = [piped EXCEPT ![h] = pipes]
  /\ UNCHANGED <<waited, status, harmed>>

(* take_stdout_fd, take_stderr_fd                                          *)
TakePipes(h) ==
  /\ hs[h] = "child" /\ piped[h]
  /\ piped' = [piped EXCEPT ![h] = FALSE]
  /\ UNCHANGED <<procVars, dirs, hs, pid, waited, cg, status, harmed>>

Kill(h) ==
  /\ Usable(h)
  /\ Signal(h)
  /\ UNCHANGED <<who, member, dirs, hs, pid, waited, cg, piped, status>>

(* Mutant: the reaping is not recorded.                                    *)
TryWaitUnmarked(h) ==
  /\ Usable(h)
  /\ \/ Exited(h) /\ ReapPid(h)
     \/ Echild(h) /\ status' = [status EXCEPT ![h] = "err"] /\ UNCHANGED procVars
  /\ UNCHANGED <<dirs, hs, pid, waited, cg, piped, harmed>>

(* The status is not kept: a second call asks waitpid again.               *)
TryWait(h) ==
  /\ Usable(h)
  /\ \/ Exited(h) /\ ReapPid(h) /\ waited' = [waited EXCEPT ![h] = TRUE]
     \/ /\ Echild(h) /\ status' = [status EXCEPT ![h] = "err"]
        /\ UNCHANGED <<procVars, waited>>
  /\ UNCHANGED <<dirs, hs, pid, cg, piped, harmed>>

(* Drop for Child: kill and reap first, unless it was waited for.          *)
DropFrom(h) == hs' = [hs EXCEPT ![h] = IF waited[h] THEN "cleanup" ELSE "killing"]

Drop(h) ==
  /\ hs[h] = "child"
  /\ DropFrom(h)
  /\ UNCHANGED <<procVars, dirs, pid, waited, cg, piped, status, harmed>>

(* wait: WouldDeadlock consumes, hence drops, the Child.                   *)
Wait(h) ==
  /\ Usable(h)
  /\ IF piped[h] THEN DropFrom(h) ELSE hs' = [hs EXCEPT ![h] = "waiting"]
  /\ UNCHANGED <<procVars, dirs, pid, waited, cg, piped, status, harmed>>

WaitWithOutput(h) ==
  /\ Usable(h)
  /\ hs' = [hs EXCEPT ![h] = "waiting"] /\ piped' = [piped EXCEPT ![h] = FALSE]
  /\ UNCHANGED <<procVars, dirs, pid, waited, cg, status, harmed>>

(* Mutant: the wait does not tell Drop that the child is reaped.           *)
WaitReturnsUnmarked(h) ==
  /\ hs[h] = "waiting"
  /\ \/ Exited(h) /\ ReapPid(h) /\ hs' = [hs EXCEPT ![h] = "killing"]
     \/ /\ Echild(h) /\ DropFrom(h)
        /\ status' = [status EXCEPT ![h] = "err"] /\ UNCHANGED procVars
  /\ UNCHANGED <<dirs, pid, waited, cg, piped, harmed>>

(* waitpid returns and the Child is dropped; an error leaves waited alone. *)
WaitReturns(h) ==
  /\ hs[h] = "waiting"
  /\ \/ /\ Exited(h) /\ ReapPid(h) /\ waited' = [waited EXCEPT ![h] = TRUE]
        /\ hs' = [hs EXCEPT ![h] = "cleanup"]
     \/ /\ Echild(h) /\ DropFrom(h)
        /\ status' = [status EXCEPT ![h] = "err"] /\ UNCHANGED <<procVars, waited>>
  /\ UNCHANGED <<dirs, pid, cg, piped, harmed>>

-----------------------------------------------------------------------------
(* The rest of Drop                                                        *)

DropKills(h) ==
  /\ hs[h] = "killing"
  /\ Signal(h)
  /\ hs' = [hs EXCEPT ![h] = "polling"]
  /\ UNCHANGED <<who, member, dirs, pid, waited, cg, piped, status>>

(* A poll ends the loop: reaped, or an error.                              *)
DropReaps(h) ==
  /\ hs[h] = "polling"
  /\ \/ Exited(h) /\ FreePid(pid[h])
     \/ Echild(h) /\ UNCHANGED procVars
  /\ hs' = [hs EXCEPT ![h] = "cleanup"]
  /\ UNCHANGED <<dirs, pid, waited, cg, piped, status, harmed>>

(* Mutant: polls until the child is dead.                                  *)
DropGivesUpNever(h) ==
  /\ hs[h] = "polling" /\ StillAlive(h)
  /\ UNCHANGED vars

(* 100 polls have not seen the child exit.                                 *)
DropGivesUp(h) ==
  /\ hs[h] = "polling" /\ StillAlive(h)
  /\ hs' = [hs EXCEPT ![h] = "cleanup"]
  /\ UNCHANGED <<procVars, dirs, pid, waited, cg, piped, status, harmed>>

(* CgroupManager::cleanup: kill_all and a bounded wait...                  *)
CleanupKills(h) ==
  /\ hs[h] = "cleanup"
  /\ KillAll(h)
  /\ hs' = [hs EXCEPT ![h] = IF cg[h] THEN "removing" ELSE "gone"]
  /\ UNCHANGED <<who, member, dirs, pid, waited, cg, piped, status>>

(* Mutant: the directory stays.                                            *)
CleanupRemovesNot(h) ==
  /\ hs[h] = "removing"
  /\ hs' = [hs EXCEPT ![h] = "gone"] /\ cg' = [cg EXCEPT ![h] = FALSE]
  /\ UNCHANGED <<procVars, dirs, pid, waited, piped, status, harmed>>

(* ...then remove_dir, which fails if a process is left in it.             *)
CleanupRemoves(h) ==
  /\ hs[h] = "removing"
  /\ dirs' = [dirs EXCEPT ![pid[h]] =
                IF Running(pid[h]) /\ member[pid[h]] THEN "busy" ELSE "none"]
  /\ hs' = [hs EXCEPT ![h] = "gone"] /\ cg' = [cg EXCEPT ![h] = FALSE]
  /\ UNCHANGED <<procVars, pid, waited, piped, status, harmed>>

-----------------------------------------------------------------------------
(* DetachedChild                                                           *)

(* Mutant: Drop of the consumed Child sees waited = false, and kills.      *)
DetachUnmarked(h) ==
  /\ Usable(h)
  /\ hs' = [hs EXCEPT ![h] = "detached"] /\ Signal(h)
  /\ UNCHANGED <<who, member, dirs, pid, waited, cg, piped, status>>

(* detach marks the Child as waited, so that its Drop does nothing.        *)
Detach(h) ==
  /\ Usable(h)
  /\ hs' = [hs EXCEPT ![h] = "detached"] /\ waited' = [waited EXCEPT ![h] = TRUE]
  /\ piped' = [piped EXCEPT ![h] = FALSE]
  /\ UNCHANGED <<procVars, dirs, pid, cg, status, harmed>>

(* The manager is forgotten.                                               *)
Abandon(h) ==
  /\ hs' = [hs EXCEPT ![h] = "abandoned"] /\ cg' = [cg EXCEPT ![h] = FALSE]
  /\ dirs' = [dirs EXCEPT ![pid[h]] = IF cg[h] THEN "abandoned" ELSE @]

DropDetached(h) ==
  /\ hs[h] = "detached"
  /\ Abandon(h)
  /\ UNCHANGED <<procVars, pid, waited, piped, status, harmed>>

Reap(h) ==
  /\ hs[h] = "detached"
  /\ hs' = [hs EXCEPT ![h] = "reaping"]
  /\ UNCHANGED <<procVars, dirs, pid, waited, cg, piped, status, harmed>>

(* After the exit the cgroup is cleaned up; an error abandons it.          *)
ReapReturns(h) ==
  /\ hs[h] = "reaping"
  /\ \/ /\ Exited(h) /\ ReapPid(h)
        /\ hs' = [hs EXCEPT ![h] = "cleanup"] /\ UNCHANGED <<cg, dirs>>
     \/ /\ Echild(h) /\ Abandon(h)
        /\ status' = [status EXCEPT ![h] = "err"] /\ UNCHANGED procVars
  /\ UNCHANGED <<pid, waited, piped, harmed>>

(* The caller reaps the pid of a child it has abandoned.                   *)
CallerReaps(h) ==
  /\ hs[h] = "abandoned" /\ who[pid[h]] = h /\ st[pid[h]] = "zombie"
  /\ FreePid(pid[h])
  /\ UNCHANGED <<dirs, hs, pid, waited, cg, piped, status, harmed>>

DropStep(h) == \/ DropKills(h) \/ DropReaps(h) \/ DropGivesUp(h)
               \/ CleanupKills(h) \/ CleanupRemoves(h)

Next ==
  /\ \/ \E p \in Pids : ForeignStarts(p) \/ ForeignEnds(p) \/ ProcessEnds(p)
     \/ \E h \in Handles :
          \/ \E p \in Pids : \E limits, pipes \in BOOLEAN : Spawn(h, p, limits, pipes)
          \/ TakePipes(h) \/ Kill(h) \/ TryWait(h) \/ Drop(h)
          \/ Wait(h) \/ WaitWithOutput(h) \/ WaitReturns(h)
          \/ Detach(h) \/ DropDetached(h) \/ Reap(h) \/ ReapReturns(h)
          \/ CallerReaps(h) \/ DropStep(h)
  /\ UNCHANGED fixedVars

Spec == Init /\ [][Next]_vars

(* A thread inside Drop goes on: its polls and sleeps are bounded.  Nothing*)
(* is assumed of the callers, of processes or of pending SIGKILLs.         *)
FairSpec == Spec /\ \A h \in Handles : WF_vars(DropStep(h) /\ UNCHANGED fixedVars)

-----------------------------------------------------------------------------
(* Properties                                                              *)

TypeOK ==
  /\ delegated \in BOOLEAN /\ careful \in BOOLEAN
  /\ who \in [Pids -> Handles \cup {Nobody, Foreign}]
  /\ st \in [Pids -> {"free", "alive", "killed", "zombie"}]
  /\ member \in [Pids -> BOOLEAN]
  /\ dirs \in [Pids -> {"none", "held", "abandoned", "busy"}]
  /\ hs \in [Handles -> HandleStates] /\ pid \in [Handles -> Pids]
  /\ waited \in [Handles -> BOOLEAN] /\ cg \in [Handles -> BOOLEAN]
  /\ piped \in [Handles -> BOOLEAN]
  /\ status \in [Handles -> {"none", "own", "other", "err"}]
  /\ harmed \subseteq Handles \cup {Foreign}

(* What the properties about recycled pids need: callers leave a Child     *)
(* alone once try_wait has reaped it, and root mode does not hand an       *)
(* undropped directory to the next sandbox with the pid.                   *)
Disciplined == careful /\ delegated

(* kill, Drop and the cgroup cleanup of a handle signal no process but its *)
(* own child, however pids are recycled.                                   *)
OnlyOwnKilled == harmed = {}

(* Every status a disciplined caller is given is that of its own child.    *)
StatusIsOwn == Disciplined => \A h \in Handles : status[h] \in {"none", "own"}

(* A detached child is never killed: not by its detach, not by an operation*)
(* on another handle.                                                      *)
DetachSurvives ==
  [][Disciplined =>
       \A h \in Handles :
         hs'[h] \in {"detached", "reaping", "abandoned"} /\ who[pid[h]] = h =>
           ~(st[pid[h]] = "alive" /\ st'[pid[h]] = "killed")]_vars

(* A handle that has not reaped its child.                                 *)
Owns(h) == \/ hs[h] = "child" /\ ~waited[h]
           \/ hs[h] \in {"killing", "polling", "waiting", "detached", "reaping"}

(* Whoever the caller: a process belongs to the handle that spawned it,    *)
(* and only a spawn gives a handle its process and its cgroup.             *)
PidInv ==
  /\ \A p \in Pids : who[p] = Nobody <=> st[p] = "free"
  /\ \A h \in Handles : \A p \in Pids : who[p] = h => hs[h] # "none" /\ pid[h] = p
  /\ \A h \in Handles : cg[h] \/ waited[h] => hs[h] # "none"
  /\ \A h \in Handles : hs[h] = "removing" => cg[h]

(* Whoever the caller: kill_all finds the child of the handle as long as   *)
(* it runs, so that no handle comes past its kill with a child that has    *)
(* none pending, and a waited handle has no child.                         *)
DropInv ==
  \A h \in Handles : who[pid[h]] = h =>
    /\ cg[h] => member[pid[h]] /\ (Running(pid[h]) => dirs[pid[h]] # "none")
    /\ hs[h] \in {"polling", "cleanup", "removing", "gone"} => st[pid[h]] # "alive"
    /\ hs[h] \in {"child", "waiting"} => ~waited[h]

(* For disciplined callers a child keeps its pid until it is reaped, a     *)
(* cgroup directory has one owner and no member but that owner's child,    *)
(* and no handle signals another's process.                                *)
OwnerInv ==
  /\ \A h \in Handles : Owns(h) => who[pid[h]] = h
  /\ \A h \in Handles : cg[h] => dirs[pid[h]] = "held"
  /\ \A h \in Handles : cg[h] /\ member[pid[h]] => who[pid[h]] = h
  /\ \A h, g \in Handles : h # g /\ cg[h] /\ cg[g] => pid[h] # pid[g]
  /\ OnlyOwnKilled

(* The inductive invariant of Child and DetachedChild (process/child.rs):  *)
(* handles and pids belong together for every caller, and for disciplined  *)
(* ones pids and cgroup directories are never shared.                      *)
HandleInv == TypeOK /\ PidInv /\ DropInv /\ (Disciplined => OwnerInv)

(* Once a Child is gone its process has exited or has SIGKILL pending.     *)
GoneNeverRuns ==
  \A h \in Handles : hs[h] = "gone" =>
    ~\E p \in Pids : who[p] = h /\ st[p] = "alive"

(* A cgroup directory is owned by a handle, was abandoned by a detached    *)
(* one, or held an unkillable process when its owner removed it.           *)
NoSilentLeak ==
  \A p \in Pids : dirs[p] = "held" => \E h \in Handles : cg[h] /\ pid[h] = p

(* A Drop ends, though its child may never die.                            *)
DropEnds ==
  \A h \in Handles : hs[h] \in {"killing", "polling", "cleanup", "removing"} ~> hs[h] = "gone"
=============================================================================
