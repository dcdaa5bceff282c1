------------------------------- MODULE KillTree -------------------------------
(***************************************************************************)
(* Child::kill (process/child.rs): CgroupManager::kill_all                 *)
(* (cgroup/manager.rs) for a sandbox with a cgroup, the walk of            *)
(* process/kill.rs without one, against processes that fork, exit and die  *)
(* while it runs.                                                          *)
(***************************************************************************)
EXTENDS Integers, SequencesExt

CONSTANTS
  Procs,    \* processes the sandbox may come to have
  Root,     \* the first of them, the child the host cloned
  Rounds    \* rounds of a kill, 5 in the code

Outside == "outside"  \* the parent of what is not below the root: init, the host

ASSUME KillAssumption ==
  /\ IsFiniteSet(Procs) /\ Root \in Procs /\ Outside \notin Procs
  /\ Rounds \in Nat \ {0}

VARIABLES
  cgroup,   \* "none", "kill" (cgroup.kill exists) or "freeze" (an older kernel)
  pidns,    \* the root is the init of a PID namespace
  st,       \* "unborn", "running", "killed" (SIGKILL pending) or "dead"
  parent,   \* who the kernel lists a process under,
  side,     \* and the ones listed under another thread than the main one
  freezer,  \* "off", "asked" (the write has returned) or "on"
  kpc,      \* where the kill is
  round,    \* rounds left
  stack,    \* of collect_descendants
  out,      \* found in this round and not yet signalled
  read,     \* processes whose children this round has read
  unread,   \* cgroup.procs could not be read
  stray     \* orphans, late forks and other threads' children: history, for the property

killConfig == <<cgroup, pidns>>
procVars == <<st, parent, side, stray>>
walkVars == <<kpc, round, stack, out, read>>
killVars == <<killConfig, procVars, freezer, walkVars, unread>>

KillInit ==
  /\ cgroup \in {"none", "kill", "freeze"} /\ pidns \in BOOLEAN
  /\ st = [p \in Procs |-> IF p = Root THEN "running" ELSE "unborn"]
  /\ parent = [p \in Procs |-> Outside] /\ side = {}
  /\ freezer = "off"
  /\ kpc = "idle" /\ round = 0 /\ stack = {} /\ out = <<>> /\ read = {}
  /\ unread = FALSE
  /\ stray = {}

Running == {p \in Procs : st[p] = "running"}

Children(p) == {c \in Procs : st[c] \in {"running", "killed"} /\ parent[c] = p}

-----------------------------------------------------------------------------
(* The kernel and the processes of the sandbox, external                   *)

(* A process with SIGKILL pending forks no more.  A child forked by another*)
(* thread than the main one is listed under that thread.                   *)
Fork(p, c, thread) ==
  /\ st[p] = "running" /\ freezer # "on" /\ st[c] = "unborn"
  /\ st' = [st EXCEPT ![c] = "running"] /\ parent' = [parent EXCEPT ![c] = p]
  /\ side' = IF thread THEN side \cup {c} ELSE side
  /\ stray' = IF \/ p \in stray \/ p \in read
                 \/ thread /\ cgroup = "none"
              THEN stray \cup {c} ELSE stray
  /\ UNCHANGED <<killConfig, freezer, walkVars, unread>>

(* The thread that forked c ends: c moves to the main thread.              *)
ThreadExit(c) ==
  /\ c \in side /\ st[c] \in {"running", "killed"} /\ parent[c] \in Procs
  /\ st[parent[c]] = "running" /\ freezer # "on"
  /\ side' = side \ {c}
  /\ UNCHANGED <<killConfig, st, parent, stray, freezer, walkVars, unread>>

(* Orphans go to the init of their PID namespace, whose death ends all.    *)
Gone(p, strays) ==
  LET dead == IF pidns /\ p = Root THEN {q \in Procs : st[q] # "unborn"} ELSE {p}
      heir == IF pidns THEN Root ELSE Outside
  IN  /\ st' = [q \in Procs |-> IF q \in dead THEN "dead" ELSE st[q]]
      /\ parent' = [q \in Procs |-> IF q \in dead THEN Outside
                                    ELSE IF q \in Children(p) THEN heir ELSE parent[q]]
      /\ side' = side \ (dead \cup Children(p))
      /\ stray' = (stray \cup strays) \ dead

Exit(p) ==
  /\ st[p] = "running" /\ freezer # "on"
  /\ Gone(p, IF cgroup = "none" THEN Children(p) ELSE {})
  /\ UNCHANGED <<killConfig, freezer, walkVars, unread>>

Die(p) ==
  /\ st[p] = "killed"
  /\ Gone(p, {})
  /\ UNCHANGED <<killConfig, freezer, walkVars, unread>>

(* The freeze takes effect after the write has returned.                   *)
Freezes ==
  /\ freezer = "asked" /\ freezer' = "on"
  /\ UNCHANGED <<killConfig, procVars, walkVars, unread>>

-----------------------------------------------------------------------------
(* Child::kill                                                             *)

Sigkill(ps) == st' = [p \in Procs |-> IF p \in ps /\ st[p] = "running" THEN "killed" ELSE st[p]]

StartKill ==
  /\ kpc \in {"idle", "done"}
  /\ kpc' = IF cgroup = "none" THEN "round" ELSE "killfile"
  /\ round' = IF cgroup = "kill" THEN 0 ELSE Rounds
  /\ read' = {} /\ unread' = FALSE
  /\ UNCHANGED <<killConfig, procVars, freezer, stack, out>>

-----------------------------------------------------------------------------
(* kill_tree: process/kill.rs                                              *)

StartWalk ==
  /\ cgroup = "none" /\ kpc = "round" /\ round > 0
  /\ kpc' = "walk" /\ round' = round - 1
  /\ stack' = {Root} /\ out' = <<>> /\ read' = {}
  /\ UNCHANGED <<killConfig, procVars, freezer, unread>>

(* Mutant: only the children of the root are pushed.                       *)
CollectChildrenOnly(p) ==
  /\ kpc = "walk" /\ p \in stack
  /\ out' = Append(out, p) /\ read' = read \cup {p}
  /\ stack' = (IF p = Root THEN Children(p) \ side ELSE stack) \ (ToSet(out) \cup {p})
  /\ stray' = stray \ {p}
  /\ UNCHANGED <<killConfig, st, parent, side, freezer, kpc, round, unread>>

(* Mutant: as process/kill.rs documents the walk, the children of every    *)
(* thread are read.                                                        *)
CollectAllThreads(p) ==
  /\ kpc = "walk" /\ p \in stack
  /\ out' = Append(out, p) /\ read' = read \cup {p}
  /\ stack' = (stack \cup Children(p)) \ (ToSet(out) \cup {p})
  /\ stray' = stray \ {p}
  /\ UNCHANGED <<killConfig, st, parent, side, freezer, kpc, round, unread>>

(* collect_descendants: pop a pid and push what read_children lists, the   *)
(* children of the main thread only                                        *)
CollectNext(p) ==
  /\ kpc = "walk" /\ p \in stack
  /\ out' = Append(out, p) /\ read' = read \cup {p}
  /\ stack' = (stack \cup (Children(p) \ side)) \ (ToSet(out) \cup {p})
  /\ stray' = stray \ {p}
  /\ UNCHANGED <<killConfig, st, parent, side, freezer, kpc, round, unread>>

CollectDone ==
  /\ kpc = "walk" /\ stack = {}
  /\ kpc' = "signal"
  /\ UNCHANGED <<killConfig, procVars, freezer, round, stack, out, read, unread>>

(* kill_pid, and the SIGKILL loop of kill_all                              *)
SignalNext ==
  /\ kpc = "signal" /\ out # <<>>
  /\ Sigkill({Head(out)}) /\ out' = Tail(out)
  /\ UNCHANGED <<killConfig, parent, side, stray, freezer, kpc, round, stack, read, unread>>

(* All are signalled; the thread sleeps, 10 ms.                            *)
SignalDone ==
  /\ kpc = "signal" /\ out = <<>>
  /\ kpc' = "round"
  /\ UNCHANGED <<killConfig, procVars, freezer, round, stack, out, read, unread>>

(* Five rounds, for a list that always has the root; then the root's pidfd *)
SignalRoot ==
  /\ cgroup = "none" /\ kpc = "round" /\ round = 0
  /\ Sigkill({Root}) /\ kpc' = "done" /\ read' = {}
  /\ UNCHANGED <<killConfig, parent, side, stray, freezer, round, stack, out, unread>>

-----------------------------------------------------------------------------
(* CgroupManager::kill_all                                                 *)

(* The write to cgroup.kill reaches every member at once.                  *)
WriteKillFile ==
  /\ kpc = "killfile"
  /\ IF cgroup = "kill"
     THEN Sigkill(Procs) /\ kpc' = "done" /\ UNCHANGED freezer
     ELSE /\ kpc' = "round" /\ UNCHANGED st
          /\ freezer' \in {freezer, "asked"}   \* the result of the write is dropped
  /\ UNCHANGED <<killConfig, parent, side, stray, round, stack, out, read, unread>>

Thaw(u) ==
  /\ freezer' = "off" /\ kpc' = "done" /\ unread' = u /\ round' = 0 /\ read' = {}
  /\ UNCHANGED <<out, stray>>

(* get_pids gives the members, or nothing when cgroup.procs is unreadable. *)
Snapshot ==
  /\ cgroup = "freeze" /\ kpc = "round"
  /\ IF round = 0 THEN Thaw(unread)
     ELSE \/ Thaw(TRUE)
          \/ LET members == {p \in Procs : st[p] \in {"running", "killed"}}
             IN  IF members = {} THEN Thaw(unread)
                 ELSE /\ kpc' = "signal" /\ round' = round - 1
                      /\ out' = SetToSeq(members) /\ read' = members
                      /\ stray' = {}
                      /\ UNCHANGED <<freezer, unread>>
  /\ UNCHANGED <<killConfig, st, parent, side, stack>>

-----------------------------------------------------------------------------

(* A step of the kill in progress                                          *)
KillStep ==
  \/ StartWalk \/ (\E p \in Procs : CollectNext(p)) \/ CollectDone \/ SignalNext \/ SignalDone
  \/ SignalRoot \/ WriteKillFile \/ Snapshot

(* What the kernel and the sandbox do meanwhile                            *)
ProcStep ==
  \/ \E p \in Procs : Exit(p) \/ Die(p) \/ ThreadExit(p)
  \/ \E p, c \in Procs : \E thread \in BOOLEAN : Fork(p, c, thread)
  \/ Freezes

(* Nothing will end c: no SIGKILL is pending on it or on the init of its   *)
(* PID namespace.                                                          *)
Survives(c) == st[c] = "running" /\ ~(pidns /\ st[Root] # "running")

(* The walk signals no child that is listed under another thread than the  *)
(* main one: read_children reads task/<pid>/children, although the module  *)
(* is documented to read task/<tid>/children, for the whole tree.          *)
OtherThreadsMissed == cgroup = "none" => \A c \in side : st[c] # "killed"

(* Which processes survive a kill that has returned.  Without a cgroup, the*)
(* two kinds that process/kill.rs names, an orphan since before the walk   *)
(* came to it and the child of a process whose children had been read; a   *)
(* third that it does not name, the child of another thread than the main  *)
(* one, which the walk always misses; and what is below such a survivor.   *)
(* With the freezer, one forked between the last snapshot and the signal,  *)
(* or any when cgroup.procs was unreadable.  With cgroup.kill none.        *)
EscapeHasCause ==
  /\ OtherThreadsMissed
  /\ kpc = "done" =>
       \A c \in Procs :
         Survives(c) =>
           CASE cgroup = "none" -> c \in stray \/ (parent[c] \in Procs /\ Survives(parent[c]))
             [] cgroup = "freeze" -> c \in stray \/ unread
             [] cgroup = "kill" -> FALSE
=============================================================================
