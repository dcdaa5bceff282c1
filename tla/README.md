# Verification of libsandbox

TLA+ models of libsandbox-rs (paths below are relative to the repository), the
TLC runs that check them and the TLAPS proofs about them. `PROJECT.json` maps
every definition to the lines it models and lists runs, mutants, hazards,
findings and theorems.

## The system

libsandbox starts a program in fresh namespaces, under cgroup limits, a seccomp
filter and a constructed mount tree, and gives the caller a handle on it. It is
a library: any number of host threads call it at the same time, and the only
state they share is the kernel's (fds of the process, pids, the cgroup
filesystem).

| Part | State | Operations | Interacts with |
|---|---|---|---|
| Spawn protocol, `process/protocol.rs`, `fd.rs` | ready pipe, error pipe, stdio ends, child pid | `run_prepared`, `abort_child_startup`, `kill_and_reap` | the child over two pipes; other threads, whose `clone` copies every open fd |
| Child setup, `process/child_setup.rs` | its copies of the pipe ends | `exec_sandboxed`: barrier, fds, mounts, rlimits, seccomp, hook, commit, exec | the parent |
| One-shot execution, `process/spawn.rs`, `wait.rs` | buffers, `killed_by_timeout`, kill time | `run`, `wait_with_timeout`, `wait_and_collect` | stdin and output pipes, the clock |
| Handles, `process/child.rs`, `kill.rs` | pid, pidfd, `waited`, cgroup, pipes | `try_wait`, `wait`, `wait_with_output`, `kill`, `detach`, `reap`, two `Drop`s | pids the kernel recycles, cgroup directories |
| Cgroups, `cgroup/` | `LimitPlan`, diagnostics, directories | `configure_cgroup`, create, set limits, `add_process`, `kill_all`, `cleanup` | other sandboxes below the shared parent |
| Dynamic mounts, `mount/handle.rs`, `syscalls.rs` | namespace fds, mounts made | `add_mount`, `remove`, `remount`, drop | a forked helper inside the namespaces |
| Child mounts, `mount/ops.rs`, `mount/child.rs` | the mount namespace of the child | `setup_mount_namespace`, `setup_bind_mounts`; `install_user_mount_ns`, `install_bind`, `install_tmpfs`, `install_mount` for a caller's own `pre_exec` | child setup, the host's mounts |
| Landlock, `landlock/` | ruleset fd | `prepare_landlock` in the parent, `install_landlock` in the child | the mounts and the seccomp filter already in place |
| Network proxy, `network/` | port, runtime, shutdown flag | `setup`, `run`, `handle_*`, drop | the sandboxed program, the handle that owns it |
| Seccomp, `seccomp/` | rule list | build, compile, install | child setup |
| Configuration, results, facade | plain data | builders, validation | all of the above |

What is hard here: two pipes whose EOF carries meaning while any thread may copy
their ends; a failure in the middle of a spawn; a time limit racing an exit;
pipes at capacity; raw pids and pid-named directories after a reap; limits of
which some can be enforced and some cannot; rules compiled to relative jumps;
mounts made by a helper that may die between two calls; confinement steps each
of which takes privileges from the next; processes that fork while they are
being killed; tasks and lookups that outlive their connection. The list, line by line, is
`hazards` in `PROJECT.json`.

What makes each part correct: a child does nothing before it is confined, a
failed spawn leaves nothing and no failure is missed (protocol); all output is
collected, a kill is reported, the call ends (one-shot); a handle touches only
its own child and leaves nothing behind (handles); a strict limit is in force or
the spawn fails (cgroups); the program decides as the rules say (seccomp); mounts
follow their handles (dynamic mounts); the target sees and may touch what the
configuration says, and the host's mounts stay as they were (child mounts,
landlock); a kill reaches every process but those of a few known kinds (tree
kill), and after the drop nothing relays for those (proxy).

## Modules

**`SpawnProtocol`** — `run_prepared` and `exec_sandboxed` for a set of
concurrent spawns. `holders` of each pipe end are the host and the children that
inherited it, so EOF is a fact about every process. One action per step of the
parent (`ResolveStdio` ... `Drain`, `ReadFrame`, `KillChild`, `ReapChild`,
`DropLocals`) and of the child (`ChildEntry`, `ChildReleased`, `SetupStep`,
`CommitSetup`, `ExecTarget`). `Faults` selects what the environment does: deaths
by signal, EINTR in the unretried barrier read, read errors, a host crash, and
the setup stages that may fail.

**`SandboxLifecycle`** — the abstract promise: a sandbox is absent, confined,
running, dead; a spawn answers ok or error, and after an error nothing runs.
`SpawnProtocol!ImplementsLifecycle` is the refinement.

**`OneShotRun`** — after the spawn: `FeedWrite`/`FeedDone` (stdin), then the loop
of `wait_with_timeout`: `ReadSome`/`ReadDone` (`read_available`), `TryReap` with
`Finalize`, `CheckExpiry`, `CheckGrace`, and `DropChild` on error. The child is
any program; a read or write it has entered blocks it. Time is two flags.
stdout stands for both output pipes. Initially the caller is chosen: `run` with a
wall-time limit (`limited`), the unlimited wait of `Child::wait_with_output`, or
`Child::wait_async` (`async`), which runs the loop of `wait_with_timeout_async`
without pipes: `OpenPidfd`, and `AwaitReturns` or `Cancel` at its await.

**`CgroupLimits`** — `configure_cgroup` step by step for concurrent sandboxes:
probe, enable controllers at the top, make the shared parent, enable them there,
make the own directory, set memory, cpu and pids, attach. Root and delegated
mode have the same steps and differ in `RootlessMemory` and `CanMakeDir`.
`MayFail` selects the operations the kernel may refuse.

**`ChildHandle`** — `Child` and `DetachedChild` over a small set of pids that
the kernel gives again once reaped, also to processes outside the host. `Drop`
is a chain of steps (`DropKills`, `DropReaps` or `DropGivesUp`, `CleanupKills`,
`CleanupRemoves`) that other threads interleave with. Two flags are chosen
initially: `delegated`, the cgroup strategy, and `careful`, whether callers leave
a `Child` alone (but for dropping it) once `try_wait` has given its status.

**`SeccompFilter`** — `SeccompFilterBuilder` call by call, from each preset;
`Build` (sort, dedup, validation of exit, the table of jumps with its relative
distances, the 8-bit field), `SetNoNewPrivs` and `LoadFilter`, and the kernel
that executes the program one instruction at a time. `wanted` keeps what the
calls asked for, the reference the program is compared with.

**`DynamicMounts`** — `MountHandle` and `DynamicMount` on one path of the
sandbox, for several threads. `stack` is the kernel's stack of mounts there;
system calls work on its top. A helper enters the namespaces, mounts, remounts
read-only, rolls back, reports one byte, and may fail at each step or be killed
between two. `spoiled` says that an operation ended with its effect unknown to
the caller (helper killed after it had changed a mount, failed rollback, failed
drop, helper reaped by others); the properties of the mounts speak of the rest.

**`MountView`** — a view gives every path of a small tree the object visible
there, the flags of its mount and the mount itself, named by its mountpoint and
the call that made it. `HostMounts` are the places on which the host has a mount
of its own: a bind of a directory above one carries it along. A `Remount` changes
one mount, with or without `MS_REC`, as the kernel does. `BindRec`, `Remount`,
`MountFresh` and `Pivoted` are what the kernel's calls do to a view;
`RemountFlags` and `Remounts` are the flags `mount/ops.rs` asks for. A path is a
file or a directory: `CanCreate` and the mount calls refuse one on the other.

**`LandlockRules`** — `prepare_landlock` and `build_ruleset` as functions of a
decision and the kernel's ABI: baseline, `legal_mask`, missing paths, the first
rule of a path wins. A rule names the object its path led to in the parent.

**`ChildConfinement`** — composes both with the child between clone and exec.
In the pipeline `spawn` the steps are those of `exec_sandboxed`
(`MakeMountsPrivate`, `BindRootfs`, `BindMount`, `MountTmpfs`, `ApplyProcfs`,
`EnterRootfs`, `InstallSeccomp`, `RunHook`, `Exec`), in the pipeline `pre_exec`
a caller composes the primitives of `mount/child.rs` in any order. `MayMount`,
`ReachesHost`, `TakesIdMaps` and `MayRestrict` are the kernel's checks. The lists
of the configuration are chosen as the loops over them go, and `log` keeps them,
the reference the view is compared with.

**`KillTree`** — `Child::kill`: the rounds of `kill_tree` (`StartWalk`,
`CollectNext`, `SignalNext`), one children file and one signal a step, or
`kill_all` with `cgroup.kill` or the freezer (`WriteKillFile`, `Snapshot`,
`Thaw`). Meanwhile processes fork in any thread, exit, die and are reparented,
with and without a PID namespace. `side` are the processes that are listed under
another thread than the main one, which the walk does not read. `stray` is
history: orphans, forks behind the walk or the snapshot, and the processes that
were forked by another thread.

**`ProxyNetwork`** — `ProxiedNetwork::setup` with the port race, the accept loop,
and the task of each connection: head, `is_allowed`, lookup and connect under
`CONNECT_TIMEOUT`, forwarding, transfer under `TRANSFER_TIMEOUT`. `resolving` are
the lookups that run in the blocking pool whether or not their task still lives.

**`ChildTeardown`** — composes the two with the handle: kill, wait, detach, drop,
reap and abandon, and the drop of the fields in their order (cgroup, proxy).

The `MC*` modules add symmetry sets and the values of constants that a cfg cannot
write: the tree and the configurations of `ChildConfinement`, the requests of
`ChildTeardown`. Definitions named in comments as mutants
are plausible bugs; each is shown to break a property.

## Runs

| Run | Instance | Shows |
|---|---|---|
| `spawn_safety` | 2 spawns, signals, EINTR, read errors | `ConfinedBeforeSetup`, `FailedSpawnLeavesNothing`, `SetupFailureNeverMissed`, `NothingRunsAfterError`, and the inductive invariant `IndInv` |
| `spawn_returns` | 2 spawns holding each other's pipes, one with a hook that may hang, and a host that may crash | `SpawnReturns`: every `run_prepared` returns, or a hook holds it; `OrphanExits`; refinement of `SandboxLifecycle` |
| `run_waits` | stdin 2, output 3, pipe 2 units, with and without limit, and asynchronous | `CollectsEverything`, `TimeoutIsReported`, `LimitEndsRun`, `DeathEndsWait`, `BlockedWriterGoesOn`, and the inductive invariant `RunInv`, which also says that an error or a cancelled wait leaves no child that runs on |
| `limits_concurrent` | 2 sandboxes, every plan over 3 limits, no cpu controller, every failure | `StrictNeverDegraded`, `RootlessMemoryInForce`, `DiagnosticsHonest`, `NoOrphanCgroup`, `NeighboursDoNoHarm` |
| `handles` | 2 handles, 2 pids, both strategies, careful and careless callers | for careful callers in delegated mode (`Disciplined`) `StatusIsOwn`, `DetachSurvives` and `HandleInv` (only the own child is signalled, no two live handles share a cgroup); for all `GoneNeverRuns`, `NoSilentLeak`, `DropEnds` |
| `seccomp` | 5 numbers, jumps of at most 4, 2 builder calls after each preset | `FilterMeansRules` (no evaluation leaves the program, every verdict is the one asked for), `RefusedWithReason` |
| `mounts` | 2 threads on one path, or 1 alone; every step may fail, every helper may be killed | `MountsBalanced`, `PermissionApplied`, `ErrorNamesCause`, `OperationEnds` |
| `confinement` | 9 paths, 3 of them mounts of the host, 5 operations, 4 mounts (one of a file on a directory), 3 binds (one with a recursive remount), 2 overlays, 2 decisions, ABI 0, 2, 3, 6, root or not, every rootfs mode | `ViewMeansConfig` (overlays hide, read-only holds for its own mount, nested mounts stay writable, a rootfs confines), `DomainMeansDecision` (rules stay with the parent's objects), `AbortHasCause` (why setup may end early; a custom `old_root` is among the reasons), `HostUntouched` |
| `teardown` | 3 processes, 2 rounds, 1 connection, all three ways to kill, with and without a PID namespace | `EscapeHasCause` (who may survive a kill), `TunnelsCut`, `RequestEnds`, `DropReturns` |

Three runs expect a violation: what the code does there contradicts a comment or
a doc. Each is a finding in `PROJECT.json`.

| Run | What happens |
|---|---|
| `spawn_ok_without_setup` | a child killed during setup leaves the same EOF as a committed one: the spawn returns Ok |
| `run_feed_hangs` | `run` blocks in writing stdin larger than the pipe, before the limit's timer starts |
| `handle_foreign_killed` | `kill` after `try_wait` signals whoever has the pid now |

Four more findings are established by passing runs. There a part of the checked
property states what the code does, contrary to what is documented, and a mutant
with the documented behaviour violates it; the theorem on the property
establishes the same for every value of the constants.

| Run, property | Documented | What the code does |
|---|---|---|
| `confinement`, `ViewMeansConfig` (`NestedStayWritable`) | `mount/child.rs:147-149` and `155`: `RemountRecursion::Recursive` makes every nested mount read-only too | the remount with `MS_REC` reaches the one mount at the target: a mount of the host or a writable bind below it stays writable (mutant `RemountTree`) |
| `confinement`, `DomainMeansDecision` (`CoveredRulesLapse`) | `mount/child.rs:31-34`: landlock resolves rules against the post-overlay, post-mount view | `landlock/mod.rs:271` opens the paths in the parent: a rule on a path that an overlay covers grants nothing there (mutant `PermittedByName`) |
| `confinement`, `AbortHasCause` (`CustomOldRoot`) | `config/filesystem.rs:104-105`: `old_root` customizes where the old root goes | `pivot_into` detaches the literal `/old_root` (`mount/ops.rs:222-235`): with another `old_root` no target ever starts (mutant `EnterAnyRootfs`) |
| `teardown`, `EscapeHasCause` (`OtherThreadsMissed`) | `process/kill.rs:5-7`: the whole descendant tree, by `task/<tid>/children` | line 20 reads `task/<pid>/children`: a child listed under another thread is never signalled by the walk (mutant `CollectAllThreads`) |

The models also show these, for which no run is kept:

- the error pipe may reach EOF later than the commit, while a child of another
  thread holds a copy (`SpawnReturns` shows that it does come);
- two children of concurrent spawns that inherited each other's write end of the
  ready pipe keep each other at the barrier when the host dies (`OrphanExits`
  leaves out exactly the ends that other sandboxes' children hold);
- a child that exits between `try_reap` and the expiry check is reported as
  killed by the timeout; a second `try_wait` after the exit answers ECHILD;
- in root mode a new sandbox joins the cgroup directory of an undropped handle
  whose reaped child had the same pid (`HandleInv` speaks of the delegated mode);
- two handles that share a target are not independent: a remount, a rollback or
  an unmount works on the topmost mount, whoever made it, so that a read-only
  mount may stay writable below another one. `PermissionApplied` is therefore
  about targets with one user, `MountsBalanced` about all;
- the stdin pipe is made without `O_CLOEXEC` (`stdio.rs:149`): a program of
  another sandbox that inherited the write end keeps EOF from this one;
- a connection may reach another process of the host: the port is free between
  `find_free_port` and the bind of the server, whose failure only is logged;
- the drop of a handle waits for a lookup that is running in the blocking pool,
  however long the resolver takes (`DropReturns` assumes that it returns);
- a root caller without a mount namespace makes the mounts of the host private
  (`HostUntouched` excepts it);
- landlock also governs the writes to `/proc/self` of `install_user_mount_ns`: a
  namespace asked for after the domain is in force fails unless the domain makes
  `/proc` writable (`ProcFilesWritable`);
- a helper killed between attaching a read-only mount and the remount leaves it
  read-write, and `add_mount` reports only that it has no status.

Read in the code, and outside the models: `is_allowed` compares a wildcard as a
plain suffix, without the dot its comment shows (`proxy.rs:337`);
`TRANSFER_TIMEOUT` is called idle and bounds the whole transfer; a plain HTTP
request is forwarded without its body, and its head without a timeout
(`RequestEnds` excepts it); a client that never completes its head keeps a task
(no property speaks of that); `wait_async` of a proxied child drops a tokio
runtime in an async context.

### Bounds

Two spawns are enough for a child to hold another spawn's ends in both
directions; a third adds holders of the same kind. Every stage may fail in
`spawn_safety`; in `spawn_returns` one stands for them, since a failure frame
differs only in its tag. Pipe capacities of one and
two units are below the amounts written, so that both ends block. Two handles
over two pids recycle a pid while the other handle is live. Plans have every mix
of unrequested, strict and best-effort limits. Output is bounded (`OutLen`), so
a `read_available` loop always ends: a program that never lets its pipe run dry
is outside the model. A largest jump of 4 stands for 255: with 5 numbers a
builder can have one rule more than fits, and `MaxOps` calls suffice to add a
rule, override it and remove it. Nothing is added to a spoiled mount target. In `confinement` five operations
(`MaxOps`) are a namespace, a carve-out, its parent, landlock and seccomp, or
the rootfs and four mounts; the tree has a directory with a subdirectory and a
file, `/proc`, and a rootfs with mountpoints for them, so that every operation
can be nested in, cover or precede another. The subdirectory and `/proc` are
mounts of the host, so that a read-only bind of the directory, and a recursive one
of `/`, meet a nested mount that no operation made. The mounts of the host have no
flags of their own, and the tree has no `old_root`, so no configured mount can
happen to lie there. In `teardown` three processes make a
chain or two siblings, so that a grandchild, an orphan and a fork behind the walk
occur; two rounds instead of five (`Rounds`) leave a first one that can miss and
a last one that can; a second connection would meet the first nowhere but in the
lookups. Polling budgets (100 polls, 20 polls, the grace period) are
"may end at any time while the child lives". Sandboxes and handles are
symmetric; symmetry is used only in runs without liveness.

### Fairness

Host threads that can take a step of a library call do (weak fairness); they are
threads of a live process. System calls that can return do, and clocks advance.
Nothing is assumed of the target program or of callers between calls. A pending
SIGKILL may stay pending forever (D-state) in `OneShotRun` and `ChildHandle`,
whose properties are about exactly that; in `SpawnProtocol` it is delivered. The
setup stages of a child are fair, as the comment at `protocol.rs:409` assumes of
its bounded kernel calls, except the hooks in `HangingHooks`. Faults are never
fair. In `ChildTeardown` the owner's thread inside a call, the proxy's tasks, the
two timers and `getaddrinfo` are fair; nothing is assumed of the sandbox, of
remotes (a forwarded head may never be taken), of the owner's decisions, or of
the delivery of SIGKILL. `ChildConfinement` has no liveness: it is one thread
whose steps end in exec or an abort.

`CHECK_DEADLOCK FALSE` is set because a spawn, a run, a handle, a refused filter or
a sandbox whose child is gone really ends.

## Proofs

All for every value of the constants, from the assumptions named in the modules.

`SpawnProtocolProofs` (any number of concurrent spawns): `SpawnInvariant` proves
`IndInv`, which ties the parent's program counter to the child's, the pipe
contents and the cgroup; the properties alone are not inductive, since whether
an error path is clean depends on how far the child can have got, which only the
ready pipe decides. A locality lemma (a step of one sandbox leaves what `IndInv`
says of another) reduces each action to its own sandbox. From `IndInv`:
`SpawnConfines`, `SpawnFailureIsClean`, `SpawnReportsFailures`,
`SpawnErrorIsFinal`, and `SpawnRefinesLifecycle`, the safety refinement.

`OneShotRunProofs` (any lengths and capacities, with or without limit):
`RunInvariant` proves `RunInv` — output is conserved between pipe and buffer,
only an expired limit or a dropped `Child` makes the host kill, and an error or a
cancelled wait leaves no child that runs on — and from it `RunCollectsEverything`
and `RunReportsTimeout`.

`CgroupLimitsProofs` (any number of sandboxes below one parent cgroup, any
offered controllers, any set of failures): `LimitsInvariant` proves `LimitsInv`.
The properties speak of finished calls only; the invariant says, for each place
`configure_cgroup` can be at, that the limits it has passed are written or
reported and then dispensable (`SandboxInv`), and that a sandbox whose own steps
did not fail still finds its controllers enabled (`UnharmedInv`). The argument is
again local: a step of one sandbox lets the shared cgroups only gain controllers
(`Grows`) and leaves the others alone (`Spared`). From it: `StrictHolds`,
`RootlessMemoryHolds`, `DiagnosticsHold`, `NoOrphans`, `NeighboursHarmless`.

`ChildHandleProofs` (any number of handles and pids): `HandlesKeepInv` proves
`HandleInv`, whose parts say which handle a process belongs to (`PidInv`), that a
`Drop` has killed before it polls (`DropInv`), and for disciplined callers that a
handle that has not reaped still has its pid and that no two share a cgroup
directory (`OwnerInv`). `OnlyOwnKilled` alone is not inductive: whether the next
`kill` is harmless depends on whose pid it is now. From it: `GoneChildIsDead`,
`DisciplinedKillOwn`, `StatusBelongsToChild`, `DirectoriesHaveOwners`,
`DetachedChildSurvives`. `DisciplinedKillOwn` is the positive side of the finding
of `handle_foreign_killed`: the two flags of `Disciplined` are all it takes.

`DynamicMountsProofs` (any finite number of threads, any errnos from 1 to 253,
`MountAssumption`: `encode_errno` asserts that range and clamps what is outside,
since 0 and 1 are the status byte's own codes): `MountsKeepInv`
proves an invariant that says, at every step of a helper, what it has done
(`OpInv`), how many mounts the target has (`CountInv`), which one a single user
finds (`AloneInv`) and which failure the byte will name (`ByteInv`). From it:
`OneMountPerHandle`, `PermissionHolds`, `ErrorIsCause`.

`ChildTeardownProofs` (any number of processes, rounds, connections, requests):
`ProxyEndsWithHandle` from `ProxyInv`, which says that only the drop stops the
runtime and that a stopped one has no task. `KillMissesStraysOnly` from
`KillInv`: in a walk, a running process that there is no reason to miss is found
already, or has a running parent whose children are still to be read (`WalkInv`);
with the freezer, whoever runs is a stray or in the snapshot (`FreezeInv`). The
property speaks only of a kill that has returned, so everything in between is in
the invariant. `ThreadInv`, for the other part of the property, says that a child
of another thread is in no list of the walk and carries no SIGKILL: it was unborn
when the walk read its parent, and only what is found is signalled.

`ChildConfinementProofs` (any tree of paths that is closed under parents, any
mounts of the host in it, any binds, overlays, decisions, kernels and number of
operations):
`ConfinementKeepsInv` proves `ConfInv`, which says what the log implies of the
process (what is loaded, in which namespaces it is, what still propagates) and of
the view: what no mount covers is the host's, a mountpoint is above what is seen
of its mount, nothing is below a file. From it: `HostStaysUntouched`,
`AbortsHaveCauses`, and `DomainIsDecision`, which also needs what
`prepare_landlock` computes from a list: the rule of a path is the one of its
first occurrence (`AddedRules`, `PreparedRules`). `AbortsHaveCauses` needs
`CustomInv` beside the invariant: no step after `pivot_into` is reached with a
custom `old_root`. `HostMountAbove` gives every path a lowest mount of the host,
the base of what a mountpoint is at the start. The lemmas about paths
(`BelowOrder`, `MovedOrder`, `MovedBack`) are the algebra of nested binds.

`ChildConfinementProofs` also has `ViewIsConfig`, which proves `ViewMeansConfig`.
The invariant `MeansInv` states its four parts for every path at every step, not
only for what a finished target can reach, and adds what they need: the kinds of
mounts the log can hold (`LogInv`), that an uncovered path belongs to the host's
mount (`FirstMount`), and that a nested writable mount, the host's or a caller's,
is still its own mount below the later binds of its parents (`Carved`), which is
why a remount of a parent passes it by, recursive or not. A mount of either
kind is summarised by what it may do to a view (`MountResult`), so that each part
is proved once for all mount calls; `pivot_root` only renames (`PivotShows`).

`SeccompFilterProofs` (any presets and numbers, any sequence of builder calls, any
width of a jump): `FilterKeepsInv` proves `SeccompInv`. Its parts: the last rule of
each number in the builder's list is what was asked of it (`Tells`, in
`BuilderInv`); the program of an accepted filter is the compiled table, whose
jumps lose nothing when they are encoded (`ProgramInv`); and at each instruction
an evaluation knows what it has ruled out (`EvalInv`): past the n-th comparison
none of the first n rules is about the call, at a return the rule of that return
is. `FilterMeansRules` alone says nothing of an evaluation under way. Below it:

- `ListedInOrder`: listing a finite set by rank in a strict order has every element
  once, in order. From it that `sort_by_key` is stable (`SortIsStable`) and that
  reversal, dedup and reversal keep the rule inserted last (`DedupedTable`).
- `WalkIsUpwards`: the inorder walk of the balanced tree visits the rules in their
  order. The library's induction theorems cannot be used (they take an operator),
  so the proof takes a shortest range on which a walk differed, which
  well-foundedness of the numbers gives (`WFMin`, a fact about a set), and a range
  within it is shorter still.
- `CompiledShape`: hence every node of a table of n rules jumps exactly n
  instructions. `FitsWhenJumpsReach`: with n at most `MaxJump` the program fits and
  `Encode` is the identity on it; the test against `MaxInsns` never decides.

From the invariant: `ProgramMeansRules`, `RefusalsHaveReasons`, `ChildCanExit`
(what `build` promises in its error message, for the verdicts of the program and
not only for the table it validates), and `EvaluationsAdvance` (no jump leads
back, so an evaluation ends within the length of the program).
`SeccompAssumption` asks that a program whose jumps fit be no longer than
`MaxInsns` (2 * 255 + 6 against 4096 in the code).

The proofs changed the model in four places. `SeccompFilter` writes the stable
sort, the dedup and `remove` as lists of positions by rank, and the tree walk as a
recursive function on ranges, where it had used library operators that the provers
cannot unfold; the states of the run stayed the same. Nothing had kept a mount of a file
on a directory from succeeding, and `FileInv` was not inductive: the mount calls
now check the kind, and `AbortHasCause` names it (`Mismatched`). `ReadOnlyHolds`
had said that a writable place below a read-only bind has its mountpoint in the
source; with chained binds that is false, as the copy of a nested mount has its
mountpoint in the target: it now says that the place was covered in the source by
an earlier operation, or by a mount of the host. And constants whose values the code restricts got
assumptions (`PathsAssumption`, `ConfinementAssumption`, `MountAssumption`,
`KillAssumption`).

Only model-checked: everything under fairness (`SpawnReturns`,
`OrphanExits`, `LimitEndsRun`, `DeathEndsWait`, `BlockedWriterGoesOn`,
`DropEnds`, `OperationEnds`, `RequestEnds`, `DropReturns`), which is out of the
prover's reach. Every invariant and every action property that a run checks is
also a theorem.

## Not modelled

The contents of uid and gid maps (`namespace.rs`) and of messages; hostname,
working directory and rlimits, which are steps of `SetupStep`; fd numbers in the
`dup2` calls of the child; statistics and metrics, which only read; the walk to
a usable cgroup base (`cgroup/strategy.rs`), whose outcome is an input of
`CgroupLimits`; the syscall lists of the seccomp presets, which are data; builders
and the facade, which set fields and delegate; HTTP parsing, where a head is
well-formed or not. `components` in `PROJECT.json` gives the reason for each.

## Plan

What is left, in this order:

1. `CgroupBase`: detection of a usable delegated base while other processes
   populate it.
2. Endless output in `OneShotRun` (`read_available` against a writer that is never
   slower), which needs a model without `OutLen`.
