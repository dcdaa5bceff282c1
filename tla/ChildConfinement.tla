--------------------------- MODULE ChildConfinement ---------------------------
(***************************************************************************)
(* The child between clone and exec, as far as its file system is          *)
(* concerned: the mounts of mount/ops.rs in the order of exec_sandboxed    *)
(* (process/child_setup.rs), the primitives of mount/child.rs in whatever  *)
(* order a caller's pre_exec composes them, the seccomp filter and the     *)
(* landlock domain that the parent prepared.  The lists of the             *)
(* configuration are chosen as the loops over them go.                     *)
(***************************************************************************)
EXTENDS LandlockRules, FiniteSets

CONSTANTS
  Mounts,      \* FilesystemConfig::mounts to choose from: source, target, perm
  Binds,       \* prepare_bind calls to choose from: target, perm, deep
  Overlays,    \* targets of tmpfs overlays
  Decisions,   \* landlock decisions to choose from
  ProcDir,     \* /proc
  MaxOps       \* bound on the mounts and on the composed primitives

ASSUME ConfinementAssumption ==
  /\ \A m \in Mounts : m.source \in Paths /\ m.target \in Paths /\ m.perm \in Permissions
  /\ \A b \in Binds : b.target \in Paths \ Files /\ b.perm \in Permissions /\ b.deep \in BOOLEAN
  /\ \A d \in Decisions :
       /\ d.writable \in Seq(Paths \cup Missing)
       /\ \/ d.read.kind = "Broad"
          \/ d.read.kind = "Narrow" /\ d.read.paths \in Seq(Paths \cup Missing)
  /\ Overlays \cup {ProcDir} \subseteq Paths \ Files /\ MaxOps \in Nat

VARIABLES
  pipeline,  \* "spawn" (exec_sandboxed) or "pre_exec" (the caller's own)
  stage,     \* the next step of the pipeline, or how it ended
  root,      \* the caller is root on the host
  user,      \* the child is in a user namespace of its own,
  mnt,       \* and in a mount namespace of its own
  rootfs,    \* "none", "pivot", "pivot_custom" or "chroot"
  profile,   \* the filter: "none", "Standard", or one without landlock
  filtered,  \* the filter is loaded
  hook,      \* landlock is asked for
  decision,
  ruleset,   \* PreparedLandlock
  domain,    \* the rules in force, once restricted
  restricted,
  view,      \* what the child sees
  base,      \* the root directory that chroot set
  shared,    \* mounts propagate to the namespace they were copied from
  touched,   \* the mounts of the host have changed
  log,       \* the operations so far
  faulty     \* a system call failed for a reason outside this model: no memory,
             \* no space, a proc of a PID namespace that is not the child's

config == <<pipeline, root, rootfs, profile, hook, decision, ruleset>>
vars == <<config, stage, user, mnt, filtered, domain, restricted, view, base,
          shared, touched, log, faulty>>

Ended == {"Target", "Aborted", "Refused"}

Op(kind, source, target, perm, deep) ==
  [kind |-> kind, source |-> source, target |-> target, perm |-> perm, deep |-> deep]

ReadWrite == [kind |-> "ReadWrite", flags |-> {}]

(* prepare_landlock runs in the parent, before there is a child.           *)
Init ==
  /\ pipeline \in {"spawn", "pre_exec"} /\ root \in BOOLEAN
  /\ profile \in {"none", "Standard", "NoLandlock"}
  /\ hook \in BOOLEAN
  /\ decision \in IF hook THEN Decisions ELSE {[read |-> [kind |-> "Broad"], writable |-> <<>>]}
  /\ ruleset \in IF hook THEN {prepare_landlock(decision, k) : k \in KernelABIs}
                 ELSE {NoRuleset("not asked")}
  /\ IF pipeline = "spawn"
     THEN /\ user \in BOOLEAN /\ mnt \in BOOLEAN
          /\ rootfs \in {"none", "pivot", "pivot_custom", "chroot"}
     ELSE user = FALSE /\ mnt = FALSE /\ rootfs = "none"
  /\ stage = IF hook /\ ~ruleset.ok THEN "Refused"
             ELSE IF pipeline = "spawn" THEN "Private" ELSE "Compose"
  /\ filtered = FALSE /\ restricted = FALSE /\ domain = {}
  /\ view = HostView /\ base = <<>>
  /\ shared = TRUE /\ touched = FALSE /\ log = <<>> /\ faulty = FALSE

-----------------------------------------------------------------------------
(* The kernel, external                                                    *)

(* CAP_SYS_ADMIN over the mount namespace, and neither the domain nor the  *)
(* filter in the way.                                                      *)
MayMount == (IF user THEN mnt ELSE root) /\ ~restricted /\ ~filtered

(* Mounts of a namespace that a new user namespace owns are slaves.        *)
ReachesHost == ~mnt \/ (shared /\ ~user)

(* Mutant: rules apply to what is at their path after the mounts.          *)
PermittedByName(n) ==
  UNION {r.mask : r \in {d \in domain : \E q \in Above(n) : q = d.path}}

(* The landlock walk: a right is permitted if a rule on the way has it.    *)
Permitted(n) ==
  UNION {r.mask : r \in {d \in domain : \E q \in Above(n) :
                           view[q].fs = "host" /\ view[q].path = d.path}}

(* The steps that follow leave the process as it is in these.              *)
UnchangedProcess ==
  UNCHANGED <<config, user, mnt, filtered, domain, restricted, base, shared>>

(* A step that the kernel refuses, or that fails although it need not.     *)
Abort(accepted, op) ==
  /\ stage' = "Aborted" /\ faulty' = accepted /\ log' = Append(log, op)
  /\ UnchangedProcess /\ UNCHANGED <<view, touched>>

Succeed(v, op, next) ==
  /\ view' = v /\ touched' = (touched \/ ReachesHost)
  /\ log' = Append(log, op) /\ stage' = next /\ UNCHANGED faulty
  /\ UnchangedProcess

MountCall(accepted, v, op, next) ==
  \/ MayMount /\ accepted /\ Succeed(v, op, next)
  \/ Abort(MayMount /\ accepted, op)

(* The bind is in place and the remount fails.                             *)
AbortBound(v, op) ==
  /\ MayMount
  /\ stage' = "Aborted" /\ faulty' = TRUE /\ log' = Append(log, op)
  /\ view' = v /\ touched' = (touched \/ ReachesHost)
  /\ UnchangedProcess

-----------------------------------------------------------------------------
(* mount/ops.rs, in the order of exec_sandboxed                            *)

Call == Len(log) + 1

(* A target of the configuration is looked up in the rootfs.               *)
Joined(p) == IF rootfs = "none" THEN p ELSE Rootfs \o p

(* Mutant: the mounts keep propagating.                                    *)
MakeMountsSlave ==
  /\ stage = "Private"
  /\ \/ /\ MayMount
        /\ touched' = (touched \/ ~mnt)
        /\ stage' = IF rootfs = "none" THEN "Binds" ELSE "RootBind"
        /\ UNCHANGED <<config, user, mnt, filtered, domain, restricted, view, base,
                       shared, log, faulty>>
     \/ Abort(MayMount, Op("private", <<>>, <<>>, ReadWrite, FALSE))

(* make_mounts_private, which without a mount namespace acts on the host   *)
MakeMountsPrivate ==
  /\ stage = "Private"
  /\ \/ /\ MayMount
        /\ shared' = FALSE /\ touched' = (touched \/ ~mnt)
        /\ stage' = IF rootfs = "none" THEN "Binds" ELSE "RootBind"
        /\ UNCHANGED <<config, user, mnt, filtered, domain, restricted, view, base,
                       log, faulty>>
     \/ Abort(MayMount, Op("private", <<>>, <<>>, ReadWrite, FALSE))

(* bind_rootfs                                                             *)
BindRootfs ==
  /\ stage = "RootBind"
  /\ MountCall(TRUE, BindRec(view, Rootfs, Rootfs, Call),
               Op("rootfs", Rootfs, Rootfs, ReadWrite, FALSE), "Binds")

(* Self-binds and binds alike: MS_BIND | MS_REC, then the remount if the   *)
(* permission asks for one, with MS_REC if the bind is deep.               *)
BindAndRemount(accepted, op, next) ==
  LET bound == BindRec(view, op.source, op.target, Call)
  IN  IF ~Remounts(op.perm) THEN MountCall(accepted, bound, op, next)
      ELSE \/ MountCall(accepted,
                        Remount(bound, op.target, RemountFlags(op.perm), op.deep), op, next)
           \/ accepted /\ AbortBound(bound, op)

(* bind_mount for the next entry of FilesystemConfig::mounts               *)
BindMount(m) ==
  LET t == Joined(m.target)
  IN  /\ stage = "Binds" /\ Len(log) < MaxOps /\ t \in Paths
      /\ BindAndRemount(view[m.source].fs # "absent" /\ CanCreate(view, t, IsFile(view[m.source])),
                        Op("bind", m.source, t, m.perm, m.source \notin Files), "Binds")

(* mount_tmpfs for the next entry of tmpfs_mounts, after all binds         *)
MountTmpfs(p) ==
  LET t == Joined(p)
  IN  /\ stage \in {"Binds", "Tmpfs"} /\ Len(log) < MaxOps /\ t \in Paths
      /\ MountCall(CanCreate(view, t, FALSE), MountFresh(view, t, "tmpfs", {}, Call),
                   Op("tmpfs", t, t, ReadWrite, FALSE), "Tmpfs")

AfterProc == IF rootfs = "none" THEN "Seccomp" ELSE "Root"

(* apply_procfs: Remount, Hide or Leave.  The umount2 before a Remount is  *)
(* not told apart: the fresh proc hides what it would have detached.       *)
ApplyProcfs(mode) ==
  LET t == Joined(ProcDir)
  IN  /\ stage \in {"Binds", "Tmpfs"} /\ t \in Paths
      /\ CASE mode = "Leave" ->
                /\ stage' = AfterProc
                /\ UnchangedProcess /\ UNCHANGED <<view, touched, log, faulty>>
           [] OTHER ->
                LET fs == IF mode = "Hide" THEN "tmpfs" ELSE "proc"
                IN  MountCall(CanCreate(view, t, FALSE), MountFresh(view, t, fs, {}, Call),
                              Op(fs, t, t, ReadWrite, FALSE), AfterProc)

(* Mutant: the old root is detached where it was pivoted to.               *)
EnterAnyRootfs ==
  /\ stage = "Root"
  /\ \/ /\ rootfs \in {"pivot", "pivot_custom"}
        /\ MountCall(Writable(view, Rootfs), Pivoted(view),
                     Op("pivot", <<>>, Rootfs, ReadWrite, FALSE), "Seccomp")
     \/ /\ rootfs = "chroot"
        /\ \/ /\ MayMount /\ base' = Rootfs /\ stage' = "Seccomp"
              /\ UNCHANGED <<config, user, mnt, filtered, domain, restricted, view,
                             shared, touched, log, faulty>>
           \/ Abort(MayMount, Op("chroot", <<>>, Rootfs, ReadWrite, FALSE))

(* pivot_into moves the old root to where old_root asks for, but detaches  *)
(* "/old_root", which then is no mountpoint: an old_root other than the    *)
(* default always fails.  chroot_into keeps the mounts and moves the root directory.      *)
EnterRootfs ==
  /\ stage = "Root"
  /\ \/ /\ rootfs \in {"pivot", "pivot_custom"}
        /\ MountCall(rootfs = "pivot" /\ Writable(view, Rootfs), Pivoted(view),
                     Op("pivot", <<>>, Rootfs, ReadWrite, FALSE), "Seccomp")
     \/ /\ rootfs = "chroot"
        /\ \/ /\ MayMount /\ base' = Rootfs /\ stage' = "Seccomp"
              /\ UNCHANGED <<config, user, mnt, filtered, domain, restricted, view,
                             shared, touched, log, faulty>>
           \/ Abort(MayMount, Op("chroot", <<>>, Rootfs, ReadWrite, FALSE))

-----------------------------------------------------------------------------
(* Filter, domain, exec                                                    *)

LoadsFilter(next) ==
  \/ /\ filtered' = TRUE /\ stage' = next
     /\ log' = Append(log, Op("seccomp", <<>>, <<>>, ReadWrite, FALSE))
     /\ UNCHANGED <<config, user, mnt, domain, restricted, view, base, shared,
                    touched, faulty>>
  \/ Abort(TRUE, Op("seccomp", <<>>, <<>>, ReadWrite, FALSE))

(* restrict_self_raw under the filter that is in force                     *)
MayRestrict == filtered => profile = "Standard"

(* Mutant: a failed restrict_self is only logged.                          *)
RestrictOrGoOn(next) ==
  \/ /\ MayRestrict /\ restricted' = TRUE /\ domain' = ruleset.rules /\ stage' = next
     /\ log' = Append(log, Op("landlock", <<>>, <<>>, ReadWrite, FALSE))
     /\ UNCHANGED <<config, user, mnt, filtered, view, base, shared, touched, faulty>>
  \/ /\ stage' = next
     /\ log' = Append(log, Op("landlock", <<>>, <<>>, ReadWrite, FALSE))
     /\ UnchangedProcess /\ UNCHANGED <<view, touched, faulty>>

(* install_landlock                                                        *)
Restricts(next) ==
  \/ /\ MayRestrict /\ restricted' = TRUE /\ domain' = ruleset.rules /\ stage' = next
     /\ log' = Append(log, Op("landlock", <<>>, <<>>, ReadWrite, FALSE))
     /\ UNCHANGED <<config, user, mnt, filtered, view, base, shared, touched, faulty>>
  \/ Abort(MayRestrict, Op("landlock", <<>>, <<>>, ReadWrite, FALSE))

Skip(next) ==
  /\ stage' = next
  /\ UnchangedProcess /\ UNCHANGED <<view, touched, log, faulty>>

InstallSeccomp ==
  /\ stage = "Seccomp"
  /\ IF profile = "none" THEN Skip("Hook") ELSE LoadsFilter("Hook")

RunHook ==
  /\ stage = "Hook"
  /\ IF hook THEN Restricts("Exec") ELSE Skip("Exec")

Exec ==
  /\ stage = "Exec"
  /\ Skip("Target")

-----------------------------------------------------------------------------
(* mount/child.rs: a caller's pre_exec composes the primitives             *)

Composing == pipeline = "pre_exec" /\ stage = "Compose" /\ Len(log) < MaxOps

(* Mutant: gid_map before setgroups.                                       *)
GidMapFirst == <<"gid_map", "setgroups", "uid_map">>

(* The writes of install_user_mount_ns, in their order                     *)
IdMapWrites == <<"setgroups", "uid_map", "gid_map">>

(* The files of /proc/self can be opened for writing.                      *)
ProcFilesWritable ==
  /\ view[ProcDir].fs = "host" /\ view[ProcDir].path = ProcDir
  /\ "ro" \notin view[ProcDir].flags
  /\ restricted => "write" \in Permitted(ProcDir)

(* The kernel takes gid_map from the unprivileged only after setgroups, and*)
(* maps only ids that the namespace above maps: 0 after the first time.    *)
TakesIdMaps ==
  /\ ProcFilesWritable /\ ~user
  /\ root \/ \E i, j \in DOMAIN IdMapWrites :
               i < j /\ IdMapWrites[i] = "setgroups" /\ IdMapWrites[j] = "gid_map"

install_user_mount_ns ==
  /\ Composing
  /\ LET op == Op("userns", <<>>, <<>>, ReadWrite, FALSE)
     IN  \/ /\ ~filtered /\ TakesIdMaps
            /\ user' = TRUE /\ mnt' = TRUE /\ log' = Append(log, op)
            /\ UNCHANGED <<config, stage, filtered, domain, restricted, view, base,
                           shared, touched, faulty>>
         \/ Abort(~filtered /\ TakesIdMaps, op)

(* prepare_bind takes directories only.                                    *)
install_bind(b) ==
  /\ Composing
  /\ BindAndRemount(view[b.target].fs # "absent",
                    Op("bind", b.target, b.target, b.perm, b.deep), "Compose")

install_tmpfs(t, flags) ==
  /\ Composing
  /\ MountCall(view[t].fs # "absent" /\ ~IsFile(view[t]),
               MountFresh(view, t, "tmpfs", flags, Call),
               Op("tmpfs", t, t, [kind |-> "Custom", flags |-> flags], FALSE), "Compose")

(* install_mount with MS_BIND | MS_REC: one call, no remount, no check; the*)
(* kernel mounts files on files and directories on directories.            *)
install_mount(m) ==
  /\ Composing
  /\ MountCall(/\ view[m.source].fs # "absent" /\ view[m.target].fs # "absent"
               /\ IsFile(view[m.source]) <=> IsFile(view[m.target]),
               BindRec(view, m.source, m.target, Call),
               Op("raw", m.source, m.target, ReadWrite, FALSE), "Compose")

ComposeLandlock == Composing /\ hook /\ ~restricted /\ Restricts("Compose")

ComposeSeccomp ==
  Composing /\ profile # "none" /\ ~filtered /\ LoadsFilter("Compose")

(* pre_exec returns Ok once the caller has asked for all it wants.         *)
ComposeExec ==
  /\ pipeline = "pre_exec" /\ stage = "Compose"
  /\ hook => \E i \in DOMAIN log : log[i].kind = "landlock"
  /\ profile # "none" => \E i \in DOMAIN log : log[i].kind = "seccomp"
  /\ Skip("Target")

Next ==
  \/ MakeMountsPrivate \/ BindRootfs \/ EnterRootfs \/ InstallSeccomp \/ RunHook \/ Exec
  \/ \E m \in Mounts : BindMount(m) \/ install_mount(m)
  \/ \E t \in Overlays : MountTmpfs(t) \/ \E f \in SUBSET {"ro"} : install_tmpfs(t, f)
  \/ \E mode \in {"Remount", "Hide", "Leave"} : ApplyProcfs(mode)
  \/ \E b \in Binds : install_bind(b)
  \/ install_user_mount_ns \/ ComposeLandlock \/ ComposeSeccomp \/ ComposeExec

Spec == Init /\ [][Next]_vars

-----------------------------------------------------------------------------
(* What the properties below say of the operations of the log              *)
Mounting == {"rootfs", "bind", "raw", "tmpfs", "proc"}

MountsOn(i, n) == log[i].kind \in Mounting /\ Below(n, log[i].target)

(* Names of the host's tree that the target can reach, and what it sees    *)
(* there: after pivot_root the tree of the rootfs is the whole tree.       *)
Reach ==
  {n \in Paths : /\ Below(n, Joined(<<>>))
                 /\ rootfs = "pivot" => SubSeq(n, Len(Rootfs) + 1, Len(n)) \in Paths}

Seen(n) == view[IF rootfs = "pivot" THEN SubSeq(n, Len(Rootfs) + 1, Len(n)) ELSE n]

(* The target of an overlay shows nothing of the host, unless a caller's   *)
(* own sequence mounts over it later.                                      *)
OverlaysHide ==
  \A i \in DOMAIN log, n \in Reach :
    /\ log[i].kind \in {"tmpfs", "proc"} /\ MountsOn(i, n)
    /\ pipeline = "spawn" \/ \A j \in (i + 1)..Len(log) : ~MountsOn(j, n)
    => Seen(n).fs # "host"

(* Below a read-only bind only another mount is writable: a later one, or  *)
(* one nested in the source, which the host has or an earlier operation put*)
(* or copied there and which keeps its own mountpoint below the target.    *)
ReadOnlyHolds ==
  \A i \in DOMAIN log, n \in Reach :
    /\ log[i].kind = "bind" /\ MountsOn(i, n) /\ "ro" \in RemountFlags(log[i].perm)
    /\ Writable([x \in {n} |-> Seen(n)], n)
    => \/ \E j \in DOMAIN log : j > i /\ MountsOn(j, n)
       \/ /\ Below(Seen(n).at, log[i].target) /\ Seen(n).at # log[i].target
          /\ LET q == Moved(n, log[i].target, log[i].source)
             IN  \/ \E j \in 1..(i - 1) : MountsOn(j, q)
                 \/ \E m \in HostMounts :
                      Below(q, m) /\ Below(m, log[i].source) /\ m # log[i].source

SelfBind(i) == log[i].kind \in {"bind", "rootfs"} /\ log[i].source = log[i].target

(* n is a writable mount of its own: one of the host, or a directory that  *)
(* operation j bound ReadWrite on itself.                                  *)
OwnMount(n, j) ==
  IF j = 0 THEN n \in HostMounts
  ELSE /\ log[j].kind = "bind" /\ SelfBind(j)
       /\ log[j].target = n /\ log[j].perm = ReadWrite

(* The self-binds of the directories above it leave a nested mount         *)
(* writable, whatever their permissions and whether or not they ask for    *)
(* RemountRecursion::Recursive.  For NonRecursive this is the carve-out    *)
(* that mount/child.rs documents; for Recursive its documentation says the *)
(* opposite ("makes every nested mount read-only too"), and the code does  *)
(* not do it.                                                              *)
NestedStayWritable ==
  \A n \in Reach, j \in {0} \cup DOMAIN log :
    /\ OwnMount(n, j)
    /\ \A k \in DOMAIN log \ {j} :
         MountsOn(k, n) => k > j /\ SelfBind(k) /\ log[k].target # n
    => "ro" \notin Seen(n).flags

(* In a rootfs nothing of the host is seen but the rootfs and the sources  *)
(* of the configured mounts.                                               *)
RootfsConfines ==
  rootfs # "none" =>
    \A n \in Reach :
      Seen(n).fs = "host" =>
        \/ Below(Seen(n).path, Rootfs)
        \/ \E i \in DOMAIN log : log[i].kind = "bind" /\ Below(Seen(n).path, log[i].source)

(* The view with which the target starts is the one that the configuration *)
(* or the caller's sequence of primitives asks for, mount by mount:        *)
(* overlays hide, a read-only bind holds for its own mount, mounts nested  *)
(* below a bind, the host's among them, keep their own flags also when the *)
(* remount was asked to recurse, and a rootfs leaves nothing else in sight *)
(* (mount/ops.rs setup_mount_namespace, setup_bind_mounts, remount_flags,  *)
(* mount/child.rs install_bind, install_tmpfs and install_mount).          *)
ViewMeansConfig ==
  stage = "Target" => OverlaysHide /\ ReadOnlyHolds /\ NestedStayWritable /\ RootfsConfines

(* Only a caller who is root and asked for no mount namespace changes the  *)
(* mounts of the host (make_mounts_private before every other mount).      *)
HostUntouched == [][touched' /\ ~touched => root /\ ~mnt]_vars

(* What the decision grants on the objects that a walk from n passes       *)
GrantedOn(o) ==
  IF o.fs # "host" THEN {}
  ELSE IF \E i \in DOMAIN decision.writable : decision.writable[i] = o.path
       THEN FromAll(REQUIRED_ABI)
  ELSE IF decision.read.kind = "Broad" THEN IF o.path = <<>> THEN FromRead ELSE {}
  ELSE IF \E i \in DOMAIN decision.read.paths : decision.read.paths[i] = o.path
       THEN FromRead ELSE {}

(* A rule stays with the object that its path led to in the parent: under  *)
(* an overlay that covers a writable path of the decision nothing can be   *)
(* written, unless a directory above the overlay is writable as well.      *)
CoveredRulesLapse ==
  \A n \in Paths :
    /\ view[n].fs \in {"tmpfs", "proc"}
    /\ \A q \in Above(n) \ {n} : view[q].fs = "host" =>
         \A i \in DOMAIN decision.writable : decision.writable[i] # view[q].path
    => "write" \notin Permitted(n)

(* A target that asked for landlock runs in the domain of its decision,    *)
(* read as objects and not as names: whatever the order of the lists, the  *)
(* paths named twice, the files and the missing paths in them, an access is*)
(* permitted exactly if the decision grants it on the object, or on one    *)
(* above it, that the path led to when the parent prepared the rules       *)
(* (landlock/mod.rs prepare_landlock, build_ruleset with PathFd,           *)
(* install_landlock).  The order of composition in mount/child.rs is       *)
(* documented with rules that resolve against the post-mount view; they do *)
(* not, and a rule whose path an overlay covers grants nothing there.      *)
DomainMeansDecision ==
  stage = "Target" /\ hook =>
    /\ restricted /\ CoveredRulesLapse
    /\ \A n \in Paths :
         view[n].fs # "absent" =>
           LET legal == IF IsFile(view[n]) THEN FromFile(REQUIRED_ABI)
                        ELSE FromAll(REQUIRED_ABI)
           IN  legal \cap Permitted(n)
                 = legal \cap UNION {GrantedOn(view[q]) : q \in Above(n)}

(* Reasons the documented order of the primitives and the documented       *)
(* privileges exclude, for an operation after the first n                  *)
Before(kinds, n) == \E i \in 1..n : log[i].kind \in kinds

Buried(op, n) ==
  \E i \in 1..n :
    log[i].kind # "rootfs" /\ (MountsOn(i, op.source) \/ MountsOn(i, op.target))

(* A file on a directory, or a directory on a file                         *)
Mismatched(op) ==
  IF op.kind \in {"bind", "raw"} THEN (op.source \in Files) # (op.target \in Files)
  ELSE op.target \in Files

NoPrivilege == IF user THEN ~mnt ELSE ~root

Misused(op, n) ==
  CASE op.kind = "userns" -> \/ Before({"userns", "seccomp", "landlock"}, n)
                             \/ \E i \in 1..n : MountsOn(i, ProcDir)
    [] op.kind = "landlock" -> Before({"seccomp"}, n) /\ profile # "Standard"
    [] op.kind = "seccomp" -> FALSE
    [] op.kind = "pivot" -> NoPrivilege \/ Buried(op, n)
    [] OTHER -> \/ NoPrivilege \/ Before({"seccomp", "landlock"}, n)
                \/ Buried(op, n) \/ Mismatched(op)

(* A custom RootfsMode::Pivot::old_root, which config/filesystem.rs offers *)
CustomOldRoot(op) == op.kind = "pivot" /\ rootfs = "pivot_custom"

(* Setup ends early only when a system call fails by itself, when the      *)
(* caller lacks the privilege, composes the primitives out of order, mounts*)
(* what an earlier mount has covered, or a file on a directory, and in one *)
(* case that the documentation allows and the code gets wrong: with a      *)
(* custom old_root pivot_into always fails, and no target starts.  The     *)
(* parent refuses a decision only for a kernel that is too old             *)
(* (mount/child.rs install_user_mount_ns, mount/ops.rs pivot_into,         *)
(* landlock legal_mask).                                                   *)
AbortHasCause ==
  /\ stage = "Aborted" /\ ~faulty =>
       Misused(Last(log), Len(log) - 1) \/ CustomOldRoot(Last(log))
  /\ rootfs = "pivot_custom" => stage # "Target"
  /\ stage = "Refused" => ruleset.why \in {"unavailable", "abi"}
=============================================================================
