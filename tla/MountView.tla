------------------------------ MODULE MountView ------------------------------
(***************************************************************************)
(* What a process sees at each path, and what the mount system calls of    *)
(* mount/ops.rs and mount/child.rs do to it.  A view gives every path the  *)
(* object that is visible there (a host path, a fresh tmpfs or proc, or    *)
(* nothing), the flags of the mount it belongs to, and that mount itself,  *)
(* named by its mountpoint and by the call that made it.  The system calls *)
(* are the kernel's; the flags and their gate are mount/ops.rs.            *)
(***************************************************************************)
EXTENDS Integers, SequencesExt

CONSTANTS
  Paths,      \* the paths looked at, as sequences of names, "/" is <<>>
  Files,      \* the ones that are no directories
  HostMounts, \* the ones the host has something mounted on, / among them
  Rootfs      \* the directory used as rootfs

ASSUME PathsAssumption ==
  /\ Paths \subseteq Seq(STRING)
  /\ <<>> \in Paths /\ Files \subseteq Paths /\ Rootfs \in Paths \ Files
  /\ HostMounts \subseteq Paths /\ <<>> \in HostMounts
  /\ \A p \in Paths : \A k \in 0..(Len(p) - 1) : SubSeq(p, 1, k) \in Paths \ Files

(* MS_RDONLY, and MS_NOEXEC for the other three, which behave alike        *)
MountFlags == {"ro", "noexec"}

Permissions ==
  {[kind |-> "ReadOnly", flags |-> {}], [kind |-> "ReadWrite", flags |-> {}]}
    \cup [kind : {"Custom"}, flags : SUBSET MountFlags]

(* p is at or below top.                                                   *)
Below(p, top) == IsPrefix(top, p)

(* The paths that a walk from p to the root passes.                        *)
Above(p) == {q \in Paths : Below(p, q)}

(* p with the directory from replaced by the directory to                  *)
Moved(p, from, to) == to \o SubSeq(p, Len(from) + 1, Len(p))

(* The mount of the host that p belongs to: the lowest one above it        *)
HostMountOf(p) ==
  CHOOSE m \in HostMounts :
    Below(p, m) /\ \A q \in HostMounts : Below(p, q) => Below(m, q)

HostView ==
  [p \in Paths |->
     [fs |-> "host", path |-> p, flags |-> {}, at |-> HostMountOf(p), call |-> 0]]

SameMount(v, p, q) == v[p].at = v[q].at /\ v[p].call = v[q].call

-----------------------------------------------------------------------------
(* mount/ops.rs: permissions to flags                                      *)

(* permission_to_remount_flags and mount_flags_to_ms, without MS_BIND and  *)
(* MS_REMOUNT                                                              *)
RemountFlags(perm) ==
  IF perm.kind = "ReadOnly" THEN {"ro"}
  ELSE IF perm.kind = "Custom" THEN perm.flags ELSE {}

(* Mutant: only Custom asks for a remount.                                 *)
RemountsCustomOnly(perm) == perm.kind = "Custom" /\ perm.flags # {}

(* remount_flags: ReadWrite and an empty Custom ask for no remount.        *)
Remounts(perm) == perm.kind # "ReadWrite" /\ ~(perm.kind = "Custom" /\ perm.flags = {})

-----------------------------------------------------------------------------
(* mount(2), external                                                      *)

(* MS_BIND | MS_REC: the tree at source appears at target with the mounts  *)
(* nested in it, each a new mount with the flags of the one it copies.     *)
BindRec(v, source, target, call) ==
  [p \in Paths |->
     IF ~Below(p, target) THEN v[p]
     ELSE LET q == Moved(p, target, source)
          IN  IF q \notin Paths
              THEN [v[source] EXCEPT !.fs = "absent", !.at = target, !.call = call]
              ELSE [v[q] EXCEPT
                      !.at = IF Below(source, @) THEN target ELSE Moved(@, source, target),
                      !.call = call]]

(* Mutant: a remount with MS_REC reaches the mounts below the target.      *)
RemountTree(v, target, flags, rec) ==
  [p \in Paths |->
     IF (IF rec THEN Below(p, target) ELSE SameMount(v, p, target))
     THEN [v[p] EXCEPT !.flags = flags] ELSE v[p]]

(* MS_REMOUNT | MS_BIND replaces the flags of the one mount at target.     *)
(* MS_REC (rec) may be given with it and has no effect: the kernel knows   *)
(* it for binds and for changes of propagation only.                       *)
Remount(v, target, flags, rec) ==
  [p \in Paths |->
     IF SameMount(v, p, target) THEN [v[p] EXCEPT !.flags = flags] ELSE v[p]]

(* A fresh file system hides everything at and below its mountpoint.       *)
MountFresh(v, target, fs, flags, call) ==
  [p \in Paths |->
     IF ~Below(p, target) THEN v[p]
     ELSE [fs |-> IF p = target THEN fs ELSE "absent", path |-> target,
           flags |-> flags, at |-> target, call |-> call]]

(* pivot_root and the lazy unmount of the old root: paths are looked up in *)
(* the rootfs, and nothing else is left.                                   *)
Pivoted(v) ==
  [p \in Paths |-> LET q == Rootfs \o p
                   IN  IF q \in Paths THEN v[q] ELSE [v[Rootfs] EXCEPT !.fs = "absent"]]

IsFile(o) == o.fs = "host" /\ o.path \in Files

(* create_dir_all and File::create: a missing mountpoint is made, unless   *)
(* the file system above it is read-only; an existing one has to be of the *)
(* kind that is mounted on it.                                             *)
CanCreate(v, target, file) ==
  IF v[target].fs # "absent" THEN IsFile(v[target]) <=> file
  ELSE \E q \in Above(target) :
         /\ v[q].fs # "absent" /\ "ro" \notin v[q].flags /\ ~IsFile(v[q])
         /\ \A r \in Above(target) : Len(r) > Len(q) => v[r].fs = "absent"

Writable(v, p) == v[p].fs # "absent" /\ "ro" \notin v[p].flags
=============================================================================
