------------------------ MODULE ChildConfinementProofs ------------------------
(***************************************************************************)
(* Proofs about ChildConfinement, for any tree of paths, any lists of      *)
(* mounts, binds and overlays, any decision and any kernel: what the child *)
(* does to itself first, then what its target finds.                       *)
(***************************************************************************)
EXTENDS ChildConfinement, SequenceTheorems, NaturalsInduction, WellFoundedInduction, TLAPS

(* Paths are sequences of names.                                           *)
Names == Seq(STRING)

FlagSets == SUBSET MountFlags

FreshTypes == {"tmpfs", "proc"}

(* What a path leads to                                                    *)
Object ==
  [fs : {"host", "tmpfs", "proc", "absent"}, path : Paths, flags : FlagSets,
   at : Names, call : Nat]

ViewTypeOK(v) == v \in [Paths -> Object]

(* A mountpoint is above what is seen of its mount.                        *)
AtInv(v) == \A p \in Paths : Below(p, v[p].at)

(* Nothing is below a file.                                                *)
FileInv(v) ==
  \A q, n \in Paths : IsFile(v[q]) /\ Below(n, q) /\ n # q => v[n].fs = "absent"

(* No name above t leads to a file.                                        *)
Free(v, t) == \A q \in Paths : Below(t, q) /\ q # t => ~IsFile(v[q])

-----------------------------------------------------------------------------
(* The steps of exec_sandboxed, and those at which mounts may be made      *)
SpawnStages == {"Private", "RootBind", "Binds", "Tmpfs", "Root", "Seccomp", "Hook", "Exec"}

(* The steps after the last mount, and the target                          *)
Late == {"Seccomp", "Hook", "Exec", "Target"}

MountStages == {"Private", "RootBind", "Binds", "Tmpfs", "Root", "Compose"}

Kinds == Mounting \cup {"private", "pivot", "chroot", "userns", "seccomp", "landlock"}

OpRecord == [kind : Kinds, source : Paths, target : Paths, perm : Permissions, deep : BOOLEAN]

ConfTypeOK ==
  /\ stage \in SpawnStages \cup {"Compose"} \cup Ended
  /\ pipeline \in {"spawn", "pre_exec"}
  /\ root \in BOOLEAN /\ user \in BOOLEAN /\ mnt \in BOOLEAN /\ hook \in BOOLEAN
  /\ filtered \in BOOLEAN /\ restricted \in BOOLEAN /\ shared \in BOOLEAN
  /\ touched \in BOOLEAN /\ faulty \in BOOLEAN
  /\ log \in Seq(OpRecord)

Logged(kind) == \E i \in DOMAIN log : log[i].kind = kind

(* Past make_mounts_private nothing propagates, exec_sandboxed is neither  *)
(* filtered nor restricted while it mounts, and a pre_exec that has a      *)
(* mount namespace has a user namespace that owns it.                      *)
StageInv ==
  /\ stage \in SpawnStages => pipeline = "spawn"
  /\ stage \in SpawnStages \ {"Private"} => ~shared
  /\ stage \in MountStages \cap SpawnStages => ~filtered /\ ~restricted
  /\ stage \in {"Private", "RootBind"} => log = <<>> /\ view = HostView
  /\ stage = "Compose" => pipeline = "pre_exec" /\ (mnt => user) /\ (user => Logged("userns"))

(* The log tells what is in force.                                         *)
LoadInv ==
  stage # "Aborted" =>
    (filtered => Logged("seccomp")) /\ (restricted <=> Logged("landlock"))

(* The domain is the one that the parent prepared.                         *)
DomainInv ==
  /\ hook => /\ decision \in Decisions
             /\ \E k \in KernelABIs : ruleset = prepare_landlock(decision, k)
  /\ hook => (ruleset.ok <=> stage # "Refused")
  /\ stage = "Refused" => hook
  /\ restricted => domain = ruleset.rules
  /\ hook /\ stage \in {"Exec", "Target"} => restricted

(* What no mount has covered is still what the host has there; the bind of *)
(* the rootfs on itself covers nothing.                                    *)
OwnInv ==
  \A n \in Paths :
    (\A i \in DOMAIN log : MountsOn(i, n) => log[i].kind = "rootfs") =>
      view[n].fs = "host" /\ view[n].path = n /\ view[n].flags = {}

CallInv == \A p \in Paths : view[p].call <= Len(log)

ViewInv ==
  /\ stage \notin {"Aborted", "Refused"} => ViewTypeOK(view) /\ FileInv(view)
  /\ stage \in MountStages => AtInv(view) /\ OwnInv /\ CallInv

(* The inductive invariant                                                 *)
ConfInv ==
  /\ ConfTypeOK /\ StageInv /\ LoadInv /\ DomainInv /\ ViewInv
  /\ stage = "Aborted" /\ ~faulty =>
       Misused(Last(log), Len(log) - 1) \/ CustomOldRoot(Last(log))

-----------------------------------------------------------------------------
(* Paths                                                                   *)

(* A directory is above a path if it agrees with its beginning.            *)
LEMMA BelowMeans ==
  ASSUME NEW p \in Names, NEW t \in Names
  PROVE  Below(p, t) <=> Len(t) <= Len(p) /\ \A i \in 1..Len(t) : p[i] = t[i]
  <1> USE DEF Names
  <1>1. SubSeq(t, 1, Len(t)) = t
    BY SubSeqFull
  <1>2. ASSUME Len(t) <= Len(p)
        PROVE  /\ SubSeq(p, 1, Len(t)) \in Seq(STRING) /\ Len(SubSeq(p, 1, Len(t))) = Len(t)
               /\ \A i \in 1..Len(t) : SubSeq(p, 1, Len(t))[i] = p[i]
    BY <1>2
  <1>3. ASSUME Below(p, t) PROVE Len(t) <= Len(p) /\ \A i \in 1..Len(t) : p[i] = t[i]
    BY <1>1, <1>2, <1>3 DEF Below, IsPrefix
  <1>4. ASSUME Len(t) <= Len(p), \A i \in 1..Len(t) : p[i] = t[i] PROVE Below(p, t)
    <2>1. SubSeq(p, 1, Len(t)) = t
      BY <1>2, <1>4, SeqEqual
    <2> QED BY <1>1, <1>4, <2>1 DEF Below, IsPrefix
  <1> QED BY <1>3, <1>4

(* The directories above a path are an order, and any two of them are      *)
(* comparable.                                                             *)
LEMMA BelowOrder ==
  ASSUME NEW p \in Names, NEW q \in Names, NEW r \in Names
  PROVE  /\ Below(p, p) /\ Below(p, <<>>)
         /\ Below(p, q) /\ Below(q, r) => Below(p, r)
         /\ Below(p, q) /\ Below(q, p) => p = q
         /\ Below(p, q) /\ Below(p, r) => Below(q, r) \/ Below(r, q)
         /\ Below(p, q) /\ Below(p, r) /\ Len(q) <= Len(r) => Below(r, q)
         /\ Below(p, q) => Len(q) <= Len(p)
         /\ Below(p, q) /\ Len(p) <= Len(q) => p = q
  <1> USE DEF Names
  <1>0. <<>> \in Names /\ Len(<<>>) = 0
    OBVIOUS
  <1>1. Below(p, p) /\ Below(p, <<>>)
    <2>1. Below(p, p)
      BY BelowMeans
    <2>2. Below(p, <<>>) <=> Len(<<>>) <= Len(p) /\ \A i \in 1..Len(<<>>) : p[i] = <<>>[i]
      BY <1>0, BelowMeans
    <2>3. Len(p) \in Nat /\ 1..0 = {}
      OBVIOUS
    <2> QED BY <1>0, <2>1, <2>2, <2>3
  <1>2. Below(p, q) /\ Below(q, r) => Below(p, r)
    BY BelowMeans
  <1>3. Below(p, q) /\ Below(p, r) /\ Len(q) <= Len(r) => Below(r, q)
    BY BelowMeans
  <1>4. Below(p, q) /\ Below(p, r) /\ Len(r) <= Len(q) => Below(q, r)
    BY BelowMeans
  <1>5. Below(p, q) => Len(q) <= Len(p)
    BY BelowMeans
  <1>6. Below(p, q) /\ Len(p) <= Len(q) => p = q
    <2>1. ASSUME Below(p, q), Len(p) <= Len(q) PROVE p = q
      <3>1. Len(p) = Len(q) /\ \A i \in 1..Len(p) : p[i] = q[i]
        BY <2>1, BelowMeans
      <3> QED BY <3>1, SeqEqual
    <2> QED BY <2>1
  <1>7. Below(q, p) => Len(p) <= Len(q)
    BY BelowMeans
  <1>8. Len(q) \in Nat /\ Len(r) \in Nat
    OBVIOUS
  <1> QED BY <1>1, <1>2, <1>3, <1>4, <1>5, <1>6, <1>7, <1>8

(* What replacing a directory does to a path below it                      *)
LEMMA MovedMeans ==
  ASSUME NEW p \in Names, NEW t \in Names, NEW s \in Names, Below(p, t)
  PROVE  /\ Moved(p, t, s) \in Names
         /\ Len(Moved(p, t, s)) = Len(s) + (Len(p) - Len(t))
         /\ \A i \in 1..Len(s) : Moved(p, t, s)[i] = s[i]
         /\ \A i \in 1..(Len(p) - Len(t)) : Moved(p, t, s)[Len(s) + i] = p[Len(t) + i]
         /\ Below(Moved(p, t, s), s)
         /\ s = t => Moved(p, t, s) = p
  <1> USE DEF Names
  <1> DEFINE u == SubSeq(p, Len(t) + 1, Len(p))
  <1>1. Len(t) <= Len(p) /\ \A i \in 1..Len(t) : p[i] = t[i]
    BY BelowMeans
  <1>2. Len(t) \in Nat /\ Len(p) \in Nat /\ Len(s) \in Nat
    OBVIOUS
  <1>3. /\ u \in Seq(STRING) /\ Len(u) = Len(p) - Len(t)
        /\ \A i \in 1..(Len(p) - Len(t)) : u[i] = p[Len(t) + i]
    <2>1. \A i \in (Len(t) + 1)..Len(p) : p[i] \in STRING
      BY <1>2, ElementOfSeq
    <2>2. /\ u \in Seq(STRING)
          /\ Len(u) = IF Len(t) + 1 <= Len(p) THEN Len(p) - (Len(t) + 1) + 1 ELSE 0
          /\ \A i \in 1..(Len(p) - (Len(t) + 1) + 1) : u[i] = p[Len(t) + 1 + i - 1]
      BY <1>2, <2>1, SubSeqProperties
    <2> QED BY <1>1, <1>2, <2>2
  <1> HIDE DEF u
  <1>4. /\ s \o u \in Seq(STRING) /\ Len(s \o u) = Len(s) + Len(u)
        /\ \A i \in 1..(Len(s) + Len(u)) :
             (s \o u)[i] = IF i <= Len(s) THEN s[i] ELSE u[i - Len(s)]
    BY <1>3, ConcatProperties
  <1>5. Moved(p, t, s) = s \o u
    BY DEF Moved, u
  <1> DEFINE m == s \o u
  <1> HIDE DEF m
  <1>6. /\ m \in Seq(STRING) /\ Len(m) = Len(s) + (Len(p) - Len(t))
        /\ \A i \in 1..Len(s) : m[i] = s[i]
        /\ \A i \in 1..(Len(p) - Len(t)) : m[Len(s) + i] = p[Len(t) + i]
    BY <1>1, <1>2, <1>3, <1>4 DEF m
  <1>7. Below(m, s)
    <2>1. Len(s) <= Len(m)
      BY <1>1, <1>2, <1>6
    <2>2. m \in Names /\ \A i \in 1..Len(s) : m[i] = s[i]
      BY <1>6
    <2> QED BY <2>1, <2>2, BelowMeans, ZenonT(60)
  <1>8. ASSUME s = t PROVE m = p
    <2>1. Len(m) = Len(p)
      BY <1>2, <1>6, <1>8
    <2>2. ASSUME NEW i \in 1..Len(p) PROVE m[i] = p[i]
      <3>1. CASE i <= Len(t)
        BY <1>1, <1>2, <1>6, <1>8, <3>1
      <3>2. CASE i > Len(t)
        <4>1. i - Len(t) \in 1..(Len(p) - Len(t)) /\ Len(t) + (i - Len(t)) = i
          BY <1>2, <3>2
        <4> QED BY <1>6, <1>8, <4>1
      <3> QED BY <1>2, <3>1, <3>2
    <2> QED BY <1>6, <2>1, <2>2, SeqEqual
  <1> QED BY <1>5, <1>6, <1>7, <1>8 DEF m

(* The order below a directory is the order below its replacement.         *)
LEMMA MovedOrder ==
  ASSUME NEW p \in Names, NEW q \in Names, NEW t \in Names, NEW s \in Names,
         Below(p, t), Below(q, t)
  PROVE  /\ Below(p, q) <=> Below(Moved(p, t, s), Moved(q, t, s))
         /\ p = q <=> Moved(p, t, s) = Moved(q, t, s)
  <1> USE DEF Names
  <1> DEFINE a == Moved(p, t, s)
             b == Moved(q, t, s)
  <1> HIDE DEF a, b
  <1>1. /\ a \in Names /\ Len(a) = Len(s) + (Len(p) - Len(t))
        /\ \A i \in 1..Len(s) : a[i] = s[i]
        /\ \A i \in 1..(Len(p) - Len(t)) : a[Len(s) + i] = p[Len(t) + i]
    BY MovedMeans, ZenonT(60) DEF a
  <1>2. /\ b \in Names /\ Len(b) = Len(s) + (Len(q) - Len(t))
        /\ \A i \in 1..Len(s) : b[i] = s[i]
        /\ \A i \in 1..(Len(q) - Len(t)) : b[Len(s) + i] = q[Len(t) + i]
    BY MovedMeans, ZenonT(60) DEF b
  <1>3. Len(t) <= Len(p) /\ \A i \in 1..Len(t) : p[i] = t[i]
    BY BelowMeans
  <1>4. Len(t) <= Len(q) /\ \A i \in 1..Len(t) : q[i] = t[i]
    BY BelowMeans
  <1>5. Len(t) \in Nat /\ Len(p) \in Nat /\ Len(q) \in Nat /\ Len(s) \in Nat
    OBVIOUS
  <1>6. ASSUME Below(p, q) PROVE Below(a, b)
    <2>1. Len(q) <= Len(p) /\ \A i \in 1..Len(q) : p[i] = q[i]
      BY <1>6, BelowMeans
    <2>2. Len(b) <= Len(a)
      BY <1>1, <1>2, <1>5, <2>1
    <2>3. ASSUME NEW i \in 1..Len(b) PROVE a[i] = b[i]
      <3>1. CASE i <= Len(s)
        BY <1>1, <1>2, <1>5, <3>1
      <3>2. CASE i > Len(s)
        <4> DEFINE k == i - Len(s)
        <4>1. /\ k \in 1..(Len(q) - Len(t)) /\ k \in 1..(Len(p) - Len(t)) /\ Len(s) + k = i
              /\ Len(t) + k \in 1..Len(q)
          BY <1>2, <1>5, <2>1, <3>2
        <4> HIDE DEF k
        <4> QED BY <1>1, <1>2, <2>1, <4>1
      <3> QED BY <1>2, <1>5, <3>1, <3>2
    <2> QED BY <1>1, <1>2, <2>2, <2>3, BelowMeans
  <1>7. ASSUME Below(a, b) PROVE Below(p, q)
    <2>1. Len(b) <= Len(a) /\ \A i \in 1..Len(b) : a[i] = b[i]
      BY <1>1, <1>2, <1>7, BelowMeans
    <2>2. Len(q) <= Len(p)
      BY <1>1, <1>2, <1>5, <2>1
    <2>3. ASSUME NEW i \in 1..Len(q) PROVE p[i] = q[i]
      <3>1. CASE i <= Len(t)
        BY <1>3, <1>4, <1>5, <3>1
      <3>2. CASE i > Len(t)
        <4> DEFINE k == i - Len(t)
        <4>1. /\ k \in 1..(Len(q) - Len(t)) /\ k \in 1..(Len(p) - Len(t)) /\ Len(t) + k = i
              /\ Len(s) + k \in 1..Len(b)
          BY <1>2, <1>5, <2>2, <3>2
        <4> HIDE DEF k
        <4> QED BY <1>1, <1>2, <2>1, <4>1
      <3> QED BY <1>5, <3>1, <3>2
    <2> QED BY <2>2, <2>3, BelowMeans
  <1>8. ASSUME a = b PROVE p = q
    <2>1. Below(a, b) /\ Len(p) = Len(q)
      BY <1>1, <1>2, <1>5, <1>8, BelowOrder
    <2> QED BY <1>5, <1>7, <2>1, BelowOrder
  <1> QED BY <1>6, <1>7, <1>8 DEF a, b

(* Replacing a directory is undone by replacing it back.                   *)
LEMMA MovedBack ==
  ASSUME NEW p \in Names, NEW t \in Names, NEW s \in Names, Below(p, t)
  PROVE  Moved(Moved(p, t, s), s, t) = p
  <1> USE DEF Names
  <1> DEFINE m == Moved(p, t, s)
             r == Moved(m, s, t)
  <1>1. /\ m \in Names /\ Len(m) = Len(s) + (Len(p) - Len(t)) /\ Below(m, s)
        /\ \A i \in 1..(Len(p) - Len(t)) : m[Len(s) + i] = p[Len(t) + i]
    BY MovedMeans
  <1> HIDE DEF m
  <1>2. /\ r \in Names /\ Len(r) = Len(t) + (Len(m) - Len(s))
        /\ \A i \in 1..Len(t) : r[i] = t[i]
        /\ \A i \in 1..(Len(m) - Len(s)) : r[Len(t) + i] = m[Len(s) + i]
    BY <1>1, MovedMeans, ZenonT(60)
  <1> HIDE DEF r
  <1>3. Len(t) <= Len(p) /\ \A i \in 1..Len(t) : p[i] = t[i]
    BY BelowMeans
  <1>4. Len(t) \in Nat /\ Len(p) \in Nat /\ Len(s) \in Nat
    OBVIOUS
  <1>5. Len(r) = Len(p)
    BY <1>1, <1>2, <1>4
  <1>6. ASSUME NEW i \in 1..Len(p) PROVE r[i] = p[i]
    <2>1. CASE i <= Len(t)
      BY <1>2, <1>3, <1>4, <2>1
    <2>2. CASE i > Len(t)
      <3> DEFINE k == i - Len(t)
      <3>1. k \in 1..(Len(p) - Len(t)) /\ k \in 1..(Len(m) - Len(s)) /\ Len(t) + k = i
        BY <1>1, <1>4, <2>2
      <3> HIDE DEF k
      <3> QED BY <1>1, <1>2, <3>1
    <2> QED BY <1>4, <2>1, <2>2
  <1>7. r = p
    BY <1>2, <1>5, <1>6, SeqEqual
  <1> QED BY <1>7 DEF r, m

(* The order of paths is the order of the same paths in a directory.       *)
LEMMA JoinedOrder ==
  ASSUME NEW p \in Names, NEW q \in Names, NEW s \in Names
  PROVE  /\ s \o p \in Names /\ Below(s \o p, s)
         /\ Below(p, q) <=> Below(s \o p, s \o q)
         /\ p = q <=> s \o p = s \o q
  <1> DEFINE e == <<>>
  <1>1. e \in Names /\ Below(p, e) /\ Below(q, e) /\ Len(e) = 0
    BY BelowOrder DEF Names
  <1> HIDE DEF e
  <1>2. SubSeq(p, 1, Len(p)) = p /\ SubSeq(q, 1, Len(q)) = q
    BY SubSeqFull DEF Names
  <1>3. Moved(p, e, s) = s \o p /\ Moved(q, e, s) = s \o q
    BY <1>1, <1>2 DEF Moved
  <1>4. Moved(p, e, s) \in Names /\ Below(Moved(p, e, s), s)
    BY <1>1, MovedMeans
  <1>5. /\ Below(p, q) <=> Below(Moved(p, e, s), Moved(q, e, s))
        /\ p = q <=> Moved(p, e, s) = Moved(q, e, s)
    BY <1>1, MovedOrder
  <1> QED BY <1>3, <1>4, <1>5

(* A set of numbers has a least one.                                       *)
LEMMA FirstIndex ==
  ASSUME NEW I \in SUBSET Nat, I # {}
  PROVE  \E i \in I : \A j \in I : i <= j
  <1>1. PICK m \in I : \A k \in I : <<k, m>> \notin OpToRel(<, Nat)
    BY WFMin, NatLessThanWellFounded, Zenon
  <1>2. \A k \in I : ~(k < m)
    BY <1>1, Zenon DEF OpToRel
  <1> QED BY <1>2

-----------------------------------------------------------------------------
(* Views                                                                   *)

(* Paths are names.                                                        *)
LEMMA PathsAreNames ==
  /\ Paths \subseteq Names /\ Files \subseteq Paths
  /\ <<>> \in Paths /\ Rootfs \in Paths /\ Rootfs \notin Files
  BY PathsAssumption DEF Names

(* Every path has a lowest mount of the host above it, a mountpoint itself.*)
LEMMA HostMountAbove ==
  ASSUME NEW p \in Paths
  PROVE  /\ HostMountOf(p) \in HostMounts /\ HostMountOf(p) \in Names
         /\ Below(p, HostMountOf(p))
         /\ p \in HostMounts => HostMountOf(p) = p
  <1> DEFINE up == {m \in HostMounts : Below(p, m)}
             I == {Len(p) - Len(m) : m \in up}
  <1>1. HostMounts \subseteq Names /\ p \in Names /\ <<>> \in HostMounts
    BY PathsAreNames, PathsAssumption
  <1>2. <<>> \in up
    BY <1>1, BelowOrder
  <1>3. \A m \in up : Len(m) \in Nat /\ Len(p) \in Nat /\ Len(m) <= Len(p)
    BY <1>1, BelowOrder DEF Names
  <1>4. I \in SUBSET Nat /\ I # {}
    BY <1>2, <1>3
  <1> HIDE DEF I
  <1>5. PICK i \in I : \A j \in I : i <= j
    BY <1>4, FirstIndex
  <1>6. PICK m \in up : i = Len(p) - Len(m)
    BY DEF I
  <1>7. \A q \in up : Len(q) <= Len(m)
    <2> TAKE q \in up
    <2>1. Len(p) - Len(m) <= Len(p) - Len(q)
      BY <1>5, <1>6 DEF I
    <2> QED BY <1>3, <2>1
  <1>8. \A q \in HostMounts : Below(p, q) => Below(m, q)
    BY <1>1, <1>7, BelowOrder
  <1>9. /\ HostMountOf(p) \in HostMounts /\ Below(p, HostMountOf(p))
        /\ \A q \in HostMounts : Below(p, q) => Below(HostMountOf(p), q)
    BY <1>8 DEF HostMountOf
  <1>10. p \in HostMounts => HostMountOf(p) = p
    BY <1>1, <1>9, BelowOrder
  <1> QED BY <1>1, <1>9, <1>10

(* The host's tree before the child changes it                             *)
LEMMA HostViewOK ==
  /\ ViewTypeOK(HostView) /\ AtInv(HostView) /\ FileInv(HostView)
  /\ \A n \in Paths : /\ HostView[n].fs = "host" /\ HostView[n].path = n
                      /\ HostView[n].flags = {}
                      /\ HostView[n].at = HostMountOf(n) /\ HostView[n].call = 0
  <1>1. \A n \in Paths : /\ HostView[n].fs = "host" /\ HostView[n].path = n
                         /\ HostView[n].flags = {}
                         /\ HostView[n].at = HostMountOf(n) /\ HostView[n].call = 0
    BY DEF HostView
  <1>2. \A n \in Paths : HostMountOf(n) \in Names /\ Below(n, HostMountOf(n))
    BY HostMountAbove
  <1>3. ViewTypeOK(HostView)
    BY <1>2 DEF ViewTypeOK, Object, FlagSets, HostView
  <1>4. AtInv(HostView)
    BY <1>1, <1>2 DEF AtInv
  <1>5. ASSUME NEW q \in Paths, NEW n \in Paths, IsFile(HostView[q]), Below(n, q), n # q
        PROVE  FALSE
    <2>1. q \in Files
      BY <1>1, <1>5 DEF IsFile
    <2>2. q \in Names /\ n \in Names
      BY PathsAreNames
    <2>3. Len(q) \in Nat /\ Len(n) \in Nat /\ Len(q) < Len(n)
      BY <1>5, <2>2, BelowOrder DEF Names
    <2>4. SubSeq(n, 1, Len(q)) = q
      <3>1. SubSeq(n, 1, Len(q)) = SubSeq(q, 1, Len(q))
        BY <1>5 DEF Below, IsPrefix
      <3> QED BY <2>2, <3>1, SubSeqFull DEF Names
    <2>5. Len(q) \in 0..(Len(n) - 1)
      BY <2>3
    <2> QED BY <2>1, <2>4, <2>5, PathsAssumption
  <1>6. FileInv(HostView)
    BY <1>5 DEF FileInv
  <1> QED BY <1>1, <1>3, <1>4, <1>6

(* What a recursive bind shows                                             *)
LEMMA BindRecOK ==
  ASSUME NEW v, ViewTypeOK(v), AtInv(v), NEW s \in Paths, NEW t \in Paths, NEW c \in Nat
  PROVE  /\ ViewTypeOK(BindRec(v, s, t, c)) /\ AtInv(BindRec(v, s, t, c))
         /\ \A p \in Paths : ~Below(p, t) => BindRec(v, s, t, c)[p] = v[p]
         /\ \A p \in Paths :
              Below(p, t) =>
                /\ BindRec(v, s, t, c)[p].call = c
                /\ Moved(p, t, s) \in Paths =>
                     /\ BindRec(v, s, t, c)[p].fs = v[Moved(p, t, s)].fs
                     /\ BindRec(v, s, t, c)[p].path = v[Moved(p, t, s)].path
                     /\ BindRec(v, s, t, c)[p].flags = v[Moved(p, t, s)].flags
                /\ Moved(p, t, s) \notin Paths => BindRec(v, s, t, c)[p].fs = "absent"
  <1> DEFINE b == BindRec(v, s, t, c)
             at(q) == IF Below(s, v[q].at) THEN t ELSE Moved(v[q].at, s, t)
  <1>1. ASSUME NEW p \in Paths, ~Below(p, t) PROVE b[p] = v[p]
    BY <1>1 DEF BindRec
  <1>2. ASSUME NEW p \in Paths, Below(p, t), Moved(p, t, s) \notin Paths
        PROVE  b[p] = [v[s] EXCEPT !.fs = "absent", !.at = t, !.call = c]
    BY <1>2 DEF BindRec
  <1>3. ASSUME NEW p \in Paths, Below(p, t), Moved(p, t, s) \in Paths
        PROVE  b[p] = [v[Moved(p, t, s)] EXCEPT !.at = at(Moved(p, t, s)), !.call = c]
    BY <1>3 DEF BindRec
  <1>4. s \in Names /\ t \in Names
    BY PathsAreNames
  <1>5. ASSUME NEW p \in Paths, Below(p, t), Moved(p, t, s) \in Paths
        PROVE  at(Moved(p, t, s)) \in Names /\ Below(p, at(Moved(p, t, s)))
    <2> DEFINE q == Moved(p, t, s)
               a == v[q].at
    <2>1. p \in Names /\ q \in Names /\ Below(q, s)
      BY <1>4, <1>5, PathsAreNames, MovedMeans
    <2>2. a \in Names /\ Below(q, a)
      <3>1. v[q] \in Object
        BY <1>5 DEF ViewTypeOK
      <3> QED BY <1>5, <3>1 DEF Object, AtInv
    <2> HIDE DEF q, a
    <2>3. CASE Below(s, a)
      BY <1>4, <1>5, <2>3 DEF q, a
    <2>4. CASE ~Below(s, a)
      <3>1. Below(a, s)
        BY <1>4, <2>1, <2>2, <2>4, BelowOrder
      <3>2. Moved(a, s, t) \in Names /\ Below(Moved(q, s, t), Moved(a, s, t))
        BY <1>4, <2>1, <2>2, <3>1, MovedMeans, MovedOrder
      <3>3. Moved(q, s, t) = p
        BY <1>4, <1>5, <2>1, MovedBack DEF q
      <3> QED BY <2>4, <3>2, <3>3 DEF q, a
    <2> QED BY <2>3, <2>4
  <1> HIDE DEF at
  <1>6. ASSUME NEW p \in Paths, Below(p, t), Moved(p, t, s) \notin Paths
        PROVE  b[p] \in Object /\ b[p].at = t /\ b[p].call = c /\ b[p].fs = "absent"
    <2> DEFINE o == v[s]
               x == b[p]
    <2>1. o \in Object /\ x = [o EXCEPT !.fs = "absent", !.at = t, !.call = c]
      BY <1>2, <1>6 DEF ViewTypeOK
    <2> HIDE DEF o, x
    <2>2. x \in Object /\ x.at = t /\ x.call = c /\ x.fs = "absent"
      BY <1>4, <2>1 DEF Object
    <2> QED BY <2>2 DEF x
  <1>7. ASSUME NEW p \in Paths, Below(p, t), Moved(p, t, s) \in Paths
        PROVE  /\ b[p] \in Object /\ b[p].at = at(Moved(p, t, s)) /\ b[p].call = c
               /\ b[p].fs = v[Moved(p, t, s)].fs /\ b[p].path = v[Moved(p, t, s)].path
               /\ b[p].flags = v[Moved(p, t, s)].flags
    <2> DEFINE o == v[Moved(p, t, s)]
               x == b[p]
               a == at(Moved(p, t, s))
    <2>1. o \in Object /\ x = [o EXCEPT !.at = a, !.call = c] /\ a \in Names
      BY <1>3, <1>5, <1>7 DEF ViewTypeOK
    <2> HIDE DEF o, x, a
    <2>2. /\ x \in Object /\ x.at = a /\ x.call = c
          /\ x.fs = o.fs /\ x.path = o.path /\ x.flags = o.flags
      BY <2>1 DEF Object
    <2> QED BY <2>2 DEF x, o, a
  <1>8. b = [p \in Paths |-> b[p]]
    BY DEF BindRec
  <1> HIDE DEF b
  <1>9. ASSUME NEW p \in Paths PROVE b[p] \in Object /\ Below(p, b[p].at)
    <2>1. CASE ~Below(p, t)
      BY <1>1, <2>1 DEF ViewTypeOK, AtInv
    <2>2. CASE Below(p, t)
      BY <1>5, <1>6, <1>7, <2>2
    <2> QED BY <2>1, <2>2
  <1>10. ViewTypeOK(b) /\ AtInv(b)
    BY <1>8, <1>9 DEF ViewTypeOK, AtInv
  <1> QED BY <1>1, <1>6, <1>7, <1>10 DEF b

(* A remount changes the flags of the mount at t, whatever it is asked.    *)
LEMMA RemountOK ==
  ASSUME NEW v, ViewTypeOK(v), AtInv(v), NEW t \in Paths, NEW f \in FlagSets, NEW deep
  PROVE  /\ ViewTypeOK(Remount(v, t, f, deep)) /\ AtInv(Remount(v, t, f, deep))
         /\ \A p \in Paths :
              /\ Remount(v, t, f, deep)[p].fs = v[p].fs
              /\ Remount(v, t, f, deep)[p].path = v[p].path
              /\ Remount(v, t, f, deep)[p].at = v[p].at
              /\ Remount(v, t, f, deep)[p].call = v[p].call
              /\ Remount(v, t, f, deep)[p].flags =
                   IF SameMount(v, p, t) THEN f ELSE v[p].flags
  <1> DEFINE b == Remount(v, t, f, deep)
             hit(p) == SameMount(v, p, t)
  <1>1. b = [p \in Paths |-> IF hit(p) THEN [v[p] EXCEPT !.flags = f] ELSE v[p]]
    BY DEF Remount
  <1> HIDE DEF b, hit
  <1>2. ASSUME NEW p \in Paths
        PROVE  /\ b[p] \in Object /\ b[p].fs = v[p].fs /\ b[p].path = v[p].path
               /\ b[p].at = v[p].at /\ b[p].call = v[p].call
               /\ b[p].flags = IF hit(p) THEN f ELSE v[p].flags
    <2> DEFINE o == v[p]
               x == b[p]
    <2>1. o \in Object /\ x = IF hit(p) THEN [o EXCEPT !.flags = f] ELSE o
      BY <1>1 DEF ViewTypeOK
    <2> HIDE DEF o, x
    <2>2. /\ x \in Object /\ x.fs = o.fs /\ x.path = o.path /\ x.at = o.at /\ x.call = o.call
          /\ x.flags = IF hit(p) THEN f ELSE o.flags
      BY <2>1 DEF Object
    <2> QED BY <2>2 DEF x, o
  <1>3. ViewTypeOK(b) /\ AtInv(b)
    BY <1>1, <1>2 DEF ViewTypeOK, AtInv
  <1> QED BY <1>2, <1>3 DEF b, hit

(* A fresh file system shows nothing but its root.                         *)
LEMMA MountFreshOK ==
  ASSUME NEW v, ViewTypeOK(v), AtInv(v), NEW t \in Paths, NEW fs \in FreshTypes,
         NEW f \in FlagSets, NEW c \in Nat
  PROVE  /\ ViewTypeOK(MountFresh(v, t, fs, f, c)) /\ AtInv(MountFresh(v, t, fs, f, c))
         /\ \A p \in Paths : ~Below(p, t) => MountFresh(v, t, fs, f, c)[p] = v[p]
         /\ \A p \in Paths : Below(p, t) => /\ MountFresh(v, t, fs, f, c)[p].fs # "host"
                                            /\ MountFresh(v, t, fs, f, c)[p].flags = f
                                            /\ MountFresh(v, t, fs, f, c)[p].at = t
                                            /\ MountFresh(v, t, fs, f, c)[p].call = c
  <1> DEFINE b == MountFresh(v, t, fs, f, c)
             new(p) == [fs |-> IF p = t THEN fs ELSE "absent", path |-> t,
                        flags |-> f, at |-> t, call |-> c]
  <1>1. b = [p \in Paths |-> IF ~Below(p, t) THEN v[p] ELSE new(p)]
    BY DEF MountFresh
  <1>2. ASSUME NEW p \in Paths
        PROVE  /\ new(p) \in Object /\ new(p).fs # "host" /\ new(p).flags = f
               /\ new(p).at = t /\ new(p).call = c
    BY PathsAreNames DEF Object, FreshTypes
  <1> HIDE DEF b, new
  <1>3. ASSUME NEW p \in Paths PROVE b[p] \in Object /\ Below(p, b[p].at)
    BY <1>1, <1>2 DEF ViewTypeOK, AtInv
  <1>4. ViewTypeOK(b) /\ AtInv(b)
    BY <1>1, <1>3 DEF ViewTypeOK, AtInv
  <1> QED BY <1>1, <1>2, <1>4 DEF b

(* Nothing is mounted below a file.                                        *)
LEMMA MountpointIsFree ==
  ASSUME NEW v, ViewTypeOK(v), FileInv(v), NEW t \in Paths, NEW file,
         v[t].fs # "absent" \/ CanCreate(v, t, file)
  PROVE  Free(v, t)
  <1> SUFFICES ASSUME NEW q \in Paths, Below(t, q), q # t, IsFile(v[q]) PROVE FALSE
    BY DEF Free
  <1>1. v[t].fs = "absent" /\ v[q].fs # "absent"
    BY DEF FileInv, IsFile
  <1>2. PICK r \in Paths :
          /\ Below(t, r) /\ v[r].fs # "absent" /\ ~IsFile(v[r])
          /\ \A x \in Paths : Below(t, x) /\ Len(x) > Len(r) => v[x].fs = "absent"
    BY <1>1 DEF CanCreate, Above
  <1>3. q \in Names /\ r \in Names /\ t \in Names /\ Len(q) \in Nat /\ Len(r) \in Nat
    BY PathsAreNames DEF Names
  <1>4. Len(q) <= Len(r)
    BY <1>1, <1>2, <1>3
  <1>5. Below(r, q)
    BY <1>2, <1>3, <1>4, BelowOrder
  <1> QED BY <1>2, <1>5 DEF FileInv

(* Binds and fresh file systems put nothing below a file.                  *)
LEMMA BindRecFile ==
  ASSUME NEW v, ViewTypeOK(v), AtInv(v), FileInv(v),
         NEW s \in Paths, NEW t \in Paths, NEW c \in Nat, Free(v, t)
  PROVE  FileInv(BindRec(v, s, t, c))
  <1> DEFINE b == BindRec(v, s, t, c)
  <1>0. /\ \A p \in Paths : ~Below(p, t) => b[p] = v[p]
        /\ \A p \in Paths :
             Below(p, t) =>
               /\ Moved(p, t, s) \in Paths =>
                    b[p].fs = v[Moved(p, t, s)].fs /\ b[p].path = v[Moved(p, t, s)].path
               /\ Moved(p, t, s) \notin Paths => b[p].fs = "absent"
    BY BindRecOK
  <1> HIDE DEF b
  <1> SUFFICES ASSUME NEW q \in Paths, NEW n \in Paths, IsFile(b[q]), Below(n, q), n # q
               PROVE  b[n].fs = "absent"
    BY DEF FileInv, b
  <1>1. q \in Names /\ n \in Names /\ t \in Names /\ s \in Names
    BY PathsAreNames
  <1>2. CASE Below(q, t)
    <2>1. Below(n, t)
      BY <1>1, <1>2, BelowOrder
    <2> DEFINE q1 == Moved(q, t, s)
               n1 == Moved(n, t, s)
    <2>2. Below(n1, q1) /\ n1 # q1
      BY <1>1, <1>2, <2>1, MovedOrder
    <2> HIDE DEF q1, n1
    <2>3. q1 \in Paths /\ b[q].fs = v[q1].fs /\ b[q].path = v[q1].path
      BY <1>0, <1>2 DEF IsFile, q1
    <2>4. IsFile(v[q1])
      BY <2>3 DEF IsFile
    <2>5. CASE n1 \in Paths
      <3>1. v[n1].fs = "absent"
        BY <2>2, <2>3, <2>4, <2>5 DEF FileInv
      <3> QED BY <1>0, <2>1, <2>5, <3>1 DEF n1
    <2>6. CASE n1 \notin Paths
      BY <1>0, <2>1, <2>6 DEF n1
    <2> QED BY <2>5, <2>6
  <1>3. CASE ~Below(q, t)
    <2>1. b[q] = v[q]
      BY <1>0, <1>3
    <2>2. ~Below(n, t)
      <3>1. SUFFICES ASSUME Below(n, t) PROVE FALSE
        OBVIOUS
      <3>2. Below(t, q)
        BY <1>1, <1>3, <3>1, BelowOrder
      <3>3. q # t
        BY <1>1, <1>3, BelowOrder
      <3> QED BY <2>1, <3>2, <3>3 DEF Free
    <2> QED BY <1>0, <2>1, <2>2 DEF FileInv
  <1> QED BY <1>2, <1>3

(* Nothing comes to be below a file when a fresh filesystem is mounted.    *)
LEMMA MountFreshFile ==
  ASSUME NEW v, ViewTypeOK(v), AtInv(v), FileInv(v), NEW t \in Paths, Free(v, t),
         NEW fs \in FreshTypes, NEW f \in FlagSets, NEW c \in Nat
  PROVE  FileInv(MountFresh(v, t, fs, f, c))
  <1> DEFINE b == MountFresh(v, t, fs, f, c)
  <1>0. /\ \A p \in Paths : ~Below(p, t) => b[p] = v[p]
        /\ \A p \in Paths : Below(p, t) => b[p].fs # "host"
    BY DEF MountFresh, FreshTypes
  <1> HIDE DEF b
  <1> SUFFICES ASSUME NEW q \in Paths, NEW n \in Paths, IsFile(b[q]), Below(n, q), n # q
               PROVE  b[n].fs = "absent"
    BY DEF FileInv, b
  <1>1. q \in Names /\ n \in Names /\ t \in Names
    BY PathsAreNames
  <1>2. ~Below(q, t) /\ b[q] = v[q]
    BY <1>0 DEF IsFile
  <1>3. ~Below(n, t)
    <2>1. SUFFICES ASSUME Below(n, t) PROVE FALSE
      OBVIOUS
    <2>2. Below(t, q) /\ q # t
      BY <1>1, <1>2, <2>1, BelowOrder
    <2> QED BY <1>2, <2>2 DEF Free
  <1> QED BY <1>0, <1>2, <1>3 DEF FileInv

(* pivot_root shows the tree of the rootfs, whole.                         *)
LEMMA PivotedOK ==
  ASSUME NEW v, ViewTypeOK(v), FileInv(v)
  PROVE  ViewTypeOK(Pivoted(v)) /\ FileInv(Pivoted(v))
  <1> DEFINE b == Pivoted(v)
             o == v[Rootfs]
  <1>0. Rootfs \in Paths /\ Rootfs \in Names /\ o \in Object
    BY PathsAreNames DEF ViewTypeOK
  <1>1. b = [p \in Paths |-> IF Rootfs \o p \in Paths THEN v[Rootfs \o p]
                             ELSE [o EXCEPT !.fs = "absent"]]
    BY DEF Pivoted
  <1> HIDE DEF b, o
  <1>2. [o EXCEPT !.fs = "absent"] \in Object /\ [o EXCEPT !.fs = "absent"].fs = "absent"
    BY <1>0 DEF Object
  <1>3. \A p \in Paths : /\ Rootfs \o p \in Paths => b[p] = v[Rootfs \o p]
                         /\ Rootfs \o p \notin Paths => b[p].fs = "absent"
                         /\ b[p] \in Object
    BY <1>1, <1>2 DEF ViewTypeOK
  <1>4. ViewTypeOK(b)
    BY <1>1, <1>3 DEF ViewTypeOK
  <1>5. ASSUME NEW q \in Paths, NEW n \in Paths, IsFile(b[q]), Below(n, q), n # q
        PROVE  b[n].fs = "absent"
    <2>1. Rootfs \o q \in Paths /\ IsFile(v[Rootfs \o q])
      BY <1>3, <1>5 DEF IsFile
    <2>2. Below(Rootfs \o n, Rootfs \o q) /\ Rootfs \o n # Rootfs \o q
      BY <1>0, <1>5, PathsAreNames, JoinedOrder
    <2> QED BY <1>3, <2>1, <2>2 DEF FileInv
  <1> QED BY <1>4, <1>5 DEF FileInv, b

-----------------------------------------------------------------------------
(* The steps of the child                                                  *)

(* What a longer log says of the operations before the last                *)
LEMMA LogGrows ==
  ASSUME log \in Seq(OpRecord), NEW op \in OpRecord, log' = Append(log, op)
  PROVE  /\ log' \in Seq(OpRecord) /\ Len(log') = Len(log) + 1 /\ Last(log') = op
         /\ \A i \in 1..Len(log) : log'[i] = log[i]
         /\ log'[Len(log) + 1] = op
         /\ DOMAIN log = 1..Len(log) /\ DOMAIN log' = DOMAIN log \cup {Len(log) + 1}
         /\ Len(log) \in Nat
  <1>1. /\ Append(log, op) \in Seq(OpRecord) /\ Len(Append(log, op)) = Len(log) + 1
        /\ \A i \in 1..Len(log) : Append(log, op)[i] = log[i]
        /\ Append(log, op)[Len(log) + 1] = op
        /\ DOMAIN log = 1..Len(log) /\ DOMAIN Append(log, op) = 1..(Len(log) + 1)
        /\ Len(log) \in Nat
    OBVIOUS
  <1>2. 1..(Len(log) + 1) = 1..Len(log) \cup {Len(log) + 1}
    BY <1>1
  <1>3. Last(log') = op
    BY <1>1 DEF Last
  <1> QED BY <1>1, <1>2, <1>3

(* What is logged after one more operation.                                *)
LEMMA LoggedGrows ==
  ASSUME log \in Seq(OpRecord), NEW op \in OpRecord, log' = Append(log, op)
  PROVE  \A k : Logged(k)' <=> Logged(k) \/ op.kind = k
  BY LogGrows DEF Logged

(* The empty log is a log.                                                 *)
LEMMA EmptyLog ==
  ASSUME NEW e, e = <<>>
  PROVE  e \in Seq(OpRecord) /\ Len(e) = 0 /\ DOMAIN e = {}
  <1>1. e \in Seq(OpRecord) /\ Len(e) = 0
    BY EmptySeq
  <1>2. DOMAIN e = 1..Len(e)
    BY <1>1, LenProperties
  <1> QED BY <1>1, <1>2

(* The first state                                                         *)
LEMMA ConfInitially == Init => ConfInv
  <1> SUFFICES ASSUME Init PROVE ConfInv
    OBVIOUS
  <1> USE DEF Init
  <1>1. log = <<>> /\ Len(log) = 0 /\ DOMAIN log = {} /\ log \in Seq(OpRecord)
    BY EmptyLog
  <1>2. stage \in {"Refused", "Private", "Compose"}
    OBVIOUS
  <1>3. ConfTypeOK
    <2>1. user \in BOOLEAN /\ mnt \in BOOLEAN /\ filtered \in BOOLEAN /\ restricted \in BOOLEAN
      BY Zenon
    <2>2. shared \in BOOLEAN /\ touched \in BOOLEAN /\ faulty \in BOOLEAN
      BY Zenon
    <2> QED BY <1>1, <1>2, <2>1, <2>2 DEF ConfTypeOK, SpawnStages, Ended
  <1>4. StageInv
    <2>1. stage = "Private" => pipeline = "spawn"
      OBVIOUS
    <2>2. stage = "Compose" => pipeline = "pre_exec" /\ ~mnt /\ ~user
      OBVIOUS
    <2> QED BY <1>1, <1>2, <2>1, <2>2 DEF StageInv, SpawnStages
  <1>5. LoadInv
    BY <1>1 DEF LoadInv, Logged
  <1>6. DomainInv
    <2>1. hook => (ruleset.ok <=> stage # "Refused")
      OBVIOUS
    <2>2. stage = "Refused" => hook
      OBVIOUS
    <2>3. hook => /\ decision \in Decisions
                  /\ \E k \in KernelABIs : ruleset = prepare_landlock(decision, k)
      OBVIOUS
    <2> QED BY <1>2, <2>1, <2>2, <2>3 DEF DomainInv
  <1>7. ViewInv
    <2>1. ViewTypeOK(view) /\ AtInv(view) /\ FileInv(view)
      BY HostViewOK
    <2>2. \A n \in Paths : /\ view[n].fs = "host" /\ view[n].path = n /\ view[n].flags = {}
                           /\ view[n].call = 0
      BY HostViewOK
    <2> HIDE DEF Init
    <2>3. OwnInv
      BY <2>2 DEF OwnInv
    <2>4. CallInv
      BY <1>1, <2>2 DEF CallInv
    <2> QED BY <2>1, <2>3, <2>4 DEF ViewInv
  <1> QED BY <1>2, <1>3, <1>4, <1>5, <1>6, <1>7 DEF ConfInv

(* A step that fails has a reason that the next state still shows.         *)
LEMMA AbortStep ==
  ASSUME ConfInv, stage \notin Ended, NEW accepted \in BOOLEAN, NEW op \in OpRecord,
         Abort(accepted, op), ~accepted => Misused(op, Len(log)) \/ CustomOldRoot(op)
  PROVE  ConfInv'
  <1> USE DEF Abort, UnchangedProcess, config
  <1>1. ConfTypeOK /\ DomainInv /\ log \in Seq(OpRecord)
    BY DEF ConfInv, ConfTypeOK
  <1>2. /\ log' \in Seq(OpRecord) /\ Len(log') = Len(log) + 1 /\ Last(log') = op
        /\ \A i \in 1..Len(log) : log'[i] = log[i] /\ Len(log) \in Nat
    BY <1>1, LogGrows
  <1>3. stage' = "Aborted" /\ stage # "Refused"
    BY DEF Ended
  <1>4. ConfTypeOK'
    <2>1. faulty' \in BOOLEAN /\ touched' \in BOOLEAN
      BY <1>1, Zenon DEF ConfTypeOK
    <2> QED BY <1>1, <1>2, <1>3, <2>1 DEF ConfTypeOK, Ended
  <1>5. StageInv' /\ LoadInv' /\ ViewInv'
    BY <1>3 DEF StageInv, LoadInv, ViewInv, SpawnStages, MountStages
  <1>6. DomainInv'
    BY <1>1, <1>3 DEF DomainInv
  <1>7. Misused(op, Len(log)) => Misused(Last(log), Len(log) - 1)'
    <2>1. SUFFICES ASSUME Misused(op, Len(log)) PROVE Misused(Last(log), Len(log) - 1)'
      OBVIOUS
    <2>2. Len(log') - 1 = Len(log)
      BY <1>2
    <2>3. \A kinds : Before(kinds, Len(log)) => Before(kinds, Len(log) - 1)'
      BY <1>2, <2>2 DEF Before
    <2>4. Buried(op, Len(log)) => Buried(op, Len(log) - 1)'
      BY <1>2, <2>2 DEF Buried, MountsOn
    <2>5. NoPrivilege => NoPrivilege'
      BY DEF NoPrivilege
    <2>6. (\E i \in 1..Len(log) : MountsOn(i, ProcDir)) =>
            (\E i \in 1..(Len(log) - 1) : MountsOn(i, ProcDir))'
      BY <1>2, <2>2 DEF MountsOn
    <2> QED BY <1>2, <2>1, <2>3, <2>4, <2>5, <2>6 DEF Misused, Mismatched
  <1>8. CustomOldRoot(op) => CustomOldRoot(Last(log))'
    BY <1>2 DEF CustomOldRoot
  <1>9. ~faulty' => Misused(op, Len(log)) \/ CustomOldRoot(op)
    BY Zenon
  <1> QED BY <1>3, <1>4, <1>5, <1>6, <1>7, <1>8, <1>9 DEF ConfInv

(* A mount that succeeds is logged, and covers what is below its target    *)
(* and nothing else.                                                       *)
LEMMA SucceedStep ==
  ASSUME ConfInv, stage \in MountStages \ {"Private"},
         NEW op \in OpRecord, op.kind \in Mounting, NEW v, NEW next, Succeed(v, op, next),
         \/ stage \in SpawnStages /\ next \in {"Binds", "Tmpfs", "Root", "Seccomp"}
         \/ stage = "Compose" /\ next = "Compose",
         ViewTypeOK(v), AtInv(v), FileInv(v), \A n \in Paths : v[n].call <= Len(log) + 1,
         \A n \in Paths : ~Below(n, op.target) \/ op.kind = "rootfs" =>
           v[n].fs = view[n].fs /\ v[n].path = view[n].path /\ v[n].flags = view[n].flags
  PROVE  ConfInv'
  <1> USE DEF Succeed, UnchangedProcess, config
  <1>1. ConfTypeOK /\ StageInv /\ LoadInv /\ DomainInv /\ ViewInv /\ log \in Seq(OpRecord)
    BY DEF ConfInv, ConfTypeOK
  <1>2. /\ log' \in Seq(OpRecord) /\ Len(log') = Len(log) + 1 /\ log'[Len(log) + 1] = op
        /\ \A i \in DOMAIN log : log'[i] = log[i]
        /\ DOMAIN log' = DOMAIN log \cup {Len(log) + 1}
    BY <1>1, LogGrows
  <1>3. stage' = next /\ stage \notin Ended
    BY DEF Ended, MountStages
  <1>4. ConfTypeOK'
    <2>1. touched' \in BOOLEAN
      BY <1>1, Zenon DEF ConfTypeOK
    <2> QED BY <1>1, <1>2, <1>3, <2>1 DEF ConfTypeOK, SpawnStages
  <1>5. \A k \in {"userns", "seccomp", "landlock"} : Logged(k)' <=> Logged(k)
    BY <1>1, LoggedGrows DEF Mounting
  <1>6. StageInv'
    BY <1>1, <1>3, <1>5 DEF StageInv, SpawnStages, MountStages
  <1>7. LoadInv' /\ DomainInv'
    BY <1>1, <1>3, <1>5 DEF LoadInv, DomainInv, Ended
  <1>8. ViewInv'
    <2>1. OwnInv /\ view' = v
      BY <1>1 DEF ViewInv
    <2>2. OwnInv'
      <3> SUFFICES ASSUME NEW n \in Paths,
                          \A i \in DOMAIN log' : MountsOn(i, n)' => log'[i].kind = "rootfs"
                   PROVE  v[n].fs = "host" /\ v[n].path = n /\ v[n].flags = {}
        BY <2>1 DEF OwnInv
      <3>1. \A i \in DOMAIN log : MountsOn(i, n) => log[i].kind = "rootfs"
        BY <1>2 DEF MountsOn
      <3>2. ~Below(n, op.target) \/ op.kind = "rootfs"
        BY <1>2 DEF MountsOn
      <3> QED BY <2>1, <3>1, <3>2 DEF OwnInv
    <2>3. CallInv'
      BY <1>2, <2>1 DEF CallInv
    <2> QED BY <2>1, <2>2, <2>3 DEF ViewInv
  <1>9. stage' # "Aborted"
    BY <1>3
  <1> QED BY <1>4, <1>6, <1>7, <1>8, <1>9 DEF ConfInv

(* The kernel refuses a mount for want of privilege, or because the filter *)
(* or the domain is in force.                                              *)
LEMMA RefusedMount ==
  ASSUME ConfInv, stage # "Aborted", ~MayMount, NEW op,
         op.kind \notin {"userns", "landlock", "seccomp", "pivot"}
  PROVE  Misused(op, Len(log))
  <1>1. NoPrivilege \/ restricted \/ filtered
    BY DEF MayMount, NoPrivilege
  <1>2. DOMAIN log = 1..Len(log)
    BY LenProperties DEF ConfInv, ConfTypeOK
  <1>3. restricted \/ filtered => Before({"seccomp", "landlock"}, Len(log))
    BY <1>2 DEF ConfInv, LoadInv, Logged, Before
  <1> QED BY <1>1, <1>3 DEF Misused

(* What nothing has covered is as the host has it.                         *)
LEMMA NotBuried ==
  ASSUME ConfInv, stage \in MountStages, NEW op, ~Buried(op, Len(log)),
         NEW n \in Paths, n \in {op.source, op.target}
  PROVE  view[n].fs = "host" /\ view[n].path = n /\ view[n].flags = {}
  <1>1. DOMAIN log = 1..Len(log)
    BY LenProperties DEF ConfInv, ConfTypeOK
  <1> QED BY <1>1 DEF ConfInv, ViewInv, OwnInv, Buried

(* A mount call with its refusals                                          *)
LEMMA CallStep ==
  ASSUME ConfInv, stage \in MountStages \ {"Private"},
         NEW op \in OpRecord, op.kind \in Mounting, NEW v, NEW next, NEW accepted \in BOOLEAN,
         MountCall(accepted, v, op, next),
         \/ stage \in SpawnStages /\ next \in {"Binds", "Tmpfs", "Root", "Seccomp"}
         \/ stage = "Compose" /\ next = "Compose",
         accepted =>
           /\ ViewTypeOK(v) /\ AtInv(v) /\ FileInv(v)
           /\ \A n \in Paths : v[n].call <= Len(log) + 1
           /\ \A n \in Paths : ~Below(n, op.target) \/ op.kind = "rootfs" =>
                v[n].fs = view[n].fs /\ v[n].path = view[n].path /\ v[n].flags = view[n].flags,
         ~accepted => Buried(op, Len(log)) \/ Mismatched(op)
  PROVE  ConfInv'
  <1>1. CASE MayMount /\ accepted /\ Succeed(v, op, next)
    BY <1>1, SucceedStep
  <1>2. CASE Abort(MayMount /\ accepted, op)
    <2>1. (MayMount /\ accepted) \in BOOLEAN
      OBVIOUS
    <2>2. op.kind \notin {"userns", "landlock", "seccomp", "pivot"} /\ stage # "Aborted"
      BY DEF Mounting, MountStages
    <2>3. ~accepted => Misused(op, Len(log))
      BY <2>2 DEF Misused
    <2>4. ~(MayMount /\ accepted) => Misused(op, Len(log))
      BY <2>2, <2>3, RefusedMount
    <2>5. stage \notin Ended
      BY DEF Ended, MountStages
    <2> QED BY <1>2, <2>1, <2>4, <2>5, AbortStep
  <1> QED BY <1>1, <1>2 DEF MountCall

(* What a bind and the remount after it show                               *)
LEMMA BoundView ==
  ASSUME ConfInv, stage \in MountStages, NEW s \in Paths, NEW t \in Paths, Free(view, t),
         NEW b, b = BindRec(view, s, t, Call)
  PROVE  /\ ViewTypeOK(b) /\ AtInv(b) /\ FileInv(b)
         /\ \A n \in Paths : b[n].call <= Len(log) + 1
         /\ \A n \in Paths : ~Below(n, t) => b[n] = view[n]
         /\ \A n \in Paths : Below(n, t) => b[n].call = Len(log) + 1
  <1>1. ViewTypeOK(view) /\ AtInv(view) /\ FileInv(view) /\ CallInv
    BY DEF ConfInv, ViewInv, MountStages
  <1>2. Len(log) \in Nat /\ Call \in Nat /\ Call = Len(log) + 1
    BY LenProperties DEF ConfInv, ConfTypeOK, Call
  <1>3. /\ ViewTypeOK(b) /\ AtInv(b)
        /\ \A n \in Paths : ~Below(n, t) => b[n] = view[n]
        /\ \A n \in Paths : Below(n, t) => b[n].call = Call
    <2> DEFINE c == Call
    <2>1. c \in Nat /\ b = BindRec(view, s, t, c)
      BY <1>2
    <2> HIDE DEF c
    <2>2. ViewTypeOK(BindRec(view, s, t, c)) /\ AtInv(BindRec(view, s, t, c))
      BY <1>1, <2>1, BindRecOK
    <2>3. \A n \in Paths : ~Below(n, t) => BindRec(view, s, t, c)[n] = view[n]
      BY <1>1, <2>1, BindRecOK
    <2>4. \A n \in Paths : Below(n, t) => BindRec(view, s, t, c)[n].call = c
      BY <1>1, <2>1, BindRecOK
    <2> QED BY <2>1, <2>2, <2>3, <2>4 DEF c
  <1>4. FileInv(b)
    BY <1>1, <1>2, BindRecFile
  <1>5. \A n \in Paths : view[n].call \in Nat
    BY <1>1 DEF ViewTypeOK, Object
  <1> QED BY <1>1, <1>2, <1>3, <1>4, <1>5 DEF CallInv

(* A bind that is remounted is a view again, and changes nothing outside   *)
(* its target.                                                             *)
LEMMA RemountedView ==
  ASSUME ConfInv, stage \in MountStages, NEW s \in Paths, NEW t \in Paths, Free(view, t),
         NEW f \in FlagSets, NEW deep,
         NEW v, v = Remount(BindRec(view, s, t, Call), t, f, deep)
  PROVE  /\ ViewTypeOK(v) /\ AtInv(v) /\ FileInv(v)
         /\ \A n \in Paths : v[n].call <= Len(log) + 1
         /\ \A n \in Paths : ~Below(n, t) =>
              v[n].fs = view[n].fs /\ v[n].path = view[n].path /\ v[n].flags = view[n].flags
  <1> DEFINE b == BindRec(view, s, t, Call)
  <1>1. /\ ViewTypeOK(b) /\ AtInv(b) /\ FileInv(b)
        /\ \A n \in Paths : b[n].call <= Len(log) + 1
        /\ \A n \in Paths : ~Below(n, t) => b[n] = view[n]
        /\ \A n \in Paths : Below(n, t) => b[n].call = Len(log) + 1
    BY BoundView
  <1> HIDE DEF b
  <1>2. v = Remount(b, t, f, deep)
    BY DEF b
  <1>3. /\ ViewTypeOK(v) /\ AtInv(v)
        /\ \A n \in Paths :
             /\ v[n].fs = b[n].fs /\ v[n].path = b[n].path /\ v[n].call = b[n].call
             /\ v[n].flags = IF SameMount(b, n, t) THEN f ELSE b[n].flags
    BY <1>1, <1>2, RemountOK
  <1>4. FileInv(v)
    BY <1>1, <1>3 DEF FileInv, IsFile
  <1>5. Below(t, t) /\ Len(log) \in Nat
    BY PathsAreNames, BelowOrder, LenProperties DEF ConfInv, ConfTypeOK
  <1>6. \A n \in Paths : view[n].call <= Len(log) /\ view[n].call \in Nat
    BY DEF ConfInv, ViewInv, CallInv, ViewTypeOK, Object, MountStages
  <1>7. \A n \in Paths : ~Below(n, t) => ~SameMount(b, n, t)
    BY <1>1, <1>5, <1>6 DEF SameMount
  <1>8. \A n \in Paths : ~Below(n, t) =>
          v[n].fs = view[n].fs /\ v[n].path = view[n].path /\ v[n].flags = view[n].flags
    BY <1>1, <1>3, <1>7
  <1> QED BY <1>1, <1>3, <1>4, <1>8

(* A bind whose remount fails ends the setup.                              *)
LEMMA AbortBoundStep ==
  ASSUME ConfInv, stage \notin Ended, NEW op \in OpRecord, NEW v, AbortBound(v, op)
  PROVE  ConfInv'
  <1> USE DEF AbortBound, UnchangedProcess, config
  <1>1. ConfTypeOK /\ DomainInv /\ log \in Seq(OpRecord)
    BY DEF ConfInv, ConfTypeOK
  <1>2. log' \in Seq(OpRecord)
    BY <1>1, LogGrows
  <1>3. stage' = "Aborted" /\ stage # "Refused" /\ faulty'
    BY DEF Ended
  <1>4. ConfTypeOK'
    <2>1. faulty' \in BOOLEAN /\ touched' \in BOOLEAN
      BY <1>1, Zenon DEF ConfTypeOK
    <2> QED BY <1>1, <1>2, <1>3, <2>1 DEF ConfTypeOK, Ended
  <1>5. StageInv' /\ LoadInv' /\ ViewInv'
    BY <1>3 DEF StageInv, LoadInv, ViewInv, SpawnStages, MountStages
  <1>6. DomainInv'
    BY <1>1, <1>3 DEF DomainInv
  <1> QED BY <1>3, <1>4, <1>5, <1>6 DEF ConfInv

(* Permissions are flags.                                                  *)
LEMMA FlagsOfPermission ==
  ASSUME NEW perm \in Permissions
  PROVE  RemountFlags(perm) \in FlagSets
  BY DEF FlagSets, Permissions, RemountFlags, MountFlags

(* bind_mount and install_bind                                             *)
LEMMA BindStep ==
  ASSUME ConfInv, stage \in MountStages \ {"Private"},
         NEW op \in OpRecord, op.kind = "bind", NEW next, NEW accepted \in BOOLEAN,
         BindAndRemount(accepted, op, next),
         \/ stage \in SpawnStages /\ next \in {"Binds", "Tmpfs", "Root", "Seccomp"}
         \/ stage = "Compose" /\ next = "Compose",
         accepted => Free(view, op.target),
         ~accepted => Buried(op, Len(log)) \/ Mismatched(op)
  PROVE  ConfInv'
  <1> DEFINE bound == BindRec(view, op.source, op.target, Call)
             deep == op.deep
             v == Remount(bound, op.target, RemountFlags(op.perm), deep)
  <1>0. op.source \in Paths /\ op.target \in Paths /\ op.perm \in Permissions
    BY DEF OpRecord
  <1>1. op.kind \in Mounting /\ stage \notin Ended /\ stage \in MountStages
    BY DEF Mounting, Ended, MountStages
  <1>2. CASE ~Remounts(op.perm) /\ MountCall(accepted, bound, op, next)
    <2>1. accepted =>
            /\ ViewTypeOK(bound) /\ AtInv(bound) /\ FileInv(bound)
            /\ \A n \in Paths : bound[n].call <= Len(log) + 1
            /\ \A n \in Paths : ~Below(n, op.target) => bound[n] = view[n]
      BY <1>0, <1>1, BoundView
    <2> HIDE DEF bound
    <2>2. op.kind # "rootfs"
      OBVIOUS
    <2>3. accepted => \A n \in Paths : ~Below(n, op.target) \/ op.kind = "rootfs" =>
            /\ bound[n].fs = view[n].fs /\ bound[n].path = view[n].path
            /\ bound[n].flags = view[n].flags
      BY <2>1, <2>2
    <2> QED BY <1>1, <1>2, <2>1, <2>3, CallStep
  <1>3. CASE MountCall(accepted, v, op, next)
    <2>1. RemountFlags(op.perm) \in FlagSets
      BY <1>0, FlagsOfPermission
    <2>2. accepted =>
            /\ ViewTypeOK(v) /\ AtInv(v) /\ FileInv(v)
            /\ \A n \in Paths : v[n].call <= Len(log) + 1
            /\ \A n \in Paths : ~Below(n, op.target) =>
                 v[n].fs = view[n].fs /\ v[n].path = view[n].path /\ v[n].flags = view[n].flags
      <3> SUFFICES ASSUME accepted PROVE
            /\ ViewTypeOK(v) /\ AtInv(v) /\ FileInv(v)
            /\ \A n \in Paths : v[n].call <= Len(log) + 1
            /\ \A n \in Paths : ~Below(n, op.target) =>
                 v[n].fs = view[n].fs /\ v[n].path = view[n].path /\ v[n].flags = view[n].flags
        OBVIOUS
      <3> DEFINE f == RemountFlags(op.perm)
                 s == op.source
                 t == op.target
      <3>1. /\ f \in FlagSets /\ s \in Paths /\ t \in Paths /\ Free(view, t)
            /\ v = Remount(BindRec(view, s, t, Call), t, f, deep)
        BY <1>0, <2>1
      <3> HIDE DEF f, s, t, v
      <3>2. /\ ViewTypeOK(v) /\ AtInv(v) /\ FileInv(v)
            /\ \A n \in Paths : v[n].call <= Len(log) + 1
            /\ \A n \in Paths : ~Below(n, t) =>
                 v[n].fs = view[n].fs /\ v[n].path = view[n].path /\ v[n].flags = view[n].flags
        BY <1>1, <3>1, RemountedView
      <3> QED BY <3>2 DEF t
    <2>3. MountCall(accepted, v, op, next)
      BY <1>3
    <2> HIDE DEF v
    <2>4. accepted => \A n \in Paths : ~Below(n, op.target) \/ op.kind = "rootfs" =>
            v[n].fs = view[n].fs /\ v[n].path = view[n].path /\ v[n].flags = view[n].flags
      BY <2>2
    <2> QED BY <1>1, <2>2, <2>3, <2>4, CallStep
  <1>4. CASE AbortBound(bound, op)
    BY <1>1, <1>4, AbortBoundStep
  <1> QED BY <1>2, <1>3, <1>4 DEF BindAndRemount

(* The operations of the log are well formed.                              *)
LEMMA OpIsRecord ==
  ASSUME NEW kind \in Kinds, NEW source \in Paths, NEW target \in Paths,
         NEW perm \in Permissions, NEW deep \in BOOLEAN
  PROVE  Op(kind, source, target, perm, deep) \in OpRecord
  BY DEF Op, OpRecord

(* The fields of an operation.                                             *)
LEMMA OpParts ==
  ASSUME NEW kind, NEW source, NEW target, NEW perm, NEW deep
  PROVE  /\ Op(kind, source, target, perm, deep).kind = kind
         /\ Op(kind, source, target, perm, deep).source = source
         /\ Op(kind, source, target, perm, deep).target = target
         /\ Op(kind, source, target, perm, deep).perm = perm
         /\ Op(kind, source, target, perm, deep).deep = deep
  BY DEF Op

(* ReadWrite is one of the permissions.                                    *)
LEMMA ReadWriteIsPermission == ReadWrite \in Permissions
  BY DEF ReadWrite, Permissions

(* A fresh mount is logged under the name of its filesystem.               *)
LEMMA FreshTypesAreKinds == FreshTypes \subseteq Kinds
  BY DEF FreshTypes, Kinds, Mounting

(* tmpfs and proc, in either pipeline                                      *)
LEMMA FreshStep ==
  ASSUME ConfInv, stage \in MountStages \ {"Private"}, NEW t \in Paths, NEW fs \in FreshTypes,
         NEW f \in FlagSets, NEW perm \in Permissions, NEW next, NEW accepted \in BOOLEAN,
         NEW deep \in BOOLEAN,
         MountCall(accepted, MountFresh(view, t, fs, f, Call), Op(fs, t, t, perm, deep), next),
         \/ stage \in SpawnStages /\ next \in {"Binds", "Tmpfs", "Root", "Seccomp"}
         \/ stage = "Compose" /\ next = "Compose",
         accepted => Free(view, t),
         view[t].fs = "host" /\ view[t].path = t /\ t \notin Files => accepted
  PROVE  ConfInv'
  <1> DEFINE op == Op(fs, t, t, perm, deep)
             v == MountFresh(view, t, fs, f, Call)
             c == Call
  <1>0. fs \in Kinds
    BY FreshTypesAreKinds
  <1>1. /\ op \in OpRecord /\ op.kind = fs /\ op.source = t /\ op.target = t
        /\ MountCall(accepted, v, op, next)
    BY <1>0, OpIsRecord, OpParts
  <1>2. op.kind \in Mounting /\ op.kind \notin {"rootfs", "bind", "raw"}
    BY <1>1 DEF Mounting, FreshTypes
  <1>3. ViewTypeOK(view) /\ AtInv(view) /\ FileInv(view) /\ CallInv
    BY DEF ConfInv, ViewInv, MountStages
  <1>4. Len(log) \in Nat /\ c \in Nat /\ c = Len(log) + 1
    BY LenProperties DEF ConfInv, ConfTypeOK, Call
  <1> HIDE DEF op, c
  <1>5. v = MountFresh(view, t, fs, f, c)
    BY DEF c
  <1> HIDE DEF v
  <1>6. /\ ViewTypeOK(v) /\ AtInv(v)
        /\ \A n \in Paths : ~Below(n, t) => v[n] = view[n]
        /\ \A n \in Paths : Below(n, t) => v[n].call = c
    BY <1>3, <1>4, <1>5, MountFreshOK
  <1>7. accepted => FileInv(v)
    BY <1>3, <1>4, <1>5, MountFreshFile
  <1>8. \A n \in Paths : view[n].call \in Nat
    BY <1>3 DEF ViewTypeOK, Object
  <1>9. \A n \in Paths : v[n].call <= Len(log) + 1
    BY <1>3, <1>4, <1>6, <1>8 DEF CallInv
  <1>10. ~accepted => Buried(op, Len(log)) \/ Mismatched(op)
    <2> SUFFICES ASSUME ~Buried(op, Len(log)), ~Mismatched(op) PROVE accepted
      OBVIOUS
    <2>1. view[t].fs = "host" /\ view[t].path = t
      BY <1>1, NotBuried
    <2>2. t \notin Files
      BY <1>1, <1>2 DEF Mismatched
    <2> QED BY <2>1, <2>2
  <1>11. \A n \in Paths : ~Below(n, op.target) \/ op.kind = "rootfs" =>
           v[n].fs = view[n].fs /\ v[n].path = view[n].path /\ v[n].flags = view[n].flags
    BY <1>1, <1>2, <1>6
  <1> QED BY <1>1, <1>2, <1>6, <1>7, <1>9, <1>10, <1>11, CallStep

(* bind_rootfs covers the rootfs with itself.                              *)
LEMMA BindRootfsStep ==
  ASSUME ConfInv, BindRootfs
  PROVE  ConfInv'
  <1> DEFINE op == Op("rootfs", Rootfs, Rootfs, ReadWrite, FALSE)
             b == BindRec(view, Rootfs, Rootfs, Call)
             yes == TRUE
             next == "Binds"
             c == Call
             no == FALSE
  <1>1. stage = "RootBind" /\ MountCall(yes, b, op, next) /\ yes \in BOOLEAN /\ no \in BOOLEAN
    BY DEF BindRootfs
  <1>2. Rootfs \in Paths /\ Rootfs \in Names
    BY PathsAreNames
  <1>3. op \in OpRecord /\ op.kind = "rootfs" /\ op.source = Rootfs /\ op.target = Rootfs
    <2> DEFINE kind == "rootfs"
    <2>1. kind \in Kinds /\ op = Op(kind, Rootfs, Rootfs, ReadWrite, no)
      BY DEF Kinds, Mounting
    <2> HIDE DEF op, no, kind
    <2>2. op \in OpRecord /\ op.kind = kind /\ op.source = Rootfs /\ op.target = Rootfs
      BY <1>1, <1>2, <2>1, OpIsRecord, OpParts, ReadWriteIsPermission
    <2> QED BY <2>2 DEF kind
  <1>4. /\ stage \in MountStages /\ stage \in MountStages \ {"Private"}
        /\ stage \in SpawnStages
        /\ op.kind \in Mounting /\ next \in {"Binds", "Tmpfs", "Root", "Seccomp"}
    BY <1>1, <1>3 DEF MountStages, SpawnStages, Mounting
  <1> HIDE DEF op, yes, next, no
  <1>5. ViewTypeOK(view) /\ AtInv(view) /\ FileInv(view) /\ view = HostView
    BY <1>1, <1>4 DEF ConfInv, ViewInv, StageInv
  <1>6. view[Rootfs].fs # "absent"
    BY <1>2, <1>5, HostViewOK
  <1>7. Free(view, Rootfs)
    BY <1>2, <1>5, <1>6, MountpointIsFree
  <1>8. /\ ViewTypeOK(b) /\ AtInv(b) /\ FileInv(b)
        /\ \A n \in Paths : b[n].call <= Len(log) + 1
        /\ \A n \in Paths : ~Below(n, Rootfs) => b[n] = view[n]
    BY <1>2, <1>4, <1>7, BoundView
  <1>9. c \in Nat
    BY LenProperties DEF ConfInv, ConfTypeOK, Call
  <1>10. ASSUME NEW n \in Paths
         PROVE  b[n].fs = view[n].fs /\ b[n].path = view[n].path /\ b[n].flags = view[n].flags
    <2>1. CASE ~Below(n, Rootfs)
      BY <1>8, <2>1
    <2>2. CASE Below(n, Rootfs)
      <3>1. Moved(n, Rootfs, Rootfs) = n
        BY <1>2, <2>2, PathsAreNames, MovedMeans
      <3>2. b = BindRec(view, Rootfs, Rootfs, c)
        OBVIOUS
      <3> HIDE DEF b, c
      <3>3. /\ BindRec(view, Rootfs, Rootfs, c)[n].fs = view[n].fs
            /\ BindRec(view, Rootfs, Rootfs, c)[n].path = view[n].path
            /\ BindRec(view, Rootfs, Rootfs, c)[n].flags = view[n].flags
        BY <1>2, <1>5, <1>9, <2>2, <3>1, BindRecOK
      <3> QED BY <3>2, <3>3
    <2> QED BY <2>1, <2>2
  <1> HIDE DEF b
  <1>11. yes
    BY DEF yes
  <1> QED BY <1>1, <1>3, <1>4, <1>8, <1>10, <1>11, CallStep

(* bind_mount                                                              *)
LEMMA BindMountStep ==
  ASSUME ConfInv, NEW m \in Mounts, BindMount(m)
  PROVE  ConfInv'
  <1> DEFINE s == m.source
             t == Joined(m.target)
             deep == s \notin Files
             acc == view[s].fs # "absent" /\ CanCreate(view, t, IsFile(view[s]))
             op == Op("bind", s, t, m.perm, deep)
             next == "Binds"
  <1>1. stage = "Binds" /\ t \in Paths /\ BindAndRemount(acc, op, next)
    BY DEF BindMount
  <1>2. s \in Paths /\ m.perm \in Permissions
    BY ConfinementAssumption
  <1>3. acc \in BOOLEAN /\ deep \in BOOLEAN
    OBVIOUS
  <1>4. stage \in MountStages \ {"Private"} /\ stage \in SpawnStages /\ stage \in MountStages
    BY <1>1 DEF MountStages, SpawnStages
  <1>5. next \in {"Binds", "Tmpfs", "Root", "Seccomp"}
    OBVIOUS
  <1>6. op \in OpRecord /\ op.kind = "bind" /\ op.source = s /\ op.target = t
    <2> HIDE DEF s, t, deep
    <2>1. "bind" \in Kinds
      BY DEF Kinds, Mounting
    <2> QED BY <1>1, <1>2, <1>3, <2>1, OpIsRecord, OpParts
  <1>7. acc => Free(view, t)
    <2> DEFINE file == IsFile(view[s])
    <2>1. acc => CanCreate(view, t, file)
      OBVIOUS
    <2> HIDE DEF file, acc, t
    <2>2. ViewTypeOK(view) /\ FileInv(view)
      BY <1>1 DEF ConfInv, ViewInv
    <2> QED BY <1>1, <2>1, <2>2, MountpointIsFree
  <1> HIDE DEF op, s, t, deep, next
  <1>8. ~acc => Buried(op, Len(log)) \/ Mismatched(op)
    <2> SUFFICES ASSUME ~Buried(op, Len(log)), ~Mismatched(op) PROVE acc
      OBVIOUS
    <2>1. /\ view[s].fs = "host" /\ view[s].path = s
          /\ view[t].fs = "host" /\ view[t].path = t
      BY <1>1, <1>2, <1>4, <1>6, NotBuried
    <2>2. s \in Files <=> t \in Files
      <3>1. op.kind \in {"bind", "raw"}
        BY <1>6
      <3>2. (op.source \in Files) = (op.target \in Files)
        BY <3>1, Zenon DEF Mismatched
      <3> QED BY <1>6, <3>2, Zenon
    <2>3. IsFile(view[t]) <=> IsFile(view[s])
      BY <2>1, <2>2 DEF IsFile
    <2> QED BY <2>1, <2>3 DEF CanCreate
  <1> HIDE DEF acc
  <1> QED BY <1>1, <1>3, <1>4, <1>5, <1>6, <1>7, <1>8, BindStep

(* mount_tmpfs, install_tmpfs and apply_procfs                             *)
LEMMA MountTmpfsStep ==
  ASSUME ConfInv, NEW p \in Overlays, MountTmpfs(p)
  PROVE  ConfInv'
  <1> DEFINE t == Joined(p)
             no == FALSE
             fs == "tmpfs"
             f == {}
             next == "Tmpfs"
             acc == CanCreate(view, t, no)
  <1>1. /\ stage \in {"Binds", "Tmpfs"} /\ t \in Paths
        /\ MountCall(acc, MountFresh(view, t, fs, f, Call), Op(fs, t, t, ReadWrite, no), next)
    BY DEF MountTmpfs
  <1>2. /\ stage \in MountStages \ {"Private"} /\ stage \in SpawnStages
        /\ stage \in MountStages /\ next \in {"Binds", "Tmpfs", "Root", "Seccomp"}
    BY <1>1 DEF MountStages, SpawnStages
  <1>3. fs \in FreshTypes /\ f \in FlagSets /\ no \in BOOLEAN
    BY DEF FreshTypes, FlagSets
  <1>4. acc \in BOOLEAN
    BY DEF CanCreate
  <1>5. acc => Free(view, t)
    <2> HIDE DEF t, no
    <2>1. ViewTypeOK(view) /\ FileInv(view)
      BY <1>1 DEF ConfInv, ViewInv
    <2> QED BY <1>1, <2>1, MountpointIsFree
  <1>6. view[t].fs = "host" /\ view[t].path = t /\ t \notin Files => acc
    BY DEF CanCreate, IsFile
  <1> HIDE DEF t, no, fs, f, next, acc
  <1> QED BY <1>1, <1>2, <1>3, <1>4, <1>5, <1>6, ReadWriteIsPermission, FreshStep

(* A stage that has nothing to do keeps the invariant.                     *)
LEMMA SkipStep ==
  ASSUME ConfInv, NEW next, Skip(next),
         \/ stage \in SpawnStages \cap MountStages /\ next \in {"Root", "Seccomp"}
            /\ stage \notin {"Private", "RootBind"}
         \/ stage = "Seccomp" /\ next = "Hook"
         \/ stage = "Hook" /\ next = "Exec"
         \/ stage = "Exec" /\ next = "Target"
         \/ stage = "Compose" /\ next = "Target",
         hook /\ next \in {"Exec", "Target"} => restricted
  PROVE  ConfInv'
  <1> USE DEF Skip, UnchangedProcess, config
  <1>1. ConfTypeOK /\ StageInv /\ LoadInv /\ DomainInv /\ ViewInv
    BY DEF ConfInv
  <1>2. stage' = next /\ next \in {"Root", "Seccomp", "Hook", "Exec", "Target"}
    OBVIOUS
  <1>3. stage \notin Ended
    BY DEF Ended, MountStages
  <1>4. ConfTypeOK'
    <2>1. stage' \in SpawnStages \cup {"Compose"} \cup Ended
      BY <1>2 DEF SpawnStages, Ended
    <2> QED BY <1>1, <2>1 DEF ConfTypeOK
  <1>5. StageInv'
    BY <1>1, <1>2 DEF StageInv, SpawnStages, MountStages
  <1>6. LoadInv'
    BY <1>1, <1>2, <1>3 DEF LoadInv, Logged, Ended
  <1>7. DomainInv'
    BY <1>1, <1>2, <1>3 DEF DomainInv, Ended
  <1>8. ViewInv'
    <2>1. ViewTypeOK(view) /\ FileInv(view)
      BY <1>1, <1>3 DEF ViewInv, Ended
    <2>2. next = "Root" => stage \in MountStages
      OBVIOUS
    <2>3. next = "Root" => AtInv(view) /\ OwnInv /\ CallInv
      BY <1>1, <2>2 DEF ViewInv
    <2>4. OwnInv => OwnInv'
      BY DEF OwnInv, MountsOn
    <2>5. CallInv => CallInv'
      BY DEF CallInv
    <2>6. stage' \in MountStages => next = "Root"
      BY <1>2 DEF MountStages
    <2> QED BY <2>1, <2>3, <2>4, <2>5, <2>6 DEF ViewInv
  <1>9. stage' # "Aborted"
    BY <1>2
  <1> QED BY <1>4, <1>5, <1>6, <1>7, <1>8, <1>9 DEF ConfInv

(* Mounting procfs, hiding it or leaving it keeps the invariant.           *)
LEMMA ApplyProcfsStep ==
  ASSUME ConfInv, NEW mode, ApplyProcfs(mode)
  PROVE  ConfInv'
  <1> DEFINE t == Joined(ProcDir)
             no == FALSE
             fs == IF mode = "Hide" THEN "tmpfs" ELSE "proc"
             f == {}
             next == AfterProc
             acc == CanCreate(view, t, no)
  <1>1. stage \in {"Binds", "Tmpfs"} /\ t \in Paths
    BY DEF ApplyProcfs
  <1>2. /\ stage \in MountStages \ {"Private"} /\ stage \in SpawnStages
        /\ stage \in MountStages /\ next \in {"Root", "Seccomp"}
        /\ next \in {"Binds", "Tmpfs", "Root", "Seccomp"}
    BY <1>1 DEF MountStages, SpawnStages, AfterProc
  <1>3. CASE mode = "Leave"
    <2>1. Skip(next)
      BY <1>3 DEF ApplyProcfs, Skip
    <2> HIDE DEF next
    <2> QED BY <1>1, <1>2, <2>1, SkipStep
  <1>4. CASE mode # "Leave"
    <2>1. MountCall(acc, MountFresh(view, t, fs, f, Call), Op(fs, t, t, ReadWrite, no), next)
      BY <1>4 DEF ApplyProcfs
    <2>2. fs \in FreshTypes /\ f \in FlagSets /\ no \in BOOLEAN
      BY DEF FreshTypes, FlagSets
    <2>3. acc \in BOOLEAN
      BY DEF CanCreate
    <2>4. acc => Free(view, t)
      <3> HIDE DEF t, no
      <3>1. ViewTypeOK(view) /\ FileInv(view)
        BY <1>1 DEF ConfInv, ViewInv
      <3> QED BY <1>1, <3>1, MountpointIsFree
    <2>5. view[t].fs = "host" /\ view[t].path = t /\ t \notin Files => acc
      BY DEF CanCreate, IsFile
    <2> HIDE DEF t, no, fs, f, next, acc
    <2> QED BY <1>1, <1>2, <2>1, <2>2, <2>3, <2>4, <2>5, ReadWriteIsPermission, FreshStep
  <1> QED BY <1>3, <1>4

(* install_tmpfs keeps the invariant.                                      *)
LEMMA InstallTmpfsStep ==
  ASSUME ConfInv, NEW t \in Overlays, NEW f \in SUBSET {"ro"}, install_tmpfs(t, f)
  PROVE  ConfInv'
  <1> DEFINE no == FALSE
             fs == "tmpfs"
             next == "Compose"
             perm == [kind |-> "Custom", flags |-> f]
             acc == view[t].fs # "absent" /\ ~IsFile(view[t])
  <1>1. /\ stage = "Compose"
        /\ MountCall(acc, MountFresh(view, t, fs, f, Call), Op(fs, t, t, perm, no), next)
    BY DEF install_tmpfs, Composing
  <1>2. /\ stage \in MountStages \ {"Private"} /\ stage \in MountStages /\ next = "Compose"
        /\ t \in Paths
    BY <1>1, ConfinementAssumption DEF MountStages
  <1>3. fs \in FreshTypes /\ f \in FlagSets /\ no \in BOOLEAN /\ acc \in BOOLEAN
    BY DEF FreshTypes, FlagSets, MountFlags
  <1>4. perm \in Permissions
    BY DEF Permissions, MountFlags
  <1>5. acc => Free(view, t)
    <2>1. ViewTypeOK(view) /\ FileInv(view)
      BY <1>1 DEF ConfInv, ViewInv
    <2> QED BY <1>2, <2>1, MountpointIsFree
  <1>6. view[t].fs = "host" /\ view[t].path = t /\ t \notin Files => acc
    BY DEF IsFile
  <1> HIDE DEF no, fs, perm, next, acc
  <1> QED BY <1>1, <1>2, <1>3, <1>4, <1>5, <1>6, FreshStep

(* install_bind and install_mount                                          *)
LEMMA InstallBindStep ==
  ASSUME ConfInv, NEW b \in Binds, install_bind(b)
  PROVE  ConfInv'
  <1> DEFINE t == b.target
             acc == view[t].fs # "absent"
             op == Op("bind", t, t, b.perm, b.deep)
             next == "Compose"
  <1>1. stage = "Compose" /\ BindAndRemount(acc, op, next)
    BY DEF install_bind, Composing
  <1>2. t \in Paths /\ t \notin Files /\ b.perm \in Permissions /\ b.deep \in BOOLEAN
    BY ConfinementAssumption
  <1>3. acc \in BOOLEAN
    OBVIOUS
  <1>4. /\ stage \in MountStages \ {"Private"} /\ stage \in MountStages /\ next = "Compose"
    BY <1>1 DEF MountStages
  <1>5. op \in OpRecord /\ op.kind = "bind" /\ op.source = t /\ op.target = t
    <2> HIDE DEF t
    <2>1. "bind" \in Kinds
      BY DEF Kinds, Mounting
    <2> QED BY <1>2, <2>1, OpIsRecord, OpParts
  <1> HIDE DEF t, op, next
  <1>6. acc => Free(view, t)
    <2>1. ViewTypeOK(view) /\ FileInv(view)
      BY <1>1 DEF ConfInv, ViewInv
    <2> QED BY <1>2, <2>1, MountpointIsFree
  <1>7. ~acc => Buried(op, Len(log))
    <2> SUFFICES ASSUME ~Buried(op, Len(log)) PROVE acc
      OBVIOUS
    <2>1. view[t].fs = "host"
      BY <1>2, <1>4, <1>5, NotBuried
    <2> QED BY <2>1
  <1> HIDE DEF acc
  <1> QED BY <1>1, <1>3, <1>4, <1>5, <1>6, <1>7, BindStep

(* install_mount keeps the invariant.                                      *)
LEMMA InstallMountStep ==
  ASSUME ConfInv, NEW m \in Mounts, install_mount(m)
  PROVE  ConfInv'
  <1> DEFINE s == m.source
             t == m.target
             acc == /\ view[s].fs # "absent" /\ view[t].fs # "absent"
                    /\ IsFile(view[s]) <=> IsFile(view[t])
             no == FALSE
             op == Op("raw", s, t, ReadWrite, no)
             b == BindRec(view, s, t, Call)
             next == "Compose"
  <1>1. stage = "Compose" /\ MountCall(acc, b, op, next)
    BY DEF install_mount, Composing
  <1>2. s \in Paths /\ t \in Paths
    BY ConfinementAssumption
  <1>3. acc \in BOOLEAN /\ no \in BOOLEAN
    OBVIOUS
  <1>4. /\ stage \in MountStages \ {"Private"} /\ stage \in MountStages /\ next = "Compose"
    BY <1>1 DEF MountStages
  <1>5. op \in OpRecord /\ op.kind = "raw" /\ op.source = s /\ op.target = t
    <2> HIDE DEF s, t, no
    <2>1. "raw" \in Kinds
      BY DEF Kinds, Mounting
    <2> QED BY <1>2, <1>3, <2>1, ReadWriteIsPermission, OpIsRecord, OpParts
  <1> HIDE DEF s, t, op, next, no
  <1>6. acc => Free(view, t)
    <2>1. ViewTypeOK(view) /\ FileInv(view)
      BY <1>1 DEF ConfInv, ViewInv
    <2> QED BY <1>2, <2>1, MountpointIsFree
  <1>7. ~acc => Buried(op, Len(log)) \/ Mismatched(op)
    <2> SUFFICES ASSUME ~Buried(op, Len(log)), ~Mismatched(op) PROVE acc
      OBVIOUS
    <2>1. /\ view[s].fs = "host" /\ view[s].path = s
          /\ view[t].fs = "host" /\ view[t].path = t
      BY <1>2, <1>4, <1>5, NotBuried
    <2>2. s \in Files <=> t \in Files
      <3>1. op.kind \in {"bind", "raw"}
        BY <1>5
      <3>2. (op.source \in Files) = (op.target \in Files)
        BY <3>1, Zenon DEF Mismatched
      <3> QED BY <1>5, <3>2, Zenon
    <2> QED BY <2>1, <2>2 DEF IsFile
  <1> HIDE DEF acc
  <1>8. acc => /\ ViewTypeOK(b) /\ AtInv(b) /\ FileInv(b)
               /\ \A n \in Paths : b[n].call <= Len(log) + 1
               /\ \A n \in Paths : ~Below(n, t) => b[n] = view[n]
    BY <1>2, <1>4, <1>6, BoundView
  <1> HIDE DEF b
  <1>9. op.kind \in Mounting /\ op.kind # "rootfs"
    BY <1>5 DEF Mounting
  <1>10. acc => \A n \in Paths : ~Below(n, op.target) \/ op.kind = "rootfs" =>
           b[n].fs = view[n].fs /\ b[n].path = view[n].path /\ b[n].flags = view[n].flags
    BY <1>5, <1>8, <1>9
  <1> QED BY <1>1, <1>3, <1>4, <1>5, <1>7, <1>8, <1>9, <1>10, CallStep

(* What is logged and mounts nothing leaves the view as it is.             *)
LEMMA QuietStep ==
  ASSUME ConfInv, stage = "Compose", NEW op \in OpRecord, op.kind \notin Mounting,
         log' = Append(log, op), view' = view
  PROVE  ViewTypeOK(view') /\ FileInv(view') /\ AtInv(view') /\ OwnInv' /\ CallInv'
  <1>1. /\ ViewTypeOK(view) /\ FileInv(view) /\ AtInv(view) /\ OwnInv /\ CallInv
        /\ log \in Seq(OpRecord)
    BY DEF ConfInv, ViewInv, MountStages, ConfTypeOK
  <1>2. /\ Len(log') = Len(log) + 1 /\ Len(log) \in Nat
        /\ \A i \in DOMAIN log : log'[i] = log[i]
        /\ DOMAIN log' = DOMAIN log \cup {Len(log) + 1}
    BY <1>1, LogGrows
  <1>3. OwnInv'
    <2> SUFFICES ASSUME NEW n \in Paths,
                        \A i \in DOMAIN log' : MountsOn(i, n)' => log'[i].kind = "rootfs"
                 PROVE  view[n].fs = "host" /\ view[n].path = n /\ view[n].flags = {}
      BY DEF OwnInv
    <2>1. \A i \in DOMAIN log : MountsOn(i, n) => log[i].kind = "rootfs"
      BY <1>2 DEF MountsOn
    <2> QED BY <1>1, <2>1 DEF OwnInv
  <1>4. CallInv'
    <2>1. \A n \in Paths : view[n].call \in Nat
      BY <1>1 DEF ViewTypeOK, Object
    <2> QED BY <1>1, <1>2, <2>1 DEF CallInv
  <1> QED BY <1>1, <1>3, <1>4

(* An operation without source or permission is an entry of the log.       *)
LEMMA PlainOp ==
  ASSUME NEW kind \in Kinds, NEW t \in Paths
  PROVE  /\ Op(kind, <<>>, t, ReadWrite, FALSE) \in OpRecord
         /\ Op(kind, <<>>, t, ReadWrite, FALSE).kind = kind
         /\ Op(kind, <<>>, t, ReadWrite, FALSE).source = <<>>
         /\ Op(kind, <<>>, t, ReadWrite, FALSE).target = t
  <1> DEFINE no == FALSE
             e == <<>>
  <1>1. no \in BOOLEAN /\ e \in Paths
    BY PathsAreNames
  <1> HIDE DEF no, e
  <1>2. /\ Op(kind, e, t, ReadWrite, no) \in OpRecord
        /\ Op(kind, e, t, ReadWrite, no).kind = kind
        /\ Op(kind, e, t, ReadWrite, no).source = e
        /\ Op(kind, e, t, ReadWrite, no).target = t
    BY <1>1, ReadWriteIsPermission, OpIsRecord, OpParts
  <1> QED BY <1>2 DEF no, e

(* What the log shows of a filter or a domain in force                     *)
LEMMA LoggedBefore ==
  ASSUME ConfInv, NEW kinds, NEW k \in kinds, Logged(k)
  PROVE  Before(kinds, Len(log))
  <1>1. DOMAIN log = 1..Len(log)
    BY LenProperties DEF ConfInv, ConfTypeOK
  <1> QED BY <1>1 DEF Logged, Before

(* install_seccomp                                                         *)
LEMMA LoadsFilterStep ==
  ASSUME ConfInv, NEW next, LoadsFilter(next),
         \/ stage = "Seccomp" /\ next = "Hook"
         \/ stage = "Compose" /\ next = "Compose"
  PROVE  ConfInv'
  <1> DEFINE op == Op("seccomp", <<>>, <<>>, ReadWrite, FALSE)
             yes == TRUE
  <1>1. op \in OpRecord /\ op.kind = "seccomp"
    <2>1. "seccomp" \in Kinds /\ <<>> \in Paths
      BY PathsAreNames DEF Kinds
    <2> QED BY <2>1, PlainOp
  <1>2. \/ /\ filtered' = TRUE /\ stage' = next /\ log' = Append(log, op)
           /\ UNCHANGED <<config, user, mnt, domain, restricted, view, base, shared,
                          touched, faulty>>
        \/ Abort(yes, op)
    BY DEF LoadsFilter
  <1> HIDE DEF op
  <1>3. stage \notin Ended
    BY DEF Ended
  <1>4. CASE Abort(yes, op)
    BY <1>1, <1>3, <1>4, AbortStep
  <1>5. CASE /\ filtered' = TRUE /\ stage' = next /\ log' = Append(log, op)
             /\ UNCHANGED <<config, user, mnt, domain, restricted, view, base, shared,
                            touched, faulty>>
    <2> USE <1>5 DEF config
    <2>1. ConfTypeOK /\ StageInv /\ LoadInv /\ DomainInv /\ ViewInv /\ log \in Seq(OpRecord)
      BY DEF ConfInv, ConfTypeOK
    <2>2. log' \in Seq(OpRecord) /\ \A k : Logged(k)' <=> Logged(k) \/ op.kind = k
      BY <1>1, <2>1, LogGrows, LoggedGrows
    <2>3. ConfTypeOK'
      <3>1. filtered' \in BOOLEAN
        BY Zenon
      <3> QED BY <2>1, <2>2, <3>1 DEF ConfTypeOK, SpawnStages
    <2>4. StageInv' /\ LoadInv' /\ DomainInv'
      <3>1. StageInv'
        BY <2>1, <2>2 DEF StageInv, SpawnStages, MountStages
      <3>2. LoadInv'
        BY <1>1, <2>1, <2>2 DEF LoadInv
      <3>3. DomainInv'
        BY <2>1 DEF DomainInv
      <3> QED BY <3>1, <3>2, <3>3
    <2>5. ViewInv'
      <3>1. CASE stage = "Compose"
        <4>1. op.kind \notin Mounting
          BY <1>1 DEF Mounting
        <4> QED BY <1>1, <3>1, <4>1, QuietStep DEF ViewInv
      <3>2. CASE stage = "Seccomp"
        BY <2>1, <3>2 DEF ViewInv, MountStages
      <3> QED BY <3>1, <3>2
    <2> QED BY <2>3, <2>4, <2>5 DEF ConfInv
  <1> QED BY <1>2, <1>4, <1>5

(* install_landlock                                                        *)
LEMMA RestrictsStep ==
  ASSUME ConfInv, NEW next, Restricts(next),
         \/ stage = "Hook" /\ next = "Exec"
         \/ stage = "Compose" /\ next = "Compose"
  PROVE  ConfInv'
  <1> DEFINE op == Op("landlock", <<>>, <<>>, ReadWrite, FALSE)
  <1>1. op \in OpRecord /\ op.kind = "landlock"
    <2>1. "landlock" \in Kinds /\ <<>> \in Paths
      BY PathsAreNames DEF Kinds
    <2> QED BY <2>1, PlainOp
  <1>2. \/ /\ restricted' = TRUE /\ domain' = ruleset.rules /\ stage' = next
           /\ log' = Append(log, op)
           /\ UNCHANGED <<config, user, mnt, filtered, view, base, shared, touched, faulty>>
        \/ Abort(MayRestrict, op)
    BY DEF Restricts
  <1> HIDE DEF op
  <1>3. stage \notin Ended /\ MayRestrict \in BOOLEAN
    BY DEF Ended, MayRestrict
  <1>4. CASE Abort(MayRestrict, op)
    <2>1. ~MayRestrict => Misused(op, Len(log))
      <3> SUFFICES ASSUME ~MayRestrict PROVE Misused(op, Len(log))
        OBVIOUS
      <3>1. filtered /\ profile # "Standard"
        BY DEF MayRestrict
      <3>2. Logged("seccomp")
        BY <1>3, <3>1 DEF ConfInv, LoadInv, Ended
      <3>3. Before({"seccomp"}, Len(log))
        BY <3>2, LoggedBefore
      <3> QED BY <1>1, <3>1, <3>3 DEF Misused
    <2> QED BY <1>1, <1>3, <1>4, <2>1, AbortStep
  <1>5. CASE /\ restricted' = TRUE /\ domain' = ruleset.rules /\ stage' = next
             /\ log' = Append(log, op)
             /\ UNCHANGED <<config, user, mnt, filtered, view, base, shared, touched, faulty>>
    <2> USE <1>5 DEF config
    <2>1. ConfTypeOK /\ StageInv /\ LoadInv /\ DomainInv /\ ViewInv /\ log \in Seq(OpRecord)
      BY DEF ConfInv, ConfTypeOK
    <2>2. log' \in Seq(OpRecord) /\ \A k : Logged(k)' <=> Logged(k) \/ op.kind = k
      BY <1>1, <2>1, LogGrows, LoggedGrows
    <2>3. ConfTypeOK'
      <3>1. restricted' \in BOOLEAN
        BY Zenon
      <3> QED BY <2>1, <2>2, <3>1 DEF ConfTypeOK, SpawnStages
    <2>4. StageInv' /\ LoadInv' /\ DomainInv'
      <3>1. StageInv'
        BY <2>1, <2>2 DEF StageInv, SpawnStages, MountStages
      <3>2. LoadInv'
        BY <1>1, <2>1, <2>2 DEF LoadInv
      <3>3. DomainInv'
        BY <2>1 DEF DomainInv
      <3> QED BY <3>1, <3>2, <3>3
    <2>5. ViewInv'
      <3>1. CASE stage = "Compose"
        <4>1. op.kind \notin Mounting
          BY <1>1 DEF Mounting
        <4> QED BY <1>1, <3>1, <4>1, QuietStep DEF ViewInv
      <3>2. CASE stage = "Hook"
        BY <2>1, <3>2 DEF ViewInv, MountStages
      <3> QED BY <3>1, <3>2
    <2> QED BY <2>3, <2>4, <2>5 DEF ConfInv
  <1> QED BY <1>2, <1>4, <1>5

(* install_user_mount_ns: the id maps are refused only the second time,    *)
(* after landlock, or when something is mounted on /proc.                  *)
LEMMA UserNamespaceStep ==
  ASSUME ConfInv, install_user_mount_ns
  PROVE  ConfInv'
  <1> DEFINE op == Op("userns", <<>>, <<>>, ReadWrite, FALSE)
             acc == ~filtered /\ TakesIdMaps
  <1>1. op \in OpRecord /\ op.kind = "userns"
    <2>1. "userns" \in Kinds /\ <<>> \in Paths
      BY PathsAreNames DEF Kinds
    <2> QED BY <2>1, PlainOp
  <1>2. \/ /\ user' = TRUE /\ mnt' = TRUE /\ log' = Append(log, op)
           /\ UNCHANGED <<config, stage, filtered, domain, restricted, view, base,
                          shared, touched, faulty>>
        \/ Abort(acc, op)
    BY DEF install_user_mount_ns
  <1>3. stage = "Compose" /\ stage \notin Ended
    BY DEF install_user_mount_ns, Composing, Ended
  <1>4. acc \in BOOLEAN
    OBVIOUS
  <1>5. ~acc => Misused(op, Len(log))
    <2> HIDE DEF op
    <2>1. filtered => Logged("seccomp")
      BY <1>3 DEF ConfInv, LoadInv
    <2>2. user => Logged("userns")
      BY <1>3 DEF ConfInv, StageInv
    <2>3. restricted => Logged("landlock")
      BY <1>3 DEF ConfInv, LoadInv
    <2>4. ~ProcFilesWritable => restricted \/ \E i \in 1..Len(log) : MountsOn(i, ProcDir)
      <3> SUFFICES ASSUME \A i \in 1..Len(log) : ~MountsOn(i, ProcDir)
                   PROVE  ~ProcFilesWritable => restricted
        OBVIOUS
      <3>1. DOMAIN log = 1..Len(log) /\ stage \in MountStages /\ ProcDir \in Paths
        BY <1>3, LenProperties, ConfinementAssumption DEF ConfInv, ConfTypeOK, MountStages
      <3>2. /\ view[ProcDir].fs = "host" /\ view[ProcDir].path = ProcDir
            /\ view[ProcDir].flags = {}
        BY <3>1 DEF ConfInv, ViewInv, OwnInv
      <3> QED BY <3>2 DEF ProcFilesWritable
    <2>5. ~TakesIdMaps => user \/ ~ProcFilesWritable
      <3>1. 1 \in DOMAIN IdMapWrites /\ 3 \in DOMAIN IdMapWrites
        BY DEF IdMapWrites
      <3>2. IdMapWrites[1] = "setgroups" /\ IdMapWrites[3] = "gid_map" /\ 1 < 3
        BY DEF IdMapWrites
      <3> QED BY <3>1, <3>2 DEF TakesIdMaps
    <2>6. ~acc => \/ Before({"userns", "seccomp", "landlock"}, Len(log))
                  \/ \E i \in 1..Len(log) : MountsOn(i, ProcDir)
      BY <2>1, <2>2, <2>3, <2>4, <2>5, LoggedBefore
    <2> QED BY <1>1, <2>6 DEF Misused
  <1> HIDE DEF op, acc
  <1>6. CASE Abort(acc, op)
    BY <1>1, <1>3, <1>4, <1>5, <1>6, AbortStep
  <1>7. CASE /\ user' = TRUE /\ mnt' = TRUE /\ log' = Append(log, op)
             /\ UNCHANGED <<config, stage, filtered, domain, restricted, view, base,
                            shared, touched, faulty>>
    <2> USE <1>7 DEF config
    <2>1. ConfTypeOK /\ StageInv /\ LoadInv /\ DomainInv /\ ViewInv /\ log \in Seq(OpRecord)
      BY DEF ConfInv, ConfTypeOK
    <2>2. log' \in Seq(OpRecord) /\ \A k : Logged(k)' <=> Logged(k) \/ op.kind = k
      BY <1>1, <2>1, LogGrows, LoggedGrows
    <2>3. ConfTypeOK'
      <3>1. user' \in BOOLEAN /\ mnt' \in BOOLEAN
        BY Zenon
      <3> QED BY <2>1, <2>2, <3>1 DEF ConfTypeOK
    <2>4. StageInv' /\ LoadInv' /\ DomainInv'
      <3>1. StageInv'
        BY <1>1, <1>3, <2>1, <2>2 DEF StageInv, SpawnStages, MountStages
      <3>2. LoadInv'
        BY <1>1, <2>1, <2>2 DEF LoadInv
      <3>3. DomainInv'
        BY <1>3, <2>1 DEF DomainInv
      <3> QED BY <3>1, <3>2, <3>3
    <2>5. ViewInv'
      <3>1. op.kind \notin Mounting
        BY <1>1 DEF Mounting
      <3> QED BY <1>1, <1>3, <3>1, QuietStep DEF ViewInv
    <2> QED BY <1>3, <2>3, <2>4, <2>5 DEF ConfInv
  <1> QED BY <1>2, <1>6, <1>7

(* make_mounts_private                                                     *)
LEMMA MakeMountsPrivateStep ==
  ASSUME ConfInv, MakeMountsPrivate
  PROVE  ConfInv'
  <1> DEFINE op == Op("private", <<>>, <<>>, ReadWrite, FALSE)
  <1>1. op \in OpRecord /\ op.kind = "private"
    <2>1. "private" \in Kinds /\ <<>> \in Paths
      BY PathsAreNames DEF Kinds
    <2> QED BY <2>1, PlainOp
  <1>2. stage = "Private" /\ stage \notin Ended /\ stage \in MountStages
    BY DEF MakeMountsPrivate, Ended, MountStages
  <1>3. CASE Abort(MayMount, op)
    <2> HIDE DEF op
    <2>1. ~MayMount => Misused(op, Len(log))
      BY <1>1, <1>2, RefusedMount
    <2>2. MayMount \in BOOLEAN
      BY DEF MayMount
    <2> QED BY <1>1, <1>2, <1>3, <2>1, <2>2, AbortStep
  <1>4. CASE /\ shared' = FALSE /\ touched' = (touched \/ ~mnt)
             /\ stage' = IF rootfs = "none" THEN "Binds" ELSE "RootBind"
             /\ UNCHANGED <<config, user, mnt, filtered, domain, restricted, view, base,
                            log, faulty>>
    <2> USE <1>4 DEF config
    <2>1. ConfTypeOK /\ StageInv /\ LoadInv /\ DomainInv /\ ViewInv
      BY DEF ConfInv
    <2>2. stage' \in {"Binds", "RootBind"}
      OBVIOUS
    <2>3. ConfTypeOK'
      <3>1. shared' \in BOOLEAN /\ touched' \in BOOLEAN
        BY <2>1, Zenon DEF ConfTypeOK
      <3> QED BY <2>1, <2>2, <3>1 DEF ConfTypeOK, SpawnStages
    <2>4. StageInv'
      BY <1>2, <2>1, <2>2 DEF StageInv, SpawnStages, MountStages
    <2>5. LoadInv'
      BY <1>2, <2>1, <2>2 DEF LoadInv, Logged
    <2>6. DomainInv'
      BY <1>2, <2>1, <2>2 DEF DomainInv
    <2>7. ViewInv'
      <3>1. ViewTypeOK(view) /\ FileInv(view) /\ AtInv(view) /\ OwnInv /\ CallInv
        BY <1>2, <2>1 DEF ViewInv
      <3>2. OwnInv' /\ CallInv'
        BY <3>1 DEF OwnInv, CallInv, MountsOn
      <3> QED BY <3>1, <3>2 DEF ViewInv
    <2> QED BY <2>2, <2>3, <2>4, <2>5, <2>6, <2>7 DEF ConfInv
  <1> QED BY <1>3, <1>4 DEF MakeMountsPrivate

(* pivot_into and chroot_into                                              *)
LEMMA EnterRootfsStep ==
  ASSUME ConfInv, EnterRootfs
  PROVE  ConfInv'
  <1>1. /\ stage = "Root" /\ stage \notin Ended /\ stage \in MountStages
        /\ stage \in MountStages \cap SpawnStages
    BY DEF EnterRootfs, Ended, MountStages, SpawnStages
  <1>2. ConfTypeOK /\ StageInv /\ LoadInv /\ DomainInv /\ ViewInv /\ log \in Seq(OpRecord)
    BY DEF ConfInv, ConfTypeOK
  <1>3. ~MayMount => NoPrivilege
    BY <1>1, <1>2 DEF StageInv, MayMount, NoPrivilege
  <1>4. Rootfs \in Paths
    BY PathsAreNames
  <1>5. CASE rootfs \in {"pivot", "pivot_custom"}
    <2> DEFINE op == Op("pivot", <<>>, Rootfs, ReadWrite, FALSE)
               acc == rootfs = "pivot" /\ Writable(view, Rootfs)
               v == Pivoted(view)
               both == MayMount /\ acc
    <2>1. op \in OpRecord /\ op.kind = "pivot" /\ op.target = Rootfs
      <3>1. "pivot" \in Kinds
        BY DEF Kinds
      <3> QED BY <1>4, <3>1, PlainOp
    <2>2. Succeed(v, op, "Seccomp") \/ Abort(both, op)
      BY <1>5 DEF EnterRootfs, MountCall
    <2> HIDE DEF op, v
    <2>3. CASE Abort(both, op)
      <3>1. both \in BOOLEAN
        OBVIOUS
      <3>2. ~both => Misused(op, Len(log)) \/ CustomOldRoot(op)
        <4> SUFFICES ASSUME ~Misused(op, Len(log)), ~CustomOldRoot(op) PROVE both
          OBVIOUS
        <4>1. ~NoPrivilege /\ rootfs = "pivot" /\ ~Buried(op, Len(log))
          BY <1>5, <2>1 DEF Misused, CustomOldRoot
        <4>2. view[Rootfs].fs = "host" /\ view[Rootfs].flags = {}
          BY <1>1, <1>4, <2>1, <4>1, NotBuried
        <4> QED BY <1>3, <4>1, <4>2 DEF Writable
      <3> HIDE DEF both
      <3> QED BY <1>1, <2>1, <2>3, <3>1, <3>2, AbortStep
    <2>4. CASE Succeed(v, op, "Seccomp")
      <3> USE <2>4 DEF Succeed, UnchangedProcess, config
      <3>1. log' \in Seq(OpRecord) /\ \A k : Logged(k)' <=> Logged(k) \/ op.kind = k
        BY <1>2, <2>1, LogGrows, LoggedGrows
      <3>2. ConfTypeOK'
        <4>1. touched' \in BOOLEAN
          BY <1>2, Zenon DEF ConfTypeOK
        <4> QED BY <1>2, <3>1, <4>1 DEF ConfTypeOK, SpawnStages
      <3>3. StageInv'
        BY <1>1, <1>2 DEF StageInv, SpawnStages, MountStages
      <3>4. LoadInv'
        BY <1>1, <1>2, <2>1, <3>1 DEF LoadInv
      <3>5. DomainInv'
        BY <1>1, <1>2 DEF DomainInv
      <3>6. ViewInv'
        <4>1. ViewTypeOK(view) /\ FileInv(view)
          BY <1>1, <1>2 DEF ViewInv
        <4>2. ViewTypeOK(v) /\ FileInv(v)
          BY <4>1, PivotedOK DEF v
        <4> QED BY <4>2 DEF ViewInv, MountStages
      <3> QED BY <3>2, <3>3, <3>4, <3>5, <3>6 DEF ConfInv
    <2> QED BY <2>2, <2>3, <2>4
  <1>6. CASE rootfs = "chroot"
    <2> DEFINE op == Op("chroot", <<>>, Rootfs, ReadWrite, FALSE)
    <2>1. op \in OpRecord /\ op.kind = "chroot"
      <3>1. "chroot" \in Kinds
        BY DEF Kinds
      <3> QED BY <1>4, <3>1, PlainOp
    <2>2. \/ /\ base' = Rootfs /\ stage' = "Seccomp"
             /\ UNCHANGED <<config, user, mnt, filtered, domain, restricted, view,
                            shared, touched, log, faulty>>
          \/ Abort(MayMount, op)
      BY <1>6 DEF EnterRootfs
    <2> HIDE DEF op
    <2>3. CASE Abort(MayMount, op)
      <3>1. ~MayMount => Misused(op, Len(log))
        BY <1>1, <2>1, RefusedMount
      <3>2. MayMount \in BOOLEAN
        BY DEF MayMount
      <3> QED BY <1>1, <2>1, <2>3, <3>1, <3>2, AbortStep
    <2>4. CASE /\ base' = Rootfs /\ stage' = "Seccomp"
               /\ UNCHANGED <<config, user, mnt, filtered, domain, restricted, view,
                              shared, touched, log, faulty>>
      <3> USE <2>4 DEF config
      <3>1. ConfTypeOK'
        BY <1>2 DEF ConfTypeOK, SpawnStages
      <3>2. StageInv'
        BY <1>1, <1>2 DEF StageInv, SpawnStages, MountStages
      <3>3. LoadInv'
        BY <1>1, <1>2 DEF LoadInv, Logged
      <3>4. DomainInv'
        BY <1>1, <1>2 DEF DomainInv
      <3>5. ViewInv'
        BY <1>1, <1>2 DEF ViewInv, MountStages
      <3> QED BY <3>1, <3>2, <3>3, <3>4, <3>5 DEF ConfInv
    <2> QED BY <2>2, <2>3, <2>4
  <1> QED BY <1>5, <1>6 DEF EnterRootfs

-----------------------------------------------------------------------------
(* Every step keeps the invariant.                                         *)
LEMMA ConfStep == ConfInv /\ [Next]_vars => ConfInv'
  <1> SUFFICES ASSUME ConfInv, [Next]_vars PROVE ConfInv'
    OBVIOUS
  <1>1. CASE MakeMountsPrivate \/ BindRootfs \/ EnterRootfs
    BY <1>1, MakeMountsPrivateStep, BindRootfsStep, EnterRootfsStep
  <1>2. CASE InstallSeccomp
    <2> DEFINE next == "Hook"
    <2>1. stage = "Seccomp" /\ (Skip(next) \/ LoadsFilter(next)) /\ next = "Hook"
      BY <1>2 DEF InstallSeccomp
    <2> HIDE DEF next
    <2> QED BY <2>1, SkipStep, LoadsFilterStep
  <1>3. CASE RunHook
    <2> DEFINE next == "Exec"
    <2>1. /\ stage = "Hook" /\ next = "Exec"
          /\ \/ hook /\ Restricts(next)
             \/ ~hook /\ Skip(next)
      BY <1>3 DEF RunHook
    <2> HIDE DEF next
    <2> QED BY <2>1, SkipStep, RestrictsStep
  <1>4. CASE Exec
    <2> DEFINE next == "Target"
    <2>1. stage = "Exec" /\ next = "Target" /\ Skip(next)
      BY <1>4 DEF Exec
    <2>2. hook => restricted
      BY <2>1 DEF ConfInv, DomainInv
    <2> HIDE DEF next
    <2> QED BY <2>1, <2>2, SkipStep
  <1>5. ASSUME NEW m \in Mounts, BindMount(m) \/ install_mount(m) PROVE ConfInv'
    BY <1>5, BindMountStep, InstallMountStep
  <1>6. ASSUME NEW t \in Overlays,
               MountTmpfs(t) \/ \E f \in SUBSET {"ro"} : install_tmpfs(t, f)
        PROVE  ConfInv'
    BY <1>6, MountTmpfsStep, InstallTmpfsStep
  <1>7. ASSUME NEW mode \in {"Remount", "Hide", "Leave"}, ApplyProcfs(mode) PROVE ConfInv'
    BY <1>7, ApplyProcfsStep
  <1>8. ASSUME NEW b \in Binds, install_bind(b) PROVE ConfInv'
    BY <1>8, InstallBindStep
  <1>9. CASE install_user_mount_ns
    BY <1>9, UserNamespaceStep
  <1>10. CASE ComposeLandlock \/ ComposeSeccomp
    <2> DEFINE next == "Compose"
    <2>1. stage = "Compose" /\ next = "Compose" /\ (Restricts(next) \/ LoadsFilter(next))
      BY <1>10 DEF ComposeLandlock, ComposeSeccomp, Composing
    <2> HIDE DEF next
    <2> QED BY <2>1, RestrictsStep, LoadsFilterStep
  <1>11. CASE ComposeExec
    <2> DEFINE next == "Target"
    <2>1. stage = "Compose" /\ next = "Target" /\ Skip(next)
      BY <1>11 DEF ComposeExec
    <2>2. hook => Logged("landlock")
      BY <1>11 DEF ComposeExec, Logged
    <2>3. hook => restricted
      BY <2>1, <2>2 DEF ConfInv, LoadInv
    <2> HIDE DEF next
    <2> QED BY <2>1, <2>3, SkipStep
  <1>12. CASE UNCHANGED vars
    <2> USE <1>12 DEF vars, config
    <2>1. ConfTypeOK' /\ StageInv' /\ LoadInv'
      BY DEF ConfInv, ConfTypeOK, StageInv, LoadInv, Logged
    <2>2. DomainInv'
      BY DEF ConfInv, DomainInv
    <2>3. ViewInv'
      BY DEF ConfInv, ViewInv, OwnInv, CallInv, MountsOn
    <2>4. Misused(Last(log), Len(log) - 1) => Misused(Last(log), Len(log) - 1)'
      <3>1. /\ \A k, n : Before(k, n) <=> Before(k, n)'
            /\ \A op, n : Buried(op, n) <=> Buried(op, n)'
        BY DEF Before, Buried, MountsOn
      <3>2. (NoPrivilege <=> NoPrivilege') /\ \A op : Mismatched(op) <=> Mismatched(op)'
        BY DEF NoPrivilege, Mismatched
      <3>3. Last(log)' = Last(log) /\ Len(log)' = Len(log)
        OBVIOUS
      <3>4. \A i : MountsOn(i, ProcDir) <=> MountsOn(i, ProcDir)'
        BY DEF MountsOn
      <3> QED BY <3>1, <3>2, <3>3, <3>4 DEF Misused
    <2>5. CustomOldRoot(Last(log)) => CustomOldRoot(Last(log))'
      BY DEF CustomOldRoot
    <2> QED BY <2>1, <2>2, <2>3, <2>4, <2>5 DEF ConfInv
  <1> QED
    BY <1>1, <1>2, <1>3, <1>4, <1>5, <1>6, <1>7, <1>8, <1>9, <1>10, <1>11, <1>12 DEF Next

(* The log of the operations tells what is in force and what is covered:   *)
(* at every step of exec_sandboxed, and of any pre_exec, what no mount has *)
(* covered is the host's, nothing is below a file, the domain is the one   *)
(* that the parent prepared, and a child that gave up has a cause.         *)
THEOREM ConfinementKeepsInv == Spec => []ConfInv
  <1> QED BY ConfInitially, ConfStep, PTL DEF Spec

(* A mount that is made in a mount namespace of its own stays there.       *)
LEMMA ReachStep ==
  ASSUME ConfInv, stage \in MountStages \ {"Private"}, MayMount, ReachesHost
  PROVE  root /\ ~mnt
  <1>1. stage \in SpawnStages \ {"Private"} \/ stage = "Compose"
    BY DEF MountStages, SpawnStages
  <1>2. ~shared \/ (mnt => user)
    BY <1>1 DEF ConfInv, StageInv
  <1> QED BY <1>2 DEF MayMount, ReachesHost

(* A mount call reaches the host only from root without a mount namespace. *)
LEMMA CallTouches ==
  ASSUME ConfInv, stage \in MountStages \ {"Private"}, NEW acc, NEW v, NEW op, NEW next,
         MountCall(acc, v, op, next), touched', ~touched
  PROVE  root /\ ~mnt
  BY ReachStep DEF MountCall, Succeed, Abort

(* So does a bind with its remount.                                        *)
LEMMA BindTouches ==
  ASSUME ConfInv, stage \in MountStages \ {"Private"}, NEW acc, NEW op, NEW next,
         BindAndRemount(acc, op, next), touched', ~touched
  PROVE  root /\ ~mnt
  <1> DEFINE b == BindRec(view, op.source, op.target, Call)
             after(deep) == Remount(b, op.target, RemountFlags(op.perm), deep)
  <1>1. CASE MountCall(acc, b, op, next)
    BY <1>1, CallTouches
  <1>2. ASSUME NEW deep \in {FALSE, op.deep}, MountCall(acc, after(deep), op, next)
        PROVE  root /\ ~mnt
    BY <1>2, CallTouches
  <1>3. CASE AbortBound(b, op)
    BY <1>3, ReachStep DEF AbortBound
  <1> QED BY <1>1, <1>2, <1>3 DEF BindAndRemount

(* In no configuration does a child that has a mount namespace, or whose   *)
(* caller is not root, change the mounts of the host: make_mounts_private  *)
(* comes before every mount of exec_sandboxed, and a pre_exec gets its     *)
(* mount namespace from install_user_mount_ns only.                        *)
THEOREM HostStaysUntouched == Spec => HostUntouched
  <1>1. ConfInv /\ [Next]_vars => [touched' /\ ~touched => root /\ ~mnt]_vars
    <2> SUFFICES ASSUME ConfInv, Next, touched', ~touched PROVE root /\ ~mnt
      BY DEF vars
    <2> DEFINE Later == stage \in MountStages \ {"Private"}
    <2>1. CASE MakeMountsPrivate
      <3>1. MayMount /\ ~mnt
        BY <2>1 DEF MakeMountsPrivate, Abort
      <3> QED BY <3>1 DEF MayMount
    <2>2. CASE BindRootfs
      <3>1. Later
        BY <2>2 DEF BindRootfs, MountStages
      <3> QED BY <2>2, <3>1, CallTouches DEF BindRootfs
    <2>3. CASE EnterRootfs
      <3>1. Later
        BY <2>3 DEF EnterRootfs, MountStages
      <3> QED BY <2>3, <3>1, CallTouches DEF EnterRootfs, Abort
    <2>4. CASE InstallSeccomp \/ RunHook \/ Exec
      BY <2>4 DEF InstallSeccomp, RunHook, Exec, Skip, LoadsFilter, Restricts, Abort
    <2>5. ASSUME NEW m \in Mounts, BindMount(m) PROVE root /\ ~mnt
      <3>1. Later
        BY <2>5 DEF BindMount, MountStages
      <3> QED BY <2>5, <3>1, BindTouches DEF BindMount
    <2>6. ASSUME NEW m \in Mounts, install_mount(m) PROVE root /\ ~mnt
      <3>1. Later
        BY <2>6 DEF install_mount, Composing, MountStages
      <3> QED BY <2>6, <3>1, CallTouches DEF install_mount
    <2>7. ASSUME NEW t \in Overlays, MountTmpfs(t) PROVE root /\ ~mnt
      <3>1. Later
        BY <2>7 DEF MountTmpfs, MountStages
      <3> QED BY <2>7, <3>1, CallTouches DEF MountTmpfs
    <2>8. ASSUME NEW t \in Overlays, NEW f \in SUBSET {"ro"}, install_tmpfs(t, f)
          PROVE  root /\ ~mnt
      <3>1. Later
        BY <2>8 DEF install_tmpfs, Composing, MountStages
      <3> QED BY <2>8, <3>1, CallTouches DEF install_tmpfs
    <2>9. ASSUME NEW mode, ApplyProcfs(mode) PROVE root /\ ~mnt
      <3>1. Later
        BY <2>9 DEF ApplyProcfs, MountStages
      <3>2. CASE mode = "Leave"
        BY <2>9, <3>2 DEF ApplyProcfs
      <3>3. CASE mode # "Leave"
        BY <2>9, <3>1, <3>3, CallTouches DEF ApplyProcfs
      <3> QED BY <3>2, <3>3
    <2>10. ASSUME NEW b \in Binds, install_bind(b) PROVE root /\ ~mnt
      <3>1. Later
        BY <2>10 DEF install_bind, Composing, MountStages
      <3> QED BY <2>10, <3>1, BindTouches DEF install_bind
    <2>11. CASE install_user_mount_ns
      BY <2>11 DEF install_user_mount_ns, Abort
    <2>12. CASE ComposeLandlock \/ ComposeSeccomp \/ ComposeExec
      BY <2>12 DEF ComposeLandlock, ComposeSeccomp, ComposeExec, Skip, LoadsFilter,
                   Restricts, Abort
    <2> QED BY <2>1, <2>2, <2>3, <2>4, <2>5, <2>6, <2>7, <2>8, <2>9, <2>10, <2>11, <2>12
            DEF Next
  <1> QED BY <1>1, ConfinementKeepsInv, PTL DEF Spec, HostUntouched

-----------------------------------------------------------------------------
(* What prepare_landlock makes of a decision                               *)

(* The paths that the read rules name, and the list of all rules           *)
ReadPaths(d) == IF d.read.kind = "Broad" THEN << <<>> >> ELSE d.read.paths

Wanted(d) == Rules(d.writable, FromAll(REQUIRED_ABI)) \o ReadRules(d.read)

PathLists == Seq(Paths \cup Missing)

Masks == {FromAll(REQUIRED_ABI), FromRead}

RuleRecords == [path : Paths \cup Missing, mask : Masks]

(* What the decision grants on the object at p                             *)
MaskOf(d, p) ==
  IF \E i \in DOMAIN d.writable : d.writable[i] = p THEN FromAll(REQUIRED_ABI)
  ELSE IF \E i \in DOMAIN ReadPaths(d) : ReadPaths(d)[i] = p THEN FromRead ELSE {}

(* Both lists of a decision are lists of paths, and all reads have one     *)
(* mask.                                                                   *)
LEMMA DecisionLists ==
  ASSUME NEW d \in Decisions
  PROVE  /\ d.writable \in PathLists /\ ReadPaths(d) \in PathLists
         /\ ReadRules(d.read) = Rules(ReadPaths(d), FromRead)
  <1>1. << <<>> >> \in PathLists
    BY PathsAreNames DEF PathLists
  <1>2. d.writable \in PathLists /\ (d.read.kind # "Broad" => d.read.paths \in PathLists)
    BY ConfinementAssumption DEF PathLists
  <1> QED BY <1>1, <1>2 DEF ReadPaths, ReadRules

(* A list of rules is as long as its paths.                                *)
LEMMA RulesAre ==
  ASSUME NEW paths \in PathLists, NEW mask \in Masks
  PROVE  /\ Rules(paths, mask) \in Seq(RuleRecords)
         /\ Len(Rules(paths, mask)) = Len(paths) /\ Len(paths) \in Nat
         /\ DOMAIN paths = 1..Len(paths)
         /\ \A i \in 1..Len(paths) : /\ Rules(paths, mask)[i].path = paths[i]
                                     /\ Rules(paths, mask)[i].mask = mask
  <1> USE DEF PathLists
  <1>1. Len(paths) \in Nat /\ DOMAIN paths = 1..Len(paths)
    BY LenProperties
  <1> DEFINE R == Rules(paths, mask)
  <1>2. R = [i \in 1..Len(paths) |-> [path |-> paths[i], mask |-> mask]]
    BY <1>1 DEF Rules
  <1> HIDE DEF R
  <1>3. \A i \in 1..Len(paths) : paths[i] \in Paths \cup Missing
    BY ElementOfSeq
  <1>4. \A i \in 1..Len(paths) :
          /\ R[i] \in RuleRecords
          /\ R[i].path = paths[i] /\ R[i].mask = mask
    BY <1>2, <1>3 DEF RuleRecords
  <1>5. R \in Seq(RuleRecords) /\ Len(R) = Len(paths)
    BY <1>1, <1>2, <1>4
  <1> QED BY <1>1, <1>4, <1>5 DEF R

(* The rules of the writable paths come first.                             *)
LEMMA WantedRules ==
  ASSUME NEW d \in Decisions
  PROVE  /\ DOMAIN Wanted(d) = 1..(Len(d.writable) + Len(ReadPaths(d)))
         /\ Len(d.writable) \in Nat /\ Len(ReadPaths(d)) \in Nat
         /\ DOMAIN d.writable = 1..Len(d.writable)
         /\ DOMAIN ReadPaths(d) = 1..Len(ReadPaths(d))
         /\ \A i \in 1..Len(d.writable) :
              /\ Wanted(d)[i].path = d.writable[i]
              /\ Wanted(d)[i].mask = FromAll(REQUIRED_ABI)
              /\ d.writable[i] \in Paths \cup Missing
         /\ \A i \in 1..Len(ReadPaths(d)) :
              /\ Wanted(d)[Len(d.writable) + i].path = ReadPaths(d)[i]
              /\ Wanted(d)[Len(d.writable) + i].mask = FromRead
              /\ ReadPaths(d)[i] \in Paths \cup Missing
  <1> DEFINE w == d.writable
             x == ReadPaths(d)
             a == FromAll(REQUIRED_ABI)
             A == Rules(w, a)
             B == Rules(x, FromRead)
  <1>1. /\ w \in PathLists /\ x \in PathLists /\ Wanted(d) = A \o B
        /\ a \in Masks /\ FromRead \in Masks
    BY DecisionLists DEF Wanted, Masks
  <1> HIDE DEF w, x, a
  <1>2. /\ A \in Seq(RuleRecords)
        /\ Len(A) = Len(w) /\ Len(w) \in Nat /\ DOMAIN w = 1..Len(w)
        /\ \A i \in 1..Len(w) : A[i].path = w[i] /\ A[i].mask = a
    BY <1>1, RulesAre
  <1>3. /\ B \in Seq(RuleRecords)
        /\ Len(B) = Len(x) /\ Len(x) \in Nat /\ DOMAIN x = 1..Len(x)
        /\ \A i \in 1..Len(x) : B[i].path = x[i] /\ B[i].mask = FromRead
    BY <1>1, RulesAre
  <1> HIDE DEF A, B
  <1>5. /\ DOMAIN (A \o B) = 1..(Len(w) + Len(x))
        /\ \A i \in 1..Len(w) : (A \o B)[i] = A[i]
        /\ \A i \in 1..Len(x) : (A \o B)[Len(w) + i] = B[i]
    <2>0. A \in Seq(RuleRecords) /\ B \in Seq(RuleRecords)
      BY <1>2, <1>3
    <2>1. /\ A \o B \in Seq(RuleRecords) /\ Len(A \o B) = Len(A) + Len(B)
          /\ \A i \in 1..(Len(A) + Len(B)) :
               (A \o B)[i] = IF i <= Len(A) THEN A[i] ELSE B[i - Len(A)]
      BY <2>0, ConcatProperties
    <2>2. DOMAIN (A \o B) = 1..Len(A \o B)
      BY <2>1, LenProperties
    <2> QED BY <1>2, <1>3, <2>1, <2>2
  <1>6. /\ \A i \in 1..Len(w) : w[i] \in Paths \cup Missing
        /\ \A i \in 1..Len(x) : x[i] \in Paths \cup Missing
    BY <1>1, ElementOfSeq DEF PathLists
  <1>7. /\ DOMAIN Wanted(d) = 1..(Len(w) + Len(x))
        /\ \A i \in 1..Len(w) : Wanted(d)[i] = A[i]
        /\ \A i \in 1..Len(x) : Wanted(d)[Len(w) + i] = B[i]
    BY <1>1, <1>5
  <1>8. \A i \in 1..Len(w) :
          Wanted(d)[i].path = w[i] /\ Wanted(d)[i].mask = a /\ w[i] \in Paths \cup Missing
    BY <1>2, <1>6, <1>7
  <1>9. \A i \in 1..Len(x) : /\ Wanted(d)[Len(w) + i].path = x[i]
                              /\ Wanted(d)[Len(w) + i].mask = FromRead
                              /\ x[i] \in Paths \cup Missing
    BY <1>3, <1>6, <1>7
  <1>10. /\ DOMAIN Wanted(d) = 1..(Len(w) + Len(x))
         /\ Len(w) \in Nat /\ DOMAIN w = 1..Len(w) /\ Len(x) \in Nat /\ DOMAIN x = 1..Len(x)
    BY <1>2, <1>3, <1>7
  <1> QED BY <1>8, <1>9, <1>10 DEF w, x, a

(* The masks of from_all and from_read, neither of them empty.             *)
LEMMA MasksDiffer ==
  /\ FromAll(REQUIRED_ABI) = {"read", "readdir", "write", "make", "refer", "truncate"}
  /\ FromRead = {"read", "readdir"} /\ FromRead # {} /\ FromAll(REQUIRED_ABI) # {}
  BY DEF FromAll, FromRead, REQUIRED_ABI

(* The first rule for a path gives it what the decision grants: the other  *)
(* ones are dropped, and a writable path is named before it is read.       *)
LEMMA FirstRule ==
  ASSUME NEW d \in Decisions, NEW i \in DOMAIN Wanted(d),
         \A j \in 1..(i - 1) : Wanted(d)[j].path # Wanted(d)[i].path
  PROVE  /\ Wanted(d)[i].mask = MaskOf(d, Wanted(d)[i].path)
         /\ Wanted(d)[i].path \in Paths \cup Missing
  <1> DEFINE w == d.writable
             x == ReadPaths(d)
             R == Wanted(d)
             a == FromAll(REQUIRED_ABI)
  <1>1. /\ DOMAIN R = 1..(Len(w) + Len(x))
        /\ Len(w) \in Nat /\ Len(x) \in Nat
        /\ DOMAIN w = 1..Len(w) /\ DOMAIN x = 1..Len(x)
        /\ \A k \in 1..Len(w) : /\ R[k].path = w[k] /\ R[k].mask = a
                                /\ w[k] \in Paths \cup Missing
        /\ \A k \in 1..Len(x) : /\ R[Len(w) + k].path = x[k] /\ R[Len(w) + k].mask = FromRead
                                /\ x[k] \in Paths \cup Missing
    BY WantedRules
  <1>2. MaskOf(d, R[i].path) =
          IF \E k \in DOMAIN w : w[k] = R[i].path THEN a
          ELSE IF \E k \in DOMAIN x : x[k] = R[i].path THEN FromRead ELSE {}
    BY DEF MaskOf
  <1>3. \A j \in 1..(i - 1) : R[j].path # R[i].path
    OBVIOUS
  <1>4. i \in DOMAIN R
    OBVIOUS
  <1> HIDE DEF w, x, R, a
  <1>5. CASE i <= Len(w)
    BY <1>1, <1>2, <1>4, <1>5 DEF R
  <1>6. CASE i > Len(w)
    <2>1. i - Len(w) \in 1..Len(x) /\ Len(w) + (i - Len(w)) = i
      BY <1>1, <1>4, <1>6
    <2>2. R[i].path = x[i - Len(w)] /\ R[i].mask = FromRead /\ R[i].path \in Paths \cup Missing
      BY <1>1, <2>1
    <2>3. \A k \in DOMAIN w : w[k] # R[i].path
      <3> SUFFICES ASSUME NEW k \in 1..Len(w) PROVE w[k] # R[i].path
        BY <1>1
      <3>1. k \in 1..(i - 1) /\ R[k].path = w[k]
        BY <1>1, <1>4, <1>6
      <3> QED BY <1>3, <3>1
    <2> QED BY <1>1, <1>2, <2>1, <2>2, <2>3 DEF R
  <1>7. i \in Int /\ Len(w) \in Int
    BY <1>1, <1>4
  <1> QED BY <1>5, <1>6, <1>7

(* The rule a path gets in build_ruleset has the mask of its first         *)
(* occurrence.                                                             *)
LEMMA AddedRules ==
  ASSUME NEW d \in Decisions
  PROVE  /\ \A r \in Added(Wanted(d)) :
              r.path \in Paths /\ r.mask = MaskOf(d, r.path) /\ r.mask \in Masks
         /\ \A p \in Paths : MaskOf(d, p) # {} =>
              \E r \in Added(Wanted(d)) : r.path = p /\ r.mask = MaskOf(d, p)
  <1> DEFINE R == Wanted(d)
             kept == {i \in DOMAIN R : /\ R[i].path \notin Missing
                                       /\ \A j \in 1..(i - 1) : R[j].path # R[i].path}
  <1>1. Added(Wanted(d)) = {R[i] : i \in kept}
    BY DEF Added
  <1>2. \A i \in kept : /\ R[i].path \in Paths /\ R[i].mask = MaskOf(d, R[i].path)
                        /\ R[i].mask \in Masks
    <2> SUFFICES ASSUME NEW i \in kept
                 PROVE  /\ R[i].path \in Paths /\ R[i].mask = MaskOf(d, R[i].path)
                        /\ R[i].mask \in Masks
      OBVIOUS
    <2>1. R[i].mask = MaskOf(d, R[i].path) /\ R[i].path \in Paths \cup Missing
      BY FirstRule
    <2>2. R[i].mask \in Masks
      <3> DEFINE n == Len(d.writable)
                 m == Len(ReadPaths(d))
      <3>1. /\ i \in 1..(n + m) /\ n \in Nat /\ m \in Nat
            /\ \A k \in 1..n : R[k].mask \in Masks
            /\ \A k \in 1..m : R[n + k].mask \in Masks
        BY WantedRules DEF Masks
      <3> HIDE DEF n, m, R
      <3>2. i \in 1..n \/ (i - n \in 1..m /\ n + (i - n) = i)
        BY <3>1
      <3> QED BY <3>1, <3>2
    <2> QED BY <2>1, <2>2
  <1>3. ASSUME NEW p \in Paths, MaskOf(d, p) # {}
        PROVE  \E i \in kept : R[i].path = p
    <2> DEFINE I == {i \in DOMAIN R : R[i].path = p}
    <2>1. /\ DOMAIN R = 1..(Len(d.writable) + Len(ReadPaths(d)))
          /\ Len(d.writable) \in Nat /\ Len(ReadPaths(d)) \in Nat
          /\ DOMAIN d.writable = 1..Len(d.writable)
          /\ DOMAIN ReadPaths(d) = 1..Len(ReadPaths(d))
          /\ \A i \in 1..Len(d.writable) : R[i].path = d.writable[i]
          /\ \A i \in 1..Len(ReadPaths(d)) : R[Len(d.writable) + i].path = ReadPaths(d)[i]
      BY WantedRules
    <2> HIDE DEF R
    <2>2. I # {}
      <3>1. CASE \E i \in DOMAIN d.writable : d.writable[i] = p
        BY <2>1, <3>1
      <3>2. CASE \E i \in DOMAIN ReadPaths(d) : ReadPaths(d)[i] = p
        <4>1. PICK i \in 1..Len(ReadPaths(d)) : ReadPaths(d)[i] = p
          BY <2>1, <3>2
        <4>2. Len(d.writable) + i \in DOMAIN R /\ R[Len(d.writable) + i].path = p
          BY <2>1, <4>1
        <4> QED BY <4>2
      <3> QED BY <1>3, <3>1, <3>2 DEF MaskOf
    <2>3. I \in SUBSET Nat
      BY <2>1
    <2>4. PICK i \in I : \A j \in I : i <= j
      BY <2>2, <2>3, FirstIndex
    <2>5. \A j \in 1..(i - 1) : R[j].path # R[i].path
      <3> DEFINE N == Len(d.writable) + Len(ReadPaths(d))
      <3>1. DOMAIN R = 1..N /\ N \in Nat
        BY <2>1
      <3> HIDE DEF N
      <3>2. i \in 1..N /\ R[i].path = p /\ \A j \in 1..N : R[j].path = p => i <= j
        BY <2>4, <3>1
      <3>3. \A j \in 1..(i - 1) : j \in 1..N /\ ~(i <= j)
        BY <3>1, <3>2
      <3> QED BY <3>2, <3>3
    <2>6. p \notin Missing
      BY LandlockAssumption
    <2> QED BY <2>4, <2>5, <2>6
  <1> QED BY <1>1, <1>2, <1>3

(* build_ruleset refuses an old kernel only, and its rules are what the    *)
(* decision grants, without rights of directories on files.                *)
LEMMA PreparedRules ==
  ASSUME NEW d \in Decisions, NEW k \in KernelABIs, NEW P, P = prepare_landlock(d, k)
  PROVE  /\ ~P.ok => P.why \in {"unavailable", "abi"}
         /\ P.ok => /\ \A r \in P.rules :
                         /\ r.path \in Paths
                         /\ r.mask = legal_mask(MaskOf(d, r.path), r.path, REQUIRED_ABI)
                    /\ \A p \in Paths : MaskOf(d, p) # {} =>
                         \E r \in P.rules :
                           r.path = p /\ r.mask = legal_mask(MaskOf(d, p), p, REQUIRED_ABI)
  <1> DEFINE A == Added(Wanted(d))
             legal == {[path |-> r.path, mask |-> legal_mask(r.mask, r.path, REQUIRED_ABI)]
                       : r \in A}
             good == \A r \in legal : AddRuleAccepts(REQUIRED_ABI, r.path, r.mask)
  <1>1. P = IF k = 0 THEN NoRuleset("unavailable")
            ELSE IF k < REQUIRED_ABI THEN NoRuleset("abi")
            ELSE IF good THEN [ok |-> TRUE, why |-> "", rules |-> legal] ELSE NoRuleset("rule")
    BY DEF prepare_landlock, build_ruleset, Wanted
  <1>2. /\ \A r \in A : r.path \in Paths /\ r.mask = MaskOf(d, r.path) /\ r.mask \in Masks
        /\ \A p \in Paths : MaskOf(d, p) # {} =>
             \E r \in A : r.path = p /\ r.mask = MaskOf(d, p)
    BY AddedRules
  <1> HIDE DEF A
  <1>3. good
    <2> SUFFICES ASSUME NEW r \in A
                 PROVE  AddRuleAccepts(REQUIRED_ABI, r.path,
                                       legal_mask(r.mask, r.path, REQUIRED_ABI))
      OBVIOUS
    <2>1. r.mask = FromAll(REQUIRED_ABI) \/ r.mask = FromRead
      BY <1>2 DEF Masks
    <2>2. /\ "read" \in r.mask /\ r.mask \subseteq FromAll(REQUIRED_ABI)
          /\ "read" \in FromFile(REQUIRED_ABI)
      BY <2>1, MasksDiffer DEF FromFile, DirectoryOnly
    <2> QED BY <2>2 DEF AddRuleAccepts, legal_mask, FromFile
  <1>4. \A r \in legal :
          r.path \in Paths /\ r.mask = legal_mask(MaskOf(d, r.path), r.path, REQUIRED_ABI)
    BY <1>2
  <1>5. \A p \in Paths : MaskOf(d, p) # {} =>
          \E r \in legal : r.path = p /\ r.mask = legal_mask(MaskOf(d, p), p, REQUIRED_ABI)
    <2> SUFFICES ASSUME NEW p \in Paths, MaskOf(d, p) # {}
                 PROVE  \E r \in legal :
                          r.path = p /\ r.mask = legal_mask(MaskOf(d, p), p, REQUIRED_ABI)
      OBVIOUS
    <2>1. PICK r \in A : r.path = p /\ r.mask = MaskOf(d, p)
      BY <1>2
    <2> DEFINE x == [path |-> r.path, mask |-> legal_mask(r.mask, r.path, REQUIRED_ABI)]
    <2>2. x \in legal
      OBVIOUS
    <2>3. x.path = p /\ x.mask = legal_mask(MaskOf(d, p), p, REQUIRED_ABI)
      BY <2>1
    <2> QED BY <2>2, <2>3
  <1> HIDE DEF legal, good
  <1>6. CASE k = 0 \/ k < REQUIRED_ABI
    <2>1. P = NoRuleset("unavailable") \/ P = NoRuleset("abi")
      BY <1>1, <1>6, Zenon
    <2>2. P.ok = FALSE /\ P.why \in {"unavailable", "abi"}
      BY <2>1 DEF NoRuleset
    <2> QED BY <2>2, Zenon
  <1>7. CASE ~(k = 0 \/ k < REQUIRED_ABI)
    <2> DEFINE none == ""
               yes == TRUE
    <2>1. P = [ok |-> yes, why |-> none, rules |-> legal]
      BY <1>1, <1>3, <1>7
    <2> HIDE DEF none, yes
    <2>2. P.rules = legal /\ P.ok = yes
      BY <2>1
    <2>3. P.ok
      BY <2>2, Zenon DEF yes
    <2> QED BY <1>4, <1>5, <2>2, <2>3, Zenon
  <1> QED BY <1>6, <1>7

-----------------------------------------------------------------------------
(* With a custom old_root the pipeline does not get past pivot_into.       *)
CustomInv ==
  /\ pipeline = "pre_exec" => rootfs = "none"
  /\ stage \in Late => rootfs # "pivot_custom"

(* Only pivot_into with the default old_root, chroot_into and a pipeline   *)
(* without rootfs lead to the steps after the mounts.                      *)
LEMMA CustomStep == CustomInv /\ [Next]_vars => CustomInv'
  <1> SUFFICES ASSUME CustomInv, [Next]_vars PROVE CustomInv'
    OBVIOUS
  <1> USE DEF config, UnchangedProcess
  <1>1. ASSUME UNCHANGED <<pipeline, rootfs>>,
               stage' \in Late => stage \in Late \/ rootfs # "pivot_custom"
        PROVE  CustomInv'
    BY <1>1 DEF CustomInv
  <1>2. ASSUME NEW accepted, NEW op, Abort(accepted, op) PROVE CustomInv'
    BY <1>1, <1>2 DEF Abort, Late
  <1>3. ASSUME NEW accepted, NEW v, NEW op, NEW next, MountCall(accepted, v, op, next),
               next \in Late => rootfs # "pivot_custom" \/ ~accepted
        PROVE  CustomInv'
    BY <1>1, <1>2, <1>3 DEF MountCall, Succeed
  <1>4. ASSUME NEW accepted, NEW op, NEW next, BindAndRemount(accepted, op, next),
               next \notin Late
        PROVE  CustomInv'
    <2>1. ASSUME NEW v, AbortBound(v, op) PROVE CustomInv'
      BY <1>1, <2>1 DEF AbortBound, Late
    <2> QED BY <1>3, <1>4, <2>1 DEF BindAndRemount
  <1>5. ASSUME NEW next, LoadsFilter(next) \/ Restricts(next) \/ Skip(next),
               next \in Late => stage \in Late \/ rootfs # "pivot_custom"
        PROVE  CustomInv'
    <2>1. CASE LoadsFilter(next)
      BY <1>1, <1>2, <1>5, <2>1 DEF LoadsFilter
    <2>2. CASE Restricts(next)
      BY <1>1, <1>2, <1>5, <2>2 DEF Restricts
    <2>3. CASE Skip(next)
      BY <1>1, <1>5, <2>3 DEF Skip
    <2> QED BY <1>5, <2>1, <2>2, <2>3
  <1>6. CASE MakeMountsPrivate
    <2>1. CASE /\ stage' = IF rootfs = "none" THEN "Binds" ELSE "RootBind"
               /\ UNCHANGED <<pipeline, rootfs>>
      BY <1>1, <2>1 DEF Late
    <2> QED BY <1>2, <1>6, <2>1 DEF MakeMountsPrivate
  <1>7. CASE BindRootfs
    BY <1>3, <1>7 DEF BindRootfs, Late
  <1>8. CASE EnterRootfs
    <2>1. CASE rootfs \in {"pivot", "pivot_custom"}
      BY <1>3, <1>8, <2>1 DEF EnterRootfs
    <2>2. CASE rootfs = "chroot"
      BY <1>1, <1>2, <1>8, <2>2 DEF EnterRootfs
    <2> QED BY <1>8, <2>1, <2>2 DEF EnterRootfs
  <1>9. CASE InstallSeccomp \/ RunHook \/ Exec
    <2>1. stage \in Late
      BY <1>9 DEF InstallSeccomp, RunHook, Exec, Late
    <2> QED BY <1>5, <1>9, <2>1 DEF InstallSeccomp, RunHook, Exec
  <1>10. ASSUME NEW m \in Mounts, BindMount(m) \/ install_mount(m) PROVE CustomInv'
    <2>1. CASE BindMount(m)
      BY <1>4, <2>1 DEF BindMount, Late
    <2>2. CASE install_mount(m)
      <3> DEFINE acc == /\ view[m.source].fs # "absent" /\ view[m.target].fs # "absent"
                        /\ IsFile(view[m.source]) <=> IsFile(view[m.target])
                 v == BindRec(view, m.source, m.target, Call)
                 op == Op("raw", m.source, m.target, ReadWrite, FALSE)
      <3>1. MountCall(acc, v, op, "Compose") /\ "Compose" \notin Late
        BY <2>2 DEF install_mount, Late
      <3> HIDE DEF acc, v, op
      <3> QED BY <1>3, <3>1
    <2> QED BY <1>10, <2>1, <2>2
  <1>11. ASSUME NEW t \in Overlays,
                MountTmpfs(t) \/ \E f \in SUBSET {"ro"} : install_tmpfs(t, f)
         PROVE  CustomInv'
    <2>1. CASE MountTmpfs(t)
      BY <1>3, <2>1 DEF MountTmpfs, Late
    <2>2. ASSUME NEW f, install_tmpfs(t, f) PROVE CustomInv'
      <3> DEFINE acc == view[t].fs # "absent" /\ ~IsFile(view[t])
                 v == MountFresh(view, t, "tmpfs", f, Call)
                 op == Op("tmpfs", t, t, [kind |-> "Custom", flags |-> f], FALSE)
      <3>1. MountCall(acc, v, op, "Compose") /\ "Compose" \notin Late
        BY <2>2 DEF install_tmpfs, Late
      <3> HIDE DEF acc, v, op
      <3> QED BY <1>3, <3>1
    <2> QED BY <1>11, <2>1, <2>2
  <1>12. ASSUME NEW mode \in {"Remount", "Hide", "Leave"}, ApplyProcfs(mode) PROVE CustomInv'
    <2>1. AfterProc \in Late => rootfs # "pivot_custom"
      BY DEF AfterProc, Late
    <2>2. CASE mode = "Leave"
      BY <1>1, <1>12, <2>1, <2>2 DEF ApplyProcfs
    <2>3. CASE mode # "Leave"
      BY <1>3, <1>12, <2>1, <2>3 DEF ApplyProcfs
    <2> QED BY <2>2, <2>3
  <1>13. ASSUME NEW b \in Binds, install_bind(b) PROVE CustomInv'
    BY <1>4, <1>13 DEF install_bind, Late
  <1>14. CASE install_user_mount_ns
    BY <1>1, <1>2, <1>14 DEF install_user_mount_ns
  <1>15. CASE ComposeLandlock \/ ComposeSeccomp
    BY <1>5, <1>15 DEF ComposeLandlock, ComposeSeccomp, Late
  <1>16. CASE ComposeExec
    <2>1. rootfs # "pivot_custom"
      BY <1>16 DEF ComposeExec, CustomInv
    <2> QED BY <1>5, <1>16, <2>1 DEF ComposeExec
  <1>17. CASE UNCHANGED vars
    BY <1>17 DEF vars, CustomInv
  <1> QED
    BY <1>6, <1>7, <1>8, <1>9, <1>10, <1>11, <1>12, <1>13, <1>14, <1>15, <1>16, <1>17
    DEF Next

(* Setup ends early only because a system call fails by itself, because    *)
(* the caller lacks the privilege, composes the primitives out of order or *)
(* mounts what is covered or of the wrong kind, or because a custom        *)
(* old_root was configured, which is documented and never works: whatever  *)
(* the lists of the configuration, no target starts with it.  And          *)
(* prepare_landlock refuses no decision on a kernel that is new enough.    *)
THEOREM AbortsHaveCauses == Spec => []AbortHasCause
  <1>1. ConfInv /\ CustomInv => AbortHasCause
    <2> SUFFICES ASSUME ConfInv, CustomInv PROVE AbortHasCause
      OBVIOUS
    <2>1. stage = "Aborted" /\ ~faulty =>
            Misused(Last(log), Len(log) - 1) \/ CustomOldRoot(Last(log))
      BY DEF ConfInv
    <2>2. ASSUME stage = "Refused" PROVE ruleset.why \in {"unavailable", "abi"}
      <3>1. /\ decision \in Decisions /\ ~ruleset.ok
            /\ \E k \in KernelABIs : ruleset = prepare_landlock(decision, k)
        BY <2>2 DEF ConfInv, DomainInv
      <3> QED BY <3>1, PreparedRules
    <2>3. rootfs = "pivot_custom" => stage # "Target"
      BY DEF CustomInv, Late
    <2> QED BY <2>1, <2>2, <2>3 DEF AbortHasCause
  <1>2. Init => CustomInv
    BY DEF Init, CustomInv, Late
  <1>3. Spec => []CustomInv
    BY <1>2, CustomStep, PTL DEF Spec
  <1> QED BY <1>1, <1>3, ConfinementKeepsInv, PTL

(* A target that asked for landlock runs in exactly the domain of its      *)
(* decision, as the parent resolved it: for every list of paths, in any    *)
(* order, with repeated, missing or file paths, and wherever the child's   *)
(* mounts have put the objects, an access is permitted if and only if the  *)
(* decision grants it on the object or on a directory on the way to it.  A *)
(* rule whose path an overlay covers grants no write there.                *)
THEOREM DomainIsDecision == Spec => []DomainMeansDecision
  <1>1. ConfInv => DomainMeansDecision
    <2> SUFFICES ASSUME ConfInv, stage = "Target", hook PROVE
          /\ restricted /\ CoveredRulesLapse
          /\ \A n \in Paths :
               view[n].fs # "absent" =>
                 LET legal == IF IsFile(view[n]) THEN FromFile(REQUIRED_ABI)
                              ELSE FromAll(REQUIRED_ABI)
                 IN  legal \cap Permitted(n)
                       = legal \cap UNION {GrantedOn(view[q]) : q \in Above(n)}
      BY DEF DomainMeansDecision
    <2>1. /\ restricted /\ ruleset.ok /\ domain = ruleset.rules /\ decision \in Decisions
          /\ \E k \in KernelABIs : ruleset = prepare_landlock(decision, k)
      BY DEF ConfInv, DomainInv
    <2>2. /\ \A r \in domain :
               /\ r.path \in Paths
               /\ r.mask = legal_mask(MaskOf(decision, r.path), r.path, REQUIRED_ABI)
          /\ \A p \in Paths : MaskOf(decision, p) # {} =>
               \E r \in domain :
                 r.path = p /\ r.mask = legal_mask(MaskOf(decision, p), p, REQUIRED_ABI)
      BY <2>1, PreparedRules
    <2>3. ViewTypeOK(view) /\ FileInv(view)
      BY DEF ConfInv, ViewInv
    <2>4. \A q \in Paths : view[q].path \in Paths
      BY <2>3 DEF ViewTypeOK, Object
    <2>5. \A q \in Paths :
            GrantedOn(view[q]) =
              IF view[q].fs = "host" THEN MaskOf(decision, view[q].path) ELSE {}
      <3> SUFFICES ASSUME NEW q \in Paths
                   PROVE  GrantedOn(view[q]) =
                            IF view[q].fs = "host" THEN MaskOf(decision, view[q].path) ELSE {}
        OBVIOUS
      <3> DEFINE o == view[q]
                 x == ReadPaths(decision)
      <3>1. CASE decision.read.kind = "Broad"
        <4>1. (\E i \in DOMAIN x : x[i] = o.path) <=> o.path = <<>>
          BY <3>1 DEF ReadPaths
        <4> HIDE DEF o
        <4> QED BY <3>1, <4>1 DEF GrantedOn, MaskOf, o
      <3>2. CASE decision.read.kind # "Broad"
        <4>1. x = decision.read.paths
          BY <3>2 DEF ReadPaths
        <4> HIDE DEF x
        <4> QED BY <3>2, <4>1 DEF GrantedOn, MaskOf, x
      <3> QED BY <3>1, <3>2
    <2>6. ASSUME NEW n \in Paths, view[n].fs # "absent", NEW a,
                 a \in (IF IsFile(view[n]) THEN FromFile(REQUIRED_ABI)
                        ELSE FromAll(REQUIRED_ABI))
          PROVE  a \in Permitted(n) <=> \E q \in Above(n) : a \in GrantedOn(view[q])
      <3>1. ASSUME a \in Permitted(n) PROVE \E q \in Above(n) : a \in GrantedOn(view[q])
        <4>1. PICK r \in domain, q \in Above(n) :
                a \in r.mask /\ view[q].fs = "host" /\ view[q].path = r.path
          BY <3>1 DEF Permitted
        <4>2. a \in MaskOf(decision, r.path) /\ q \in Paths
          BY <2>2, <4>1 DEF legal_mask, Above
        <4> QED BY <2>5, <4>1, <4>2
      <3>2. ASSUME NEW q \in Above(n), a \in GrantedOn(view[q]) PROVE a \in Permitted(n)
        <4>1. q \in Paths /\ Below(n, q)
          BY DEF Above
        <4>2. view[q].fs = "host" /\ a \in MaskOf(decision, view[q].path)
          BY <2>5, <3>2, <4>1
        <4>3. PICK r \in domain :
                /\ r.path = view[q].path
                /\ r.mask = legal_mask(MaskOf(decision, r.path), r.path, REQUIRED_ABI)
          BY <2>2, <2>4, <4>1, <4>2
        <4>4. a \in r.mask
          <5>1. CASE r.path \notin Files
            BY <4>2, <4>3, <5>1 DEF legal_mask
          <5>2. CASE r.path \in Files
            <6>1. IsFile(view[q])
              BY <4>2, <4>3, <5>2 DEF IsFile
            <6>2. n = q
              BY <2>3, <2>6, <4>1, <6>1 DEF FileInv
            <6>3. a \in FromFile(REQUIRED_ABI)
              BY <2>6, <6>1, <6>2
            <6> QED BY <4>2, <4>3, <5>2, <6>3 DEF legal_mask
          <5> QED BY <5>1, <5>2
        <4> QED BY <4>2, <4>3, <4>4 DEF Permitted
      <3> QED BY <3>1, <3>2
    <2>7. CoveredRulesLapse
      <3> SUFFICES ASSUME NEW n \in Paths, view[n].fs \in {"tmpfs", "proc"},
                          \A q \in Above(n) \ {n} : view[q].fs = "host" =>
                            \A i \in DOMAIN decision.writable :
                              decision.writable[i] # view[q].path,
                          "write" \in Permitted(n)
                   PROVE  FALSE
        BY DEF CoveredRulesLapse
      <3>1. PICK r \in domain, q \in Above(n) :
              "write" \in r.mask /\ view[q].fs = "host" /\ view[q].path = r.path
        BY DEF Permitted
      <3>2. "write" \in MaskOf(decision, r.path)
        <4> DEFINE M == MaskOf(decision, r.path)
        <4>1. r.mask = legal_mask(M, r.path, REQUIRED_ABI)
          BY <2>2
        <4> HIDE DEF M
        <4>2. legal_mask(M, r.path, REQUIRED_ABI) \subseteq M
          BY DEF legal_mask
        <4>3. "write" \in M
          BY <3>1, <4>1, <4>2
        <4> QED BY <4>3 DEF M
      <3>3. \E i \in DOMAIN decision.writable : decision.writable[i] = r.path
        BY <3>2, MasksDiffer DEF MaskOf
      <3> QED BY <3>1, <3>3
    <2> QED BY <2>1, <2>6, <2>7
  <1> QED BY <1>1, ConfinementKeepsInv, PTL
-----------------------------------------------------------------------------
(***************************************************************************)
(* A target starts with the view that its configuration, or a pre_exec's   *)
(* sequence of primitives, describes (ViewMeansConfig).                    *)
(***************************************************************************)

IsBind(i) == log[i].kind = "bind"

(* What the log can hold: only exec_sandboxed has a rootfs, its mounts are *)
(* below it and its overlays come last.                                    *)
LogInv ==
  /\ pipeline = "pre_exec" => rootfs = "none"
  /\ rootfs # "none" =>
       \A i \in DOMAIN log : log[i].kind \in Mounting => Below(log[i].target, Rootfs)
  /\ stage \in {"Private", "RootBind", "Binds"} =>
       \A i \in DOMAIN log : log[i].kind \notin FreshTypes

(* A path on which nothing is mounted belongs to the host's mount.         *)
FirstMount ==
  \A n \in Paths : (\A i \in DOMAIN log : ~MountsOn(i, n)) => view[n].at = HostMountOf(n)

(* Once it is in the rootfs, the child sees the tree of the rootfs only.   *)
InRoot == stage \in Late /\ rootfs = "pivot"

Tree == IF InRoot THEN Reach ELSE Paths

Shown(n) == IF InRoot THEN Seen(n) ELSE view[n]

(* The parts of ViewMeansConfig, for every path of the tree                *)
Hides ==
  \A i \in DOMAIN log, n \in Tree :
    /\ log[i].kind \in FreshTypes /\ MountsOn(i, n)
    /\ pipeline = "spawn" \/ \A j \in (i + 1)..Len(log) : ~MountsOn(j, n)
    => Shown(n).fs # "host"

Later(i, n) == \E j \in DOMAIN log : j > i /\ MountsOn(j, n)

HostNests(q, s) == \E m \in HostMounts : Below(q, m) /\ Below(m, s) /\ m # s

Nested(i, n, at) ==
  /\ Below(at, log[i].target) /\ at # log[i].target
  /\ \/ \E j \in 1..(i - 1) : MountsOn(j, Moved(n, log[i].target, log[i].source))
     \/ HostNests(Moved(n, log[i].target, log[i].source), log[i].source)

Holds ==
  \A i \in DOMAIN log, n \in Tree :
    /\ IsBind(i) /\ MountsOn(i, n) /\ "ro" \in RemountFlags(log[i].perm)
    /\ Shown(n).fs # "absent" /\ "ro" \notin Shown(n).flags
    => Later(i, n) \/ Nested(i, n, Shown(n).at)

(* The self-binds above a writable mount leave it its own mount.           *)
Carves(p, j) ==
  /\ OwnMount(p, j)
  /\ \A k \in DOMAIN log \ {j} :
       MountsOn(k, p) => k > j /\ SelfBind(k) /\ log[k].target # p

Carved ==
  \A p \in Tree, j \in {0} \cup DOMAIN log :
    Carves(p, j) => Shown(p).at = p /\ Shown(p).flags = {}

FromRootfs(o) ==
  o.fs = "host" =>
    Below(o.path, Rootfs) \/ \E i \in DOMAIN log : IsBind(i) /\ Below(o.path, log[i].source)

Confines == rootfs # "none" => \A n \in Tree : Below(n, Rootfs) => FromRootfs(Shown(n))

(* The inductive invariant                                                 *)
MeansInv ==
  /\ stage \in MountStages => FirstMount
  /\ stage \in MountStages \cup Late => LogInv /\ Hides /\ Holds /\ Carved /\ Confines

-----------------------------------------------------------------------------
(* What a mount does to the view                                           *)

Alike(new, old) ==
  new.fs = old.fs /\ new.path = old.path /\ new.flags = old.flags /\ new.at = old.at

(* A bind copies the mounts of its source, and its remount reaches the     *)
(* mount at the target and no nested one.                                  *)
Copied(new, old, op) ==
  /\ new.fs = old.fs /\ new.path = old.path
  /\ new.at = IF Below(op.source, old.at) THEN op.target
              ELSE Moved(old.at, op.source, op.target)
  /\ Remounts(op.perm) /\ new.at = op.target => new.flags = RemountFlags(op.perm)
  /\ ~Remounts(op.perm) \/ new.at # op.target => new.flags = old.flags

Bound(v, op) ==
  \A n \in Paths :
    /\ ~Below(n, op.target) => Alike(v[n], view[n])
    /\ Below(n, op.target) =>
         /\ Moved(n, op.target, op.source) \notin Paths => v[n].fs = "absent"
         /\ Moved(n, op.target, op.source) \in Paths =>
              Copied(v[n], view[Moved(n, op.target, op.source)], op)

Covered(v, op) ==
  \A n \in Paths : /\ ~Below(n, op.target) => Alike(v[n], view[n])
                   /\ Below(n, op.target) => v[n].fs # "host"

MountResult(v, op) == IF op.kind \in FreshTypes THEN Covered(v, op) ELSE Bound(v, op)

(* A mount nested in the source of a bind moves with it.                   *)
LEMMA BindRecAt ==
  ASSUME NEW v, ViewTypeOK(v), NEW s \in Paths, NEW t \in Paths, NEW c \in Nat,
         NEW n \in Paths, Below(n, t), Moved(n, t, s) \in Paths
  PROVE  BindRec(v, s, t, c)[n].at =
           IF Below(s, v[Moved(n, t, s)].at) THEN t ELSE Moved(v[Moved(n, t, s)].at, s, t)
  <1> DEFINE q == Moved(n, t, s)
             o == v[q]
             a == IF Below(s, o.at) THEN t ELSE Moved(o.at, s, t)
  <1>1. o \in Object
    BY DEF ViewTypeOK
  <1>2. BindRec(v, s, t, c)[n] = [o EXCEPT !.at = a, !.call = c]
    BY DEF BindRec
  <1> HIDE DEF q, o, a
  <1>3. [o EXCEPT !.at = a, !.call = c].at = a
    BY <1>1 DEF Object
  <1> QED BY <1>2, <1>3 DEF a, o, q

(* A bind that needs no remount has the effect of a bind.                  *)
LEMMA BoundResult ==
  ASSUME ConfInv, stage \in MountStages, NEW op \in OpRecord, ~Remounts(op.perm),
         NEW v, v = BindRec(view, op.source, op.target, Call)
  PROVE  Bound(v, op)
  <1> DEFINE s == op.source
             t == op.target
             c == Call
  <1>1. s \in Paths /\ t \in Paths
    BY DEF OpRecord
  <1>2. c \in Nat /\ v = BindRec(view, s, t, c)
    BY LenProperties DEF ConfInv, ConfTypeOK, Call
  <1>3. ViewTypeOK(view) /\ AtInv(view)
    BY DEF ConfInv, ViewInv, MountStages
  <1> SUFFICES ASSUME NEW n \in Paths
               PROVE  /\ ~Below(n, t) => Alike(v[n], view[n])
                      /\ Below(n, t) =>
                           /\ Moved(n, t, s) \notin Paths => v[n].fs = "absent"
                           /\ Moved(n, t, s) \in Paths =>
                                Copied(v[n], view[Moved(n, t, s)], op)
    BY DEF Bound
  <1> HIDE DEF c
  <1>4. CASE ~Below(n, t)
    <2> HIDE DEF s, t
    <2>1. v[n] = view[n]
      BY <1>1, <1>2, <1>3, <1>4, BindRecOK
    <2> QED BY <1>4, <2>1 DEF Alike
  <1>5. CASE Below(n, t) /\ Moved(n, t, s) \notin Paths
    <2> HIDE DEF s, t
    <2>1. v[n].fs = "absent"
      BY <1>1, <1>2, <1>3, <1>5, BindRecOK
    <2> QED BY <1>5, <2>1
  <1>6. CASE Below(n, t) /\ Moved(n, t, s) \in Paths
    <2> DEFINE q == Moved(n, t, s)
    <2> HIDE DEF s, t
    <2>1. v[n].fs = view[q].fs /\ v[n].path = view[q].path /\ v[n].flags = view[q].flags
      BY <1>1, <1>2, <1>3, <1>6, BindRecOK
    <2>2. v[n].at = IF Below(s, view[q].at) THEN t ELSE Moved(view[q].at, s, t)
      BY <1>1, <1>2, <1>3, <1>6, BindRecAt
    <2> HIDE DEF q
    <2>3. Copied(v[n], view[q], op)
      BY <2>1, <2>2 DEF Copied, s, t
    <2> QED BY <1>6, <2>3 DEF q
  <1> QED BY <1>4, <1>5, <1>6

(* So has a bind with its remount.                                         *)
LEMMA RemountResult ==
  ASSUME ConfInv, stage \in MountStages, NEW op \in OpRecord, Remounts(op.perm),
         NEW deep, NEW v,
         v = Remount(BindRec(view, op.source, op.target, Call), op.target,
                     RemountFlags(op.perm), deep)
  PROVE  Bound(v, op)
  <1> DEFINE s == op.source
             t == op.target
             c == Call
             f == RemountFlags(op.perm)
             b == BindRec(view, s, t, c)
  <1>1. s \in Paths /\ t \in Paths /\ op.perm \in Permissions
    BY DEF OpRecord
  <1>2. /\ c \in Nat /\ v = Remount(b, t, f, deep) /\ f \in FlagSets
        /\ \A n \in Paths : view[n].call <= Len(log) /\ view[n].call \in Nat
        /\ c = Len(log) + 1
        /\ Len(log) \in Nat
    <2>1. c \in Nat /\ c = Len(log) + 1 /\ Len(log) \in Nat
      BY LenProperties DEF ConfInv, ConfTypeOK, Call
    <2>2. f \in FlagSets
      BY <1>1, FlagsOfPermission
    <2>3. \A n \in Paths : view[n].call <= Len(log) /\ view[n].call \in Nat
      BY DEF ConfInv, ViewInv, CallInv, ViewTypeOK, Object, MountStages
    <2> QED BY <2>1, <2>2, <2>3
  <1>3. ViewTypeOK(view) /\ AtInv(view)
    BY DEF ConfInv, ViewInv, MountStages
  <1> SUFFICES ASSUME NEW n \in Paths
               PROVE  /\ ~Below(n, t) => Alike(v[n], view[n])
                      /\ Below(n, t) =>
                           /\ Moved(n, t, s) \notin Paths => v[n].fs = "absent"
                           /\ Moved(n, t, s) \in Paths =>
                                Copied(v[n], view[Moved(n, t, s)], op)
    BY DEF Bound
  <1> HIDE DEF s, t, c, f
  <1>4. /\ ViewTypeOK(b) /\ AtInv(b)
        /\ \A p \in Paths : ~Below(p, t) => b[p] = view[p]
        /\ \A p \in Paths :
             Below(p, t) =>
               /\ b[p].call = c
               /\ Moved(p, t, s) \in Paths =>
                    /\ b[p].fs = view[Moved(p, t, s)].fs
                    /\ b[p].path = view[Moved(p, t, s)].path
                    /\ b[p].flags = view[Moved(p, t, s)].flags
               /\ Moved(p, t, s) \notin Paths => b[p].fs = "absent"
    <2>0. s \in Paths /\ t \in Paths /\ c \in Nat
      BY <1>1, <1>2
    <2>1. ViewTypeOK(b) /\ AtInv(b)
      BY <1>3, <2>0, BindRecOK
    <2>2. \A p \in Paths : ~Below(p, t) => b[p] = view[p]
      BY <1>3, <2>0, BindRecOK
    <2>3. ASSUME NEW p \in Paths, Below(p, t)
          PROVE  /\ b[p].call = c
                 /\ Moved(p, t, s) \in Paths =>
                      /\ b[p].fs = view[Moved(p, t, s)].fs
                      /\ b[p].path = view[Moved(p, t, s)].path
                      /\ b[p].flags = view[Moved(p, t, s)].flags
                 /\ Moved(p, t, s) \notin Paths => b[p].fs = "absent"
      BY <1>3, <2>0, <2>3, BindRecOK
    <2> QED BY <2>1, <2>2, <2>3
  <1>5. \A p \in Paths : Below(p, t) /\ Moved(p, t, s) \in Paths =>
          b[p].at = IF Below(s, view[Moved(p, t, s)].at) THEN t
                    ELSE Moved(view[Moved(p, t, s)].at, s, t)
    BY <1>1, <1>2, <1>3, BindRecAt
  <1>6. Below(t, t) /\ b[t].at = t /\ b[t].call = c
    <2>1. t \in Names /\ s \in Names
      BY <1>1, PathsAreNames
    <2>2. Below(t, t) /\ Below(s, s)
      BY <2>1, BelowOrder
    <2>3. Moved(t, t, s) = s
      <3> DEFINE m == Moved(t, t, s)
      <3>1. m \in Names /\ Len(m) = Len(s) + (Len(t) - Len(t)) /\ Below(m, s)
        BY <2>1, <2>2, MovedMeans
      <3> HIDE DEF m, b
      <3>2. Len(m) <= Len(s)
        BY <2>1, <3>1 DEF Names
      <3>3. m = s
        BY <2>1, <3>1, <3>2, BelowOrder
      <3> QED BY <3>3 DEF m
    <2>4. Below(s, view[s].at)
      BY <1>1, <1>3 DEF AtInv
    <2> HIDE DEF b
    <2> QED BY <1>1, <1>4, <1>5, <2>2, <2>3, <2>4
  <1> HIDE DEF b
  <1>7. /\ v[n].fs = b[n].fs /\ v[n].path = b[n].path /\ v[n].at = b[n].at
        /\ v[n].flags = IF SameMount(b, n, t) THEN f ELSE b[n].flags
    BY <1>1, <1>2, <1>4, RemountOK
  <1>8. SameMount(b, n, t) <=> b[n].at = t /\ b[n].call = c
    BY <1>6 DEF SameMount
  <1>9. CASE ~Below(n, t)
    <2>1. b[n] = view[n] /\ b[n].call # c
      BY <1>2, <1>4, <1>9
    <2> QED BY <1>7, <1>8, <1>9, <2>1 DEF Alike
  <1>10. CASE Below(n, t) /\ Moved(n, t, s) \notin Paths
    BY <1>4, <1>7, <1>10
  <1>11. CASE Below(n, t) /\ Moved(n, t, s) \in Paths
    <2> DEFINE q == Moved(n, t, s)
    <2>1. /\ b[n].fs = view[q].fs /\ b[n].path = view[q].path /\ b[n].flags = view[q].flags
          /\ b[n].call = c
          /\ b[n].at = IF Below(s, view[q].at) THEN t ELSE Moved(view[q].at, s, t)
      BY <1>4, <1>5, <1>11
    <2> HIDE DEF q
    <2>2. v[n].at = t => v[n].flags = f
      BY <1>7, <1>8, <1>11, <2>1
    <2>3. v[n].at # t => v[n].flags = view[q].flags
      BY <1>7, <1>8, <1>11, <2>1
    <2>4. Copied(v[n], view[q], op)
      BY <1>7, <2>1, <2>2, <2>3 DEF Copied, s, t, f
    <2> QED BY <1>11, <2>4 DEF q
  <1> QED BY <1>9, <1>10, <1>11

-----------------------------------------------------------------------------
(* The log after one more operation                                        *)
LEMMA OpsGrow ==
  ASSUME log \in Seq(OpRecord), NEW op \in OpRecord, log' = Append(log, op)
  PROVE  /\ \A i \in DOMAIN log : log'[i] = log[i] /\ i \in 1..Len(log) /\ i < Len(log) + 1
         /\ log'[Len(log) + 1] = op /\ Len(log') = Len(log) + 1 /\ Len(log) \in Nat
         /\ DOMAIN log = 1..Len(log) /\ DOMAIN log' = DOMAIN log \cup {Len(log) + 1}
  <1>1. /\ Len(log') = Len(log) + 1 /\ log'[Len(log) + 1] = op /\ Len(log) \in Nat
        /\ \A i \in 1..Len(log) : log'[i] = log[i]
        /\ DOMAIN log = 1..Len(log) /\ DOMAIN log' = DOMAIN log \cup {Len(log) + 1}
    BY LogGrows
  <1>2. \A i \in DOMAIN log : i \in 1..Len(log) /\ i < Len(log) + 1
    BY <1>1
  <1> QED BY <1>1, <1>2

(* A mount in the tree keeps what the log promises of the view.            *)
LEMMA MountKeepsHides ==
  ASSUME ConfInv, MeansInv, stage \in MountStages, NEW op \in OpRecord, op.kind \in Mounting,
         NEW v, MountResult(v, op), view' = v, log' = Append(log, op), ~InRoot', ~InRoot,
         UNCHANGED <<pipeline, rootfs>>,
         op.kind \notin FreshTypes => stage \in {"RootBind", "Binds"} \/ pipeline = "pre_exec"
  PROVE  Hides'
  <1> DEFINE N == Len(log) + 1
  <1>0. log \in Seq(OpRecord)
    BY DEF ConfInv, ConfTypeOK
  <1>1. /\ \A i \in DOMAIN log : log'[i] = log[i] /\ i \in 1..Len(log)
        /\ log'[N] = op /\ Len(log') = N /\ Len(log) \in Nat
        /\ DOMAIN log = 1..Len(log) /\ DOMAIN log' = DOMAIN log \cup {N}
    BY <1>0, OpsGrow
  <1>2. Hides /\ LogInv
    BY DEF MeansInv
  <1> SUFFICES ASSUME NEW i \in DOMAIN log', NEW n \in Paths,
                      log'[i].kind \in FreshTypes, MountsOn(i, n)',
                      \/ pipeline = "spawn"
                      \/ \A j \in (i + 1)..Len(log') : ~MountsOn(j, n)'
               PROVE  v[n].fs # "host"
    BY DEF Hides, Tree, Shown
  <1>3. CASE Below(n, op.target)
    <2>1. CASE op.kind \in FreshTypes
      BY <1>3, <2>1 DEF MountResult, Covered
    <2>2. CASE op.kind \notin FreshTypes
      <3>1. i \in DOMAIN log /\ log[i].kind \in FreshTypes
        BY <1>1, <2>2
      <3>2. pipeline = "pre_exec"
        BY <1>2, <2>2, <3>1 DEF LogInv
      <3>3. N \in (i + 1)..Len(log')
        BY <1>1, <3>1
      <3>4. PICK j \in (i + 1)..Len(log') : j = N
        BY <3>3
      <3>5. MountsOn(j, n)'
        BY <1>1, <1>3, <3>4 DEF MountsOn
      <3> QED BY <3>2, <3>5
    <2> QED BY <2>1, <2>2
  <1>4. CASE ~Below(n, op.target)
    <2>1. i \in DOMAIN log /\ log[i].kind \in FreshTypes /\ MountsOn(i, n)
      BY <1>1, <1>4 DEF MountsOn
    <2>2. pipeline = "spawn" \/ \A j \in (i + 1)..Len(log) : ~MountsOn(j, n)
      <3>1. \A j \in (i + 1)..Len(log) : j \in (i + 1)..Len(log') /\ j \in DOMAIN log
        BY <1>1, <2>1
      <3> QED BY <1>1, <3>1 DEF MountsOn
    <2>3. view[n].fs # "host"
      BY <1>2, <2>1, <2>2 DEF Hides, Tree, Shown
    <2>4. v[n].fs = view[n].fs
      BY <1>4 DEF MountResult, Covered, Bound, Alike
    <2> QED BY <2>3, <2>4
  <1> QED BY <1>3, <1>4

(* A mount leaves what it does not cover to the host's mount.              *)
LEMMA MountKeepsFirst ==
  ASSUME ConfInv, MeansInv, stage \in MountStages, NEW op \in OpRecord, op.kind \in Mounting,
         NEW v, MountResult(v, op), view' = v, log' = Append(log, op)
  PROVE  FirstMount'
  <1> DEFINE N == Len(log) + 1
  <1>0. log \in Seq(OpRecord)
    BY DEF ConfInv, ConfTypeOK
  <1>1. /\ \A i \in DOMAIN log : log'[i] = log[i]
        /\ log'[N] = op /\ DOMAIN log' = DOMAIN log \cup {N}
    BY <1>0, OpsGrow
  <1>2. FirstMount
    BY DEF MeansInv
  <1> HIDE DEF N
  <1> SUFFICES ASSUME NEW n \in Paths, \A i \in DOMAIN log' : ~MountsOn(i, n)'
               PROVE  v[n].at = HostMountOf(n)
    BY DEF FirstMount
  <1>3. ~Below(n, op.target) /\ \A i \in DOMAIN log : ~MountsOn(i, n)
    BY <1>1 DEF MountsOn
  <1>4. v[n].at = view[n].at
    BY <1>3 DEF MountResult, Covered, Bound, Alike
  <1> QED BY <1>2, <1>3, <1>4 DEF FirstMount

(* Only a remount makes a bind read-only.                                  *)
LEMMA ReadOnlyRemounts ==
  ASSUME NEW perm \in Permissions, "ro" \in RemountFlags(perm)
  PROVE  Remounts(perm)
  BY DEF RemountFlags, Remounts, Permissions

(* After a mount a read-only bind is still writable only where a later     *)
(* operation or a nested mount has covered it.                             *)
LEMMA MountKeepsHolds ==
  ASSUME ConfInv, MeansInv, stage \in MountStages, NEW op \in OpRecord, op.kind \in Mounting,
         NEW v, MountResult(v, op), view' = v, log' = Append(log, op), ~InRoot', ~InRoot
  PROVE  Holds'
  <1> DEFINE N == Len(log) + 1
             s == op.source
             t == op.target
  <1>0. log \in Seq(OpRecord) /\ ViewTypeOK(view) /\ AtInv(view)
    BY DEF ConfInv, ConfTypeOK, ViewInv, MountStages
  <1>1. /\ \A i \in DOMAIN log : log'[i] = log[i] /\ i \in 1..Len(log) /\ i < N
        /\ log'[N] = op /\ Len(log') = N /\ Len(log) \in Nat
        /\ DOMAIN log = 1..Len(log) /\ DOMAIN log' = DOMAIN log \cup {N}
    BY <1>0, OpsGrow
  <1>2. Holds /\ FirstMount
    BY DEF MeansInv
  <1>3. s \in Paths /\ t \in Paths /\ s \in Names /\ t \in Names /\ op.perm \in Permissions
    BY PathsAreNames DEF OpRecord
  <1> SUFFICES ASSUME NEW i \in DOMAIN log', NEW n \in Paths,
                      IsBind(i)', MountsOn(i, n)', "ro" \in RemountFlags(log'[i].perm),
                      v[n].fs # "absent", "ro" \notin v[n].flags
               PROVE  Later(i, n)' \/ Nested(i, n, v[n].at)'
    BY DEF Holds, Tree, Shown
  <1>4. CASE i = N
    <2>1. Below(n, t) /\ "ro" \in RemountFlags(op.perm) /\ op.kind = "bind"
      BY <1>1, <1>4 DEF MountsOn, IsBind
    <2>2. Bound(v, op) /\ Remounts(op.perm)
      BY <1>3, <2>1, ReadOnlyRemounts DEF MountResult, FreshTypes
    <2> DEFINE q == Moved(n, t, s)
               o == view[q]
    <2>3. q \in Paths /\ Copied(v[n], o, op)
      BY <2>1, <2>2 DEF Bound
    <2>4. q \in Names /\ Below(q, s)
      BY <1>3, <2>1, PathsAreNames, MovedMeans
    <2> HIDE DEF q, o, s, t
    <2>5. v[n].at # t /\ ~Below(s, o.at) /\ v[n].at = Moved(o.at, s, t)
      BY <2>1, <2>2, <2>3 DEF Copied, s, t
    <2>6. o.at \in Names /\ Below(q, o.at)
      BY <1>0, <2>3 DEF ViewTypeOK, Object, AtInv, o
    <2>7. Below(o.at, s)
      BY <1>3, <2>4, <2>5, <2>6, BelowOrder
    <2>8. Below(v[n].at, t)
      BY <1>3, <2>5, <2>6, <2>7, MovedMeans
    <2>9. (\E j \in DOMAIN log : MountsOn(j, q)) \/ HostNests(q, s)
      <3> SUFFICES ASSUME \A j \in DOMAIN log : ~MountsOn(j, q) PROVE HostNests(q, s)
        OBVIOUS
      <3>1. o.at = HostMountOf(q) /\ o.at \in HostMounts
        BY <1>2, <2>3, HostMountAbove DEF FirstMount, o
      <3>2. Below(s, s)
        BY <1>3, BelowOrder
      <3> QED BY <2>5, <2>6, <2>7, <3>1, <3>2 DEF HostNests
    <2>10. (\E j \in 1..(N - 1) : MountsOn(j, q)') \/ HostNests(q, s)
      BY <1>1, <2>9 DEF MountsOn
    <2>11. log'[i].target = t /\ log'[i].source = s
      BY <1>1, <1>4 DEF s, t
    <2>12. Nested(i, n, v[n].at)'
      BY <1>4, <2>5, <2>8, <2>10, <2>11 DEF Nested, q
    <2> QED BY <2>12
  <1>5. CASE i \in DOMAIN log /\ Below(n, t)
    BY <1>1, <1>5 DEF Later, MountsOn
  <1>6. CASE i \in DOMAIN log /\ ~Below(n, t)
    <2>1. v[n].fs = view[n].fs /\ v[n].flags = view[n].flags /\ v[n].at = view[n].at
      BY <1>6 DEF MountResult, Covered, Bound, Alike
    <2>2. IsBind(i) /\ MountsOn(i, n) /\ "ro" \in RemountFlags(log[i].perm)
      BY <1>1, <1>6 DEF MountsOn, IsBind
    <2>3. Later(i, n) \/ Nested(i, n, v[n].at)
      BY <1>2, <1>6, <2>1, <2>2 DEF Holds, Tree, Shown
    <2>4. Later(i, n) => Later(i, n)'
      BY <1>1 DEF Later, MountsOn
    <2>5. Nested(i, n, v[n].at) => Nested(i, n, v[n].at)'
      <3>1. \A j \in 1..(i - 1) : j \in DOMAIN log
        BY <1>1, <1>6
      <3> QED BY <1>1, <1>6, <3>1 DEF Nested, MountsOn
    <2> QED BY <2>3, <2>4, <2>5
  <1> QED BY <1>1, <1>4, <1>5, <1>6

(* A writable bind is not remounted.                                       *)
LEMMA NoRemount == ~Remounts(ReadWrite)
  BY DEF Remounts, ReadWrite

(* A nested writable mount stays a mount of its own.                       *)
LEMMA MountKeepsCarved ==
  ASSUME ConfInv, MeansInv, stage \in MountStages, NEW op \in OpRecord, op.kind \in Mounting,
         NEW v, MountResult(v, op), view' = v, log' = Append(log, op), ~InRoot', ~InRoot
  PROVE  Carved'
  <1> DEFINE N == Len(log) + 1
             t == op.target
  <1>0. /\ log \in Seq(OpRecord) /\ ViewTypeOK(view) /\ AtInv(view) /\ OwnInv
    BY DEF ConfInv, ConfTypeOK, ViewInv, MountStages
  <1>1. /\ \A i \in DOMAIN log : log'[i] = log[i] /\ i \in 1..Len(log) /\ i < N
        /\ log'[N] = op /\ Len(log') = N /\ Len(log) \in Nat
        /\ DOMAIN log = 1..Len(log) /\ DOMAIN log' = DOMAIN log \cup {N}
    BY <1>0, OpsGrow
  <1>2. Carved
    BY DEF MeansInv
  <1>3. t \in Paths /\ t \in Names
    BY PathsAreNames DEF OpRecord
  <1> SUFFICES ASSUME NEW p \in Paths, NEW j \in {0} \cup DOMAIN log', Carves(p, j)'
               PROVE  v[p].at = p /\ v[p].flags = {}
    BY DEF Carved, Shown, Tree
  <1>4. CASE j = N
    <2>1. op.kind = "bind" /\ op.perm = ReadWrite /\ op.source = t /\ t = p
      BY <1>1, <1>4 DEF Carves, OwnMount, SelfBind
    <2>2. \A k \in DOMAIN log : ~MountsOn(k, p)
      <3> SUFFICES ASSUME NEW k \in DOMAIN log, MountsOn(k, p) PROVE FALSE
        OBVIOUS
      <3>1. k \in DOMAIN log' \ {j} /\ MountsOn(k, p)'
        BY <1>1, <1>4 DEF MountsOn
      <3>2. k > j
        BY <3>1 DEF Carves
      <3> QED BY <1>1, <1>4, <3>2
    <2>3. view[p].flags = {} /\ Below(p, view[p].at)
      BY <1>0, <2>2 DEF OwnInv, AtInv
    <2>4. Below(p, p) /\ Moved(p, p, p) = p
      BY <1>3, <2>1, BelowOrder, MovedMeans
    <2>5. Copied(v[p], view[p], op)
      BY <2>1, <2>4 DEF MountResult, Bound, FreshTypes
    <2> QED BY <2>1, <2>3, <2>5, NoRemount DEF Copied
  <1>5. CASE j \in {0} \cup DOMAIN log
    <2>1. Carves(p, j)
      <3>1. OwnMount(p, j)
        <4>1. OwnMount(p, j)'
          BY DEF Carves
        <4>2. j # 0 => log'[j] = log[j]
          BY <1>1, <1>5
        <4> QED BY <4>1, <4>2 DEF OwnMount, SelfBind
      <3>2. ASSUME NEW k \in DOMAIN log \ {j}, MountsOn(k, p)
            PROVE  k > j /\ SelfBind(k) /\ log[k].target # p
        <4>1. k \in DOMAIN log' \ {j} /\ MountsOn(k, p)' /\ log'[k] = log[k]
          BY <1>1, <3>2 DEF MountsOn
        <4> QED BY <4>1 DEF Carves, SelfBind
      <3> QED BY <3>1, <3>2 DEF Carves
    <2>2. view[p].at = p /\ view[p].flags = {} /\ p \in Names
      BY <1>2, <1>5, <2>1, PathsAreNames DEF Carved, Tree, Shown
    <2>3. CASE ~Below(p, t)
      BY <2>2, <2>3 DEF MountResult, Covered, Bound, Alike
    <2>4. CASE Below(p, t)
      <3>1. PICK k : k = N
        OBVIOUS
      <3>2. k \in DOMAIN log' \ {j} /\ MountsOn(k, p)'
        BY <1>1, <1>5, <2>4, <3>1 DEF MountsOn
      <3>3. SelfBind(k)' /\ log'[k].target # p
        BY <3>2 DEF Carves
      <3>4. op.kind \in {"bind", "rootfs"} /\ op.source = t /\ t # p
        BY <1>1, <3>1, <3>3 DEF SelfBind
      <3>5. Moved(p, t, t) = p /\ ~Below(t, p)
        BY <1>3, <2>2, <2>4, <3>4, BelowOrder, MovedMeans
      <3>6. Copied(v[p], view[p], op)
        BY <2>4, <3>4, <3>5 DEF MountResult, Bound, FreshTypes
      <3> QED BY <2>2, <3>4, <3>5, <3>6 DEF Copied
    <2> QED BY <2>3, <2>4
  <1> QED BY <1>1, <1>4, <1>5

(* After a mount the view below the root directory still shows nothing of  *)
(* the host but what is in it or was bound.                                *)
LEMMA MountKeepsConfines ==
  ASSUME ConfInv, MeansInv, stage \in MountStages, NEW op \in OpRecord, op.kind \in Mounting,
         NEW v, MountResult(v, op), view' = v, log' = Append(log, op), ~InRoot', ~InRoot,
         UNCHANGED rootfs,
         rootfs # "none" => op.kind \in FreshTypes \cup {"bind"} \/ op.source = Rootfs
  PROVE  Confines'
  <1> DEFINE N == Len(log) + 1
             s == op.source
             t == op.target
  <1>0. log \in Seq(OpRecord) /\ OwnInv
    BY DEF ConfInv, ConfTypeOK, ViewInv, MountStages
  <1>1. /\ \A i \in DOMAIN log : log'[i] = log[i]
        /\ log'[N] = op /\ DOMAIN log' = DOMAIN log \cup {N}
    BY <1>0, OpsGrow
  <1>2. Confines /\ LogInv
    BY DEF MeansInv
  <1>3. s \in Paths /\ t \in Paths /\ s \in Names /\ t \in Names /\ Rootfs \in Names
    BY PathsAreNames DEF OpRecord
  <1> SUFFICES ASSUME rootfs # "none", NEW n \in Paths, Below(n, Rootfs), v[n].fs = "host"
               PROVE  \/ Below(v[n].path, Rootfs)
                      \/ \E i \in DOMAIN log' : IsBind(i)' /\ Below(v[n].path, log'[i].source)
    BY DEF Confines, FromRootfs, Tree, Shown
  <1>4. ASSUME NEW q \in Paths, Below(q, Rootfs), view[q].fs = "host", view[q].path = v[n].path
        PROVE  \/ Below(v[n].path, Rootfs)
               \/ \E i \in DOMAIN log' : IsBind(i)' /\ Below(v[n].path, log'[i].source)
    <2>1. \/ Below(v[n].path, Rootfs)
          \/ \E i \in DOMAIN log : IsBind(i) /\ Below(v[n].path, log[i].source)
      BY <1>2, <1>4 DEF Confines, FromRootfs, Tree, Shown
    <2> QED BY <1>1, <2>1 DEF IsBind
  <1>5. CASE ~Below(n, t)
    <2>1. v[n].fs = view[n].fs /\ v[n].path = view[n].path
      BY <1>5 DEF MountResult, Covered, Bound, Alike
    <2> QED BY <1>4, <2>1
  <1>6. CASE Below(n, t)
    <2>1. op.kind \notin FreshTypes
      BY <1>6 DEF MountResult, Covered
    <2> DEFINE q == Moved(n, t, s)
    <2>2. q \in Paths /\ v[n].fs = view[q].fs /\ v[n].path = view[q].path
      BY <1>6, <2>1 DEF MountResult, Bound, Copied
    <2>3. q \in Names /\ Below(q, s)
      BY <1>3, <1>6, PathsAreNames, MovedMeans
    <2> HIDE DEF q
    <2>4. CASE Below(q, Rootfs)
      BY <1>4, <2>2, <2>4
    <2>5. CASE ~Below(q, Rootfs)
      <3>1. op.kind = "bind"
        BY <2>1, <2>3, <2>5
      <3>2. \A i \in DOMAIN log : ~MountsOn(i, q)
        <4> SUFFICES ASSUME NEW i \in DOMAIN log, MountsOn(i, q) PROVE FALSE
          OBVIOUS
        <4>1. log[i] \in OpRecord
          BY <1>0, ElementOfSeq, LenProperties
        <4>2. log[i].target \in Names
          BY <4>1, PathsAreNames DEF OpRecord
        <4>3. Below(q, log[i].target) /\ Below(log[i].target, Rootfs)
          BY <1>2 DEF LogInv, MountsOn
        <4> QED BY <1>3, <2>3, <2>5, <4>2, <4>3, BelowOrder
      <3>3. view[q].path = q
        BY <1>0, <2>2, <3>2 DEF OwnInv
      <3> QED BY <1>1, <2>2, <2>3, <3>1, <3>3 DEF IsBind
    <2> QED BY <2>4, <2>5
  <1> QED BY <1>5, <1>6

(* The kinds of mounts in the log, after one more.                         *)
LEMMA LogInvGrows ==
  ASSUME ConfInv, LogInv, NEW op \in OpRecord, log' = Append(log, op),
         UNCHANGED <<pipeline, rootfs>>,
         rootfs # "none" /\ op.kind \in Mounting => Below(op.target, Rootfs),
         stage' \in {"Private", "RootBind", "Binds"} =>
           stage \in {"Private", "RootBind", "Binds"} /\ op.kind \notin FreshTypes
  PROVE  LogInv'
  <1>0. log \in Seq(OpRecord) /\ LogInv
    BY DEF ConfInv, ConfTypeOK
  <1>1. /\ \A i \in DOMAIN log : log'[i] = log[i]
        /\ log'[Len(log) + 1] = op /\ DOMAIN log' = DOMAIN log \cup {Len(log) + 1}
    BY <1>0, OpsGrow
  <1>2. pipeline' = "pre_exec" => rootfs' = "none"
    BY <1>0 DEF LogInv
  <1>3. rootfs' # "none" =>
          \A i \in DOMAIN log' : log'[i].kind \in Mounting => Below(log'[i].target, Rootfs)
    BY <1>0, <1>1 DEF LogInv
  <1>4. stage' \in {"Private", "RootBind", "Binds"} =>
          \A i \in DOMAIN log' : log'[i].kind \notin FreshTypes
    BY <1>0, <1>1 DEF LogInv
  <1> QED BY <1>2, <1>3, <1>4 DEF LogInv

-----------------------------------------------------------------------------
(* What an operation may be at the step at which it is made                *)
Fitting(op, next) ==
  /\ rootfs # "none" =>
       /\ Below(op.target, Rootfs)
       /\ op.kind \in FreshTypes \cup {"bind"} \/ op.source = Rootfs
  /\ op.kind \notin FreshTypes => stage \in {"RootBind", "Binds"} \/ pipeline = "pre_exec"
  /\ next \in {"Private", "RootBind", "Binds"} =>
       stage \in {"Private", "RootBind", "Binds"} /\ op.kind \notin FreshTypes
  /\ next \in Late => rootfs # "pivot"

(* A mount that succeeds keeps the meaning of the view.                    *)
LEMMA MeansMount ==
  ASSUME ConfInv, MeansInv, stage \in MountStages, NEW op \in OpRecord, op.kind \in Mounting,
         NEW v, NEW next, Succeed(v, op, next), MountResult(v, op), Fitting(op, next)
  PROVE  MeansInv'
  <1>1. /\ view' = v /\ log' = Append(log, op) /\ stage' = next
        /\ UNCHANGED pipeline /\ UNCHANGED rootfs
    BY DEF Succeed, UnchangedProcess, config
  <1>2. ~InRoot /\ ~InRoot'
    BY <1>1 DEF InRoot, MountStages, Late, Fitting
  <1>3. LogInv
    BY DEF MeansInv
  <1>4. Hides'
    BY <1>1, <1>2, MountKeepsHides DEF Fitting
  <1>5. FirstMount'
    BY <1>1, MountKeepsFirst
  <1>6. Holds'
    BY <1>1, <1>2, MountKeepsHolds
  <1>7. Carved'
    BY <1>1, <1>2, MountKeepsCarved
  <1>8. Confines'
    <2>1. rootfs # "none" => op.kind \in FreshTypes \cup {"bind"} \/ op.source = Rootfs
      BY DEF Fitting
    <2> QED BY <1>1, <1>2, <2>1, MountKeepsConfines
  <1>9. LogInv'
    BY <1>1, <1>3, LogInvGrows DEF Fitting
  <1> QED BY <1>4, <1>5, <1>6, <1>7, <1>8, <1>9 DEF MeansInv

(* A mount call keeps it whether it succeeds or fails.                     *)
LEMMA MeansCall ==
  ASSUME ConfInv, MeansInv, stage \in MountStages, NEW op \in OpRecord, op.kind \in Mounting,
         NEW v, NEW next, NEW acc, MountCall(acc, v, op, next), MountResult(v, op),
         Fitting(op, next)
  PROVE  MeansInv'
  <1>1. CASE Succeed(v, op, next)
    BY <1>1, MeansMount
  <1>2. CASE stage' = "Aborted"
    BY <1>2 DEF MeansInv, MountStages, Late
  <1> QED BY <1>1, <1>2 DEF MountCall, Abort

(* bind_mount and install_bind                                             *)
LEMMA MeansBind ==
  ASSUME ConfInv, MeansInv, stage \in MountStages, NEW op \in OpRecord, op.kind = "bind",
         NEW next, NEW acc, BindAndRemount(acc, op, next), Fitting(op, next)
  PROVE  MeansInv'
  <1> DEFINE b == BindRec(view, op.source, op.target, Call)
             v == Remount(b, op.target, RemountFlags(op.perm), op.deep)
  <1>1. op.kind \in Mounting /\ op.kind \notin FreshTypes
    BY DEF Mounting, FreshTypes
  <1>2. CASE ~Remounts(op.perm) /\ MountCall(acc, b, op, next)
    <2>1. Bound(b, op)
      BY <1>2, BoundResult
    <2>2. MountResult(b, op)
      BY <1>1, <2>1 DEF MountResult
    <2> HIDE DEF b
    <2> QED BY <1>1, <1>2, <2>2, MeansCall
  <1>3. CASE Remounts(op.perm) /\ MountCall(acc, v, op, next)
    <2>1. Bound(v, op)
      BY <1>3, RemountResult
    <2>2. MountResult(v, op)
      BY <1>1, <2>1 DEF MountResult
    <2> HIDE DEF v
    <2> QED BY <1>1, <1>3, <2>2, MeansCall
  <1>4. CASE AbortBound(b, op)
    BY <1>4 DEF AbortBound, MeansInv, MountStages, Late
  <1> QED BY <1>2, <1>3, <1>4 DEF BindAndRemount

(* tmpfs and proc                                                          *)
LEMMA MeansFresh ==
  ASSUME ConfInv, MeansInv, stage \in MountStages, NEW t \in Paths, NEW fs \in FreshTypes,
         NEW f \in FlagSets, NEW perm \in Permissions, NEW deep \in BOOLEAN, NEW next, NEW acc,
         MountCall(acc, MountFresh(view, t, fs, f, Call), Op(fs, t, t, perm, deep), next),
         rootfs # "none" => Below(t, Rootfs),
         next \notin {"Private", "RootBind", "Binds"},
         next \in Late => rootfs # "pivot"
  PROVE  MeansInv'
  <1> DEFINE op == Op(fs, t, t, perm, deep)
             v == MountFresh(view, t, fs, f, Call)
             c == Call
  <1>0. fs \in Kinds /\ fs \in Mounting /\ fs # "bind"
    BY DEF FreshTypes, Kinds, Mounting
  <1>1. /\ op \in OpRecord /\ op.kind = fs /\ op.target = t /\ MountCall(acc, v, op, next)
    BY <1>0, OpIsRecord, OpParts
  <1>2. ViewTypeOK(view) /\ AtInv(view)
    BY DEF ConfInv, ViewInv, MountStages
  <1>3. c \in Nat /\ v = MountFresh(view, t, fs, f, c)
    BY LenProperties DEF ConfInv, ConfTypeOK, Call
  <1> HIDE DEF op, c, v
  <1>4. /\ \A n \in Paths : ~Below(n, t) => v[n] = view[n]
        /\ \A n \in Paths : Below(n, t) => v[n].fs # "host"
    BY <1>2, <1>3, MountFreshOK
  <1>5. MountResult(v, op)
    BY <1>1, <1>4 DEF MountResult, Covered, Alike
  <1>6. Fitting(op, next)
    BY <1>0, <1>1 DEF Fitting
  <1> QED BY <1>0, <1>1, <1>5, <1>6, MeansCall

(* Steps that mount nothing, pivot_root among them: they show no path that *)
(* was not shown as it was.                                                *)
LEMMA MeansQuiet ==
  ASSUME ConfInv, MeansInv, stage \in MountStages \cup Late, stage' \in MountStages \cup Late,
         NEW op \in OpRecord, op.kind \notin Mounting, log' = log \/ log' = Append(log, op),
         UNCHANGED <<pipeline, rootfs>>,
         stage' \in MountStages => stage \in MountStages /\ view' = view,
         stage' \in {"Private", "RootBind", "Binds"} =>
           stage \in {"Private", "RootBind", "Binds"},
         Tree' \subseteq Tree, \A n \in Tree' : Shown(n)' = Shown(n)
  PROVE  MeansInv'
  <1>0. log \in Seq(OpRecord) /\ LogInv /\ Hides /\ Holds /\ Carved /\ Confines
    BY DEF ConfInv, ConfTypeOK, MeansInv
  <1>1. op.kind \notin FreshTypes /\ op.kind # "bind"
    BY DEF Mounting, FreshTypes
  <1>2. /\ Len(log) \in Nat /\ Len(log') \in Nat /\ Len(log) <= Len(log')
        /\ DOMAIN log = 1..Len(log) /\ DOMAIN log' = 1..Len(log')
        /\ \A i \in DOMAIN log : i \in DOMAIN log' /\ log'[i] = log[i]
        /\ \A i \in DOMAIN log' :
             \/ i \in DOMAIN log
             \/ i = Len(log) + 1 /\ log'[i] = op
    <2>1. CASE log' = log
      BY <1>0, <2>1, LenProperties
    <2>2. CASE log' = Append(log, op)
      BY <1>0, <2>2, OpsGrow
    <2> QED BY <2>1, <2>2
  <1>3. \A i \in DOMAIN log' : log'[i].kind \in Mounting => i \in DOMAIN log
    BY <1>2
  <1>4. \A k \in FreshTypes \cup {"bind"} : k \in Mounting
    BY DEF FreshTypes, Mounting
  <1>5. LogInv'
    <2>1. CASE log' = log
      BY <1>0, <2>1 DEF LogInv, IsBind
    <2>2. CASE log' = Append(log, op)
      BY <1>0, <1>1, <2>2, LogInvGrows
    <2> QED BY <2>1, <2>2
  <1>6. stage' \in MountStages => FirstMount'
    <2> SUFFICES ASSUME stage' \in MountStages PROVE FirstMount'
      OBVIOUS
    <2>1. FirstMount /\ view' = view
      BY DEF MeansInv
    <2> QED BY <1>2, <2>1 DEF FirstMount, MountsOn
  <1>7. Hides'
    <2> SUFFICES ASSUME NEW i \in DOMAIN log', NEW n \in Tree',
                        log'[i].kind \in FreshTypes, MountsOn(i, n)',
                        \/ pipeline' = "spawn"
                        \/ \A j \in (i + 1)..Len(log') : ~MountsOn(j, n)'
                 PROVE  Shown(n)'.fs # "host"
      BY DEF Hides
    <2>1. i \in DOMAIN log /\ log[i].kind \in FreshTypes /\ MountsOn(i, n) /\ n \in Tree
      BY <1>2, <1>3, <1>4 DEF MountsOn
    <2>a. Len(log) \in Nat /\ Len(log') \in Nat /\ Len(log) <= Len(log')
      BY <1>2
    <2>b. DOMAIN log = 1..Len(log) /\ i \in 1..Len(log)
      BY <1>2, <2>1
    <2>2. \A j \in (i + 1)..Len(log) : j \in (i + 1)..Len(log') /\ j \in DOMAIN log
      <3> DEFINE a == Len(log)
                 b == Len(log')
                 D == DOMAIN log
      <3>1. a \in Nat /\ b \in Nat /\ a <= b /\ D = 1..a /\ i \in 1..a
        BY <2>a, <2>b
      <3> HIDE DEF a, b, D
      <3>2. \A j \in (i + 1)..a : j \in (i + 1)..b /\ j \in D
        BY ONLY <3>1
      <3> QED BY <3>2 DEF a, b, D
    <2>3. pipeline = "spawn" \/ \A j \in (i + 1)..Len(log) : ~MountsOn(j, n)
      BY <1>2, <2>2 DEF MountsOn
    <2>4. Shown(n).fs # "host"
      BY <1>0, <2>1, <2>3 DEF Hides
    <2>5. Shown(n)' = Shown(n)
      OBVIOUS
    <2> QED BY <2>4, <2>5
  <1>8. Holds'
    <2> SUFFICES ASSUME NEW i \in DOMAIN log', NEW n \in Tree',
                        IsBind(i)', MountsOn(i, n)', "ro" \in RemountFlags(log'[i].perm),
                        Shown(n)'.fs # "absent", "ro" \notin Shown(n)'.flags
                 PROVE  Later(i, n)' \/ Nested(i, n, Shown(n).at)'
      BY DEF Holds
    <2>1. /\ i \in DOMAIN log /\ IsBind(i) /\ MountsOn(i, n) /\ n \in Tree
          /\ log'[i] = log[i] /\ "ro" \in RemountFlags(log[i].perm)
      BY <1>2, <1>3 DEF MountsOn, IsBind
    <2>2. Shown(n)' = Shown(n)
      OBVIOUS
    <2>3. Later(i, n) \/ Nested(i, n, Shown(n).at)
      BY <1>0, <2>1, <2>2 DEF Holds
    <2>4. Later(i, n) => Later(i, n)'
      BY <1>2 DEF Later, MountsOn
    <2>5. Nested(i, n, Shown(n).at) => Nested(i, n, Shown(n).at)'
      <3>1. \A j \in 1..(i - 1) : j \in DOMAIN log
        <4> DEFINE a == Len(log)
                   D == DOMAIN log
        <4>1. a \in Nat /\ D = 1..a /\ i \in 1..a
          BY <1>2, <2>1
        <4> HIDE DEF a, D
        <4>2. \A j \in 1..(i - 1) : j \in D
          BY ONLY <4>1
        <4> QED BY <4>2 DEF D
      <3> QED BY <1>2, <2>1, <2>2, <3>1 DEF Nested, MountsOn
    <2> QED BY <2>3, <2>4, <2>5
  <1>9. Carved'
    <2> SUFFICES ASSUME NEW n \in Tree', NEW j \in {0} \cup DOMAIN log', Carves(n, j)'
                 PROVE  Shown(n)'.at = n /\ Shown(n)'.flags = {}
      BY DEF Carved
    <2>1. n \in Tree /\ Shown(n)' = Shown(n)
      OBVIOUS
    <2>2. OwnMount(n, j)'
      BY DEF Carves
    <2>3. j \in {0} \cup DOMAIN log
      BY <1>1, <1>2, <2>2 DEF OwnMount
    <2>4. Carves(n, j)
      <3>1. OwnMount(n, j)
        <4>1. j # 0 => log'[j] = log[j]
          BY <1>2, <2>3
        <4> QED BY <2>2, <4>1 DEF OwnMount, SelfBind
      <3>2. ASSUME NEW k \in DOMAIN log \ {j}, MountsOn(k, n)
            PROVE  k > j /\ SelfBind(k) /\ log[k].target # n
        <4>1. k \in DOMAIN log' \ {j} /\ MountsOn(k, n)' /\ log'[k] = log[k]
          BY <1>2, <3>2 DEF MountsOn
        <4> QED BY <4>1 DEF Carves, SelfBind
      <3> QED BY <3>1, <3>2 DEF Carves
    <2>5. Shown(n).at = n /\ Shown(n).flags = {}
      BY <1>0, <2>1, <2>3, <2>4 DEF Carved
    <2> QED BY <2>1, <2>5
  <1>10. Confines'
    <2> SUFFICES ASSUME rootfs # "none", NEW n \in Tree', Below(n, Rootfs)
                 PROVE  FromRootfs(Shown(n))'
      BY DEF Confines
    <2>1. n \in Tree /\ Shown(n)' = Shown(n)
      OBVIOUS
    <2>2. FromRootfs(Shown(n))
      BY <1>0, <2>1 DEF Confines
    <2> QED BY <1>2, <2>1, <2>2 DEF FromRootfs, IsBind
  <1> QED BY <1>5, <1>6, <1>7, <1>8, <1>9, <1>10 DEF MeansInv

(* A child that gave up has no view to speak of.                           *)
LEMMA MeansAborted ==
  ASSUME stage' = "Aborted"
  PROVE  MeansInv'
  BY DEF MeansInv, MountStages, Late

(* Steps that mount nothing and stay on the same side of pivot_root        *)
LEMMA MeansKept ==
  ASSUME ConfInv, MeansInv, stage \in MountStages \cup Late, stage' \in MountStages \cup Late,
         NEW op \in OpRecord, op.kind \notin Mounting, log' = log \/ log' = Append(log, op),
         UNCHANGED <<pipeline, rootfs, view>>,
         stage' \in MountStages => stage \in MountStages,
         stage' \in {"Private", "RootBind", "Binds"} =>
           stage \in {"Private", "RootBind", "Binds"},
         InRoot' <=> InRoot
  PROVE  MeansInv'
  <1>1. Reach' = Reach /\ \A n : Seen(n)' = Seen(n)
    BY DEF Reach, Seen, Joined
  <1>2. Tree' \subseteq Tree
    BY <1>1 DEF Tree
  <1>3. \A n \in Tree' : Shown(n)' = Shown(n)
    BY <1>1 DEF Shown
  <1> HIDE DEF InRoot
  <1> QED BY <1>2, <1>3, MeansQuiet

(* What is logged and mounts nothing                                       *)
QuietKinds == {"private", "pivot", "chroot", "userns", "seccomp", "landlock"}

(* An operation that mounts nothing is an entry of the log.                *)
LEMMA QuietOp ==
  ASSUME NEW kind \in QuietKinds,
         NEW t \in Paths
  PROVE  /\ Op(kind, <<>>, t, ReadWrite, FALSE) \in OpRecord
         /\ Op(kind, <<>>, t, ReadWrite, FALSE).kind \notin Mounting
  <1>1. kind \in Kinds /\ kind \notin Mounting
    BY DEF Kinds, Mounting, QuietKinds
  <1> QED BY <1>1, PlainOp

(* The primitives of mount::child know no root directory.                  *)
LEMMA NoRootfsComposed ==
  ASSUME ConfInv, MeansInv, stage = "Compose"
  PROVE  stage \in MountStages /\ pipeline = "pre_exec" /\ rootfs = "none"
  <1>1. stage \in MountStages /\ pipeline = "pre_exec"
    BY DEF ConfInv, StageInv, MountStages
  <1> QED BY <1>1 DEF MeansInv, LogInv

(* Before the first step the child sees the host's tree.                   *)
LEMMA MeansInitially == Init => MeansInv
  <1> SUFFICES ASSUME Init PROVE MeansInv
    OBVIOUS
  <1>1. stage \in {"Refused", "Private", "Compose"} /\ view = HostView /\ log = <<>>
    BY DEF Init
  <1>2. DOMAIN log = {}
    BY <1>1, EmptyLog
  <1>3. pipeline = "pre_exec" => rootfs = "none"
    BY DEF Init
  <1>4. \A n \in Paths : /\ view[n].at = HostMountOf(n) /\ view[n].fs = "host"
                         /\ view[n].path = n /\ view[n].flags = {}
    BY <1>1, HostViewOK
  <1>5. Tree = Paths /\ \A n : Shown(n) = view[n]
    BY <1>1 DEF Tree, Shown, InRoot, Late
  <1>6. LogInv /\ FirstMount
    BY <1>2, <1>3, <1>4 DEF LogInv, FirstMount
  <1>7. Hides /\ Holds /\ Carved
    <2>1. Carved
      BY <1>2, <1>4, <1>5, HostMountAbove DEF Carved, Carves, OwnMount
    <2> QED BY <1>2, <2>1 DEF Hides, Holds
  <1>8. Confines
    BY <1>4, <1>5 DEF Confines, FromRootfs
  <1> QED BY <1>6, <1>7, <1>8 DEF MeansInv

-----------------------------------------------------------------------------
(* mount/ops.rs                                                            *)

(* Making the tree private changes nothing in the view.                    *)
LEMMA PrivateMeans ==
  ASSUME ConfInv, MeansInv, MakeMountsPrivate
  PROVE  MeansInv'
  <1> DEFINE kind == "private"
             p == <<>>
             op == Op(kind, <<>>, p, ReadWrite, FALSE)
  <1>1. CASE Abort(MayMount, op)
    BY <1>1, MeansAborted DEF Abort
  <1>2. CASE /\ stage' = IF rootfs = "none" THEN "Binds" ELSE "RootBind"
             /\ UNCHANGED <<config, view, log>>
    <2>1. stage = "Private" /\ stage' \in {"Binds", "RootBind"}
      BY <1>2 DEF MakeMountsPrivate
    <2>2. op \in OpRecord /\ op.kind \notin Mounting
      <3>1. kind \in QuietKinds /\ p \in Paths
        BY PathsAreNames DEF QuietKinds
      <3> HIDE DEF kind, p
      <3> QED BY <3>1, QuietOp
    <2> HIDE DEF op
    <2>3. /\ stage \in MountStages \cup Late /\ stage' \in MountStages \cup Late
          /\ stage' \in MountStages => stage \in MountStages
          /\ stage' \in {"Private", "RootBind", "Binds"} =>
               stage \in {"Private", "RootBind", "Binds"}
      BY <2>1 DEF MountStages, Late
    <2>4. InRoot' <=> InRoot
      BY <2>1 DEF InRoot, Late
    <2>5. UNCHANGED <<pipeline, rootfs, view>> /\ log' = log
      BY <1>2 DEF config
    <2> QED BY <2>2, <2>3, <2>4, <2>5, MeansKept
  <1> QED BY <1>1, <1>2 DEF MakeMountsPrivate

(* A path joined to the root directory lies below it.                      *)
LEMMA JoinedBelow ==
  ASSUME NEW p \in Paths, Joined(p) \in Paths, rootfs # "none"
  PROVE  Below(Joined(p), Rootfs)
  <1>1. p \in Names /\ Rootfs \in Names
    BY PathsAreNames
  <1>2. Below(Rootfs \o p, Rootfs)
    BY <1>1, JoinedOrder
  <1> QED BY <1>2 DEF Joined

(* Binding the root directory on itself keeps the meaning.                 *)
LEMMA RootfsMeans ==
  ASSUME ConfInv, MeansInv, BindRootfs
  PROVE  MeansInv'
  <1> DEFINE no == FALSE
             kind == "rootfs"
             op == Op(kind, Rootfs, Rootfs, ReadWrite, no)
             v == BindRec(view, Rootfs, Rootfs, Call)
             acc == TRUE
             next == "Binds"
  <1>1. stage = "RootBind" /\ MountCall(acc, v, op, next)
    BY DEF BindRootfs
  <1>2. stage \in MountStages
    BY <1>1 DEF MountStages
  <1>3. Rootfs \in Paths /\ Rootfs \in Names
    BY PathsAreNames
  <1>4. /\ op \in OpRecord /\ op.kind = kind /\ op.source = Rootfs /\ op.target = Rootfs
        /\ op.perm = ReadWrite
    <2>1. kind \in Kinds /\ no \in BOOLEAN
      BY DEF Kinds, Mounting
    <2> HIDE DEF kind, no
    <2> QED BY <1>3, <2>1, ReadWriteIsPermission, OpIsRecord, OpParts
  <1>5. op.kind \in Mounting /\ op.kind \notin FreshTypes /\ op.kind # "bind"
    BY <1>4 DEF Mounting, FreshTypes
  <1>6. Below(Rootfs, Rootfs)
    BY <1>3, BelowOrder
  <1>7. next \notin Late /\ next \in {"Private", "RootBind", "Binds"}
    BY DEF Late
  <1> HIDE DEF op, next, acc, no, kind
  <1>8. Fitting(op, next)
    BY <1>1, <1>4, <1>5, <1>6, <1>7 DEF Fitting
  <1>9. Bound(v, op)
    BY <1>2, <1>4, NoRemount, BoundResult
  <1> HIDE DEF v
  <1>10. MountResult(v, op)
    BY <1>5, <1>9 DEF MountResult
  <1> QED BY <1>1, <1>2, <1>4, <1>5, <1>8, <1>10, MeansCall

(* Each bind of setup_bind_mounts keeps the meaning.                       *)
LEMMA BindMeans ==
  ASSUME ConfInv, MeansInv, NEW m \in Mounts, BindMount(m)
  PROVE  MeansInv'
  <1> DEFINE s == m.source
             t == Joined(m.target)
             deep == s \notin Files
             acc == view[s].fs # "absent" /\ CanCreate(view, t, IsFile(view[s]))
             kind == "bind"
             op == Op(kind, s, t, m.perm, deep)
             next == "Binds"
  <1>1. stage = "Binds" /\ t \in Paths /\ BindAndRemount(acc, op, next)
    BY DEF BindMount
  <1>2. s \in Paths /\ m.perm \in Permissions /\ m.target \in Paths /\ deep \in BOOLEAN
    BY ConfinementAssumption
  <1>3. stage \in MountStages /\ pipeline = "spawn"
    BY <1>1 DEF MountStages, ConfInv, StageInv, SpawnStages
  <1>4. /\ op \in OpRecord /\ op.kind = kind /\ op.source = s /\ op.target = t
    <2>1. kind \in Kinds
      BY DEF Kinds, Mounting
    <2> HIDE DEF s, t, deep, kind
    <2> QED BY <1>1, <1>2, <2>1, OpIsRecord, OpParts
  <1>5. op.kind = "bind" /\ op.kind \notin FreshTypes /\ op.kind \in FreshTypes \cup {"bind"}
    BY <1>4 DEF FreshTypes
  <1>6. rootfs # "none" => Below(t, Rootfs)
    BY <1>1, <1>2, JoinedBelow
  <1>7. next \notin Late /\ next \in {"Private", "RootBind", "Binds"}
    BY DEF Late
  <1> HIDE DEF op, s, t, deep, acc, kind, next
  <1>8. Fitting(op, next)
    BY <1>1, <1>3, <1>4, <1>5, <1>6, <1>7 DEF Fitting
  <1> QED BY <1>1, <1>3, <1>4, <1>5, <1>8, MeansBind

(* Each tmpfs overlay keeps the meaning.                                   *)
LEMMA TmpfsMeans ==
  ASSUME ConfInv, MeansInv, NEW p \in Overlays, MountTmpfs(p)
  PROVE  MeansInv'
  <1> DEFINE t == Joined(p)
             no == FALSE
             fs == "tmpfs"
             f == {}
             next == "Tmpfs"
             acc == CanCreate(view, t, no)
  <1>1. /\ stage \in {"Binds", "Tmpfs"} /\ t \in Paths
        /\ MountCall(acc, MountFresh(view, t, fs, f, Call), Op(fs, t, t, ReadWrite, no), next)
    BY DEF MountTmpfs
  <1>2. stage \in MountStages /\ p \in Paths
    BY <1>1, ConfinementAssumption DEF MountStages
  <1>3. fs \in FreshTypes /\ f \in FlagSets /\ no \in BOOLEAN
    BY DEF FreshTypes, FlagSets
  <1>4. rootfs # "none" => Below(t, Rootfs)
    BY <1>1, <1>2, JoinedBelow
  <1>5. next \notin {"Private", "RootBind", "Binds"} /\ next \notin Late
    BY DEF Late
  <1> HIDE DEF t, no, fs, f, next, acc
  <1> QED BY <1>1, <1>2, <1>3, <1>4, <1>5, ReadWriteIsPermission, MeansFresh

(* procfs keeps the meaning in each of its modes.                          *)
LEMMA ProcfsMeans ==
  ASSUME ConfInv, MeansInv, NEW mode, ApplyProcfs(mode)
  PROVE  MeansInv'
  <1> DEFINE t == Joined(ProcDir)
             next == AfterProc
  <1>1. stage \in {"Binds", "Tmpfs"} /\ t \in Paths
    BY DEF ApplyProcfs
  <1>2. stage \in MountStages /\ ProcDir \in Paths
    BY <1>1, ConfinementAssumption DEF MountStages
  <1>3. /\ next \in {"Seccomp", "Root"} /\ next \notin {"Private", "RootBind", "Binds"}
        /\ next \in Late => rootfs # "pivot"
        /\ next \in MountStages \cup Late
    BY DEF AfterProc, Late, MountStages
  <1>4. CASE mode = "Leave"
    <2> DEFINE kind == "userns"
               p == <<>>
               op == Op(kind, <<>>, p, ReadWrite, FALSE)
    <2>1. stage' = next /\ UNCHANGED <<pipeline, rootfs, view, log>>
      BY <1>4 DEF ApplyProcfs, UnchangedProcess, config
    <2>2. op \in OpRecord /\ op.kind \notin Mounting
      <3>1. kind \in QuietKinds /\ p \in Paths
        BY PathsAreNames DEF QuietKinds
      <3> HIDE DEF kind, p
      <3> QED BY <3>1, QuietOp
    <2> HIDE DEF op, next
    <2>3. InRoot' <=> InRoot
      BY <1>1, <1>3, <2>1 DEF InRoot, Late
    <2> QED BY <1>2, <1>3, <2>1, <2>2, <2>3, MeansKept
  <1>5. CASE mode # "Leave"
    <2> DEFINE fs == IF mode = "Hide" THEN "tmpfs" ELSE "proc"
               no == FALSE
               f == {}
               acc == CanCreate(view, t, no)
    <2>1. MountCall(acc, MountFresh(view, t, fs, f, Call), Op(fs, t, t, ReadWrite, no), next)
      BY <1>5 DEF ApplyProcfs
    <2>2. fs \in FreshTypes /\ f \in FlagSets /\ no \in BOOLEAN
      BY DEF FreshTypes, FlagSets
    <2>3. rootfs # "none" => Below(t, Rootfs)
      BY <1>1, <1>2, JoinedBelow
    <2> HIDE DEF fs, no, f, acc, t, next
    <2> QED BY <1>1, <1>2, <1>3, <2>1, <2>2, <2>3, ReadWriteIsPermission, MeansFresh
  <1> QED BY <1>4, <1>5

(* The rootfs is its own root.                                             *)
LEMMA JoinedRoot ==
  ASSUME rootfs # "none"
  PROVE  Joined(<<>>) = Rootfs
  <1>1. Rootfs \in Seq(STRING)
    BY PathsAssumption
  <1>2. Rootfs \o <<>> = Rootfs
    BY <1>1, ConcatEmptySeq
  <1> QED BY <1>2 DEF Joined

(* pivot_root shows each path of the rootfs what the path showed before.   *)
LEMMA PivotShows ==
  ASSUME rootfs = "pivot", UNCHANGED rootfs, view' = Pivoted(view), NEW n \in Reach'
  PROVE  n \in Paths /\ Seen(n)' = view[n]
  <1> DEFINE q == SubSeq(n, Len(Rootfs) + 1, Len(n))
  <1>1. n \in Paths /\ Below(n, Joined(<<>>)) /\ q \in Paths
    BY DEF Reach, Joined
  <1>2. Below(n, Rootfs) /\ n \in Names /\ Rootfs \in Names
    BY <1>1, JoinedRoot, PathsAreNames
  <1>3. Moved(n, Rootfs, Rootfs) = n
    BY <1>2, MovedMeans
  <1>4. Rootfs \o q = n
    BY <1>3 DEF Moved
  <1>5. Seen(n)' = view'[q]
    BY DEF Seen
  <1> HIDE DEF q
  <1>6. Pivoted(view)[q] = view[n]
    BY <1>1, <1>4 DEF Pivoted
  <1> QED BY <1>1, <1>5, <1>6

(* pivot_root only renames what the view shows.                            *)
LEMMA EnterMeans ==
  ASSUME ConfInv, MeansInv, EnterRootfs
  PROVE  MeansInv'
  <1> DEFINE p == Rootfs
  <1>1. stage = "Root" /\ stage \in MountStages \cup Late /\ ~InRoot
    BY DEF EnterRootfs, MountStages, Late, InRoot
  <1>2. CASE stage' = "Aborted"
    BY <1>2, MeansAborted
  <1>3. CASE stage' # "Aborted" /\ rootfs \in {"pivot", "pivot_custom"}
    <2> DEFINE kind == "pivot"
               op == Op(kind, <<>>, p, ReadWrite, FALSE)
    <2>1. op \in OpRecord /\ op.kind \notin Mounting
      <3>1. kind \in QuietKinds /\ p \in Paths
        BY PathsAreNames DEF QuietKinds
      <3> HIDE DEF kind, p
      <3> QED BY <3>1, QuietOp
    <2>2. /\ rootfs = "pivot" /\ view' = Pivoted(view) /\ log' = Append(log, op)
          /\ stage' = "Seccomp" /\ UNCHANGED rootfs /\ UNCHANGED pipeline
      BY <1>3 DEF EnterRootfs, MountCall, Succeed, Abort, UnchangedProcess, config
    <2> HIDE DEF op
    <2>3. InRoot' /\ stage' \in MountStages \cup Late /\ stage' \notin MountStages
      BY <2>2 DEF InRoot, Late, MountStages
    <2>4. Tree' = Reach' /\ Tree = Paths
      BY <1>1, <2>3 DEF Tree
    <2>5. Tree' \subseteq Tree
      BY <2>4 DEF Reach
    <2>6. \A n \in Tree' : Shown(n)' = Shown(n)
      <3> SUFFICES ASSUME NEW n \in Reach' PROVE Shown(n)' = Shown(n)
        BY <2>4
      <3>1. Seen(n)' = view[n]
        BY <2>2, PivotShows
      <3>2. Shown(n)' = Seen(n)' /\ Shown(n) = view[n]
        BY <1>1, <2>3 DEF Shown
      <3> QED BY <3>1, <3>2
    <2>7. stage' \notin {"Private", "RootBind", "Binds"}
      BY <2>2
    <2> QED BY <1>1, <2>1, <2>2, <2>3, <2>5, <2>6, <2>7, MeansQuiet
  <1>4. CASE stage' # "Aborted" /\ rootfs = "chroot"
    <2> DEFINE kind == "chroot"
               op == Op(kind, <<>>, p, ReadWrite, FALSE)
    <2>1. op \in OpRecord /\ op.kind \notin Mounting
      <3>1. kind \in QuietKinds /\ p \in Paths
        BY PathsAreNames DEF QuietKinds
      <3> HIDE DEF kind, p
      <3> QED BY <3>1, QuietOp
    <2> HIDE DEF op
    <2>2. stage' = "Seccomp" /\ log' = log /\ UNCHANGED <<pipeline, rootfs, view>>
      BY <1>4 DEF EnterRootfs, Abort, config
    <2>3. /\ ~InRoot' /\ stage' \in MountStages \cup Late /\ stage' \notin MountStages
          /\ stage' \notin {"Private", "RootBind", "Binds"}
      BY <1>4, <2>2 DEF InRoot, Late, MountStages
    <2> QED BY <1>1, <2>1, <2>2, <2>3, MeansKept
  <1> QED BY <1>2, <1>3, <1>4 DEF EnterRootfs

-----------------------------------------------------------------------------
(* The filter, the domain, exec, and install_user_mount_ns                 *)
LEMMA PlainMeans ==
  ASSUME ConfInv, MeansInv,
         NEW kind \in QuietKinds,
         log' = log \/ log' = Append(log, Op(kind, <<>>, <<>>, ReadWrite, FALSE)),
         UNCHANGED <<pipeline, rootfs, view>>,
         \/ stage = "Seccomp" /\ stage' = "Hook"
         \/ stage = "Hook" /\ stage' = "Exec"
         \/ stage = "Exec" /\ stage' = "Target"
         \/ stage = "Compose" /\ stage' = "Compose"
         \/ stage = "Compose" /\ stage' = "Target"
  PROVE  MeansInv'
  <1> DEFINE op == Op(kind, <<>>, <<>>, ReadWrite, FALSE)
  <1>1. op \in OpRecord /\ op.kind \notin Mounting /\ (log' = log \/ log' = Append(log, op))
    BY PathsAreNames, QuietOp
  <1> HIDE DEF op
  <1>2. /\ stage \in MountStages \cup Late /\ stage' \in MountStages \cup Late
        /\ stage' \in MountStages => stage \in MountStages
        /\ stage' \notin {"Private", "RootBind", "Binds"}
    BY DEF MountStages, Late
  <1>3. InRoot' <=> InRoot
    <2>1. stage = "Compose" => rootfs = "none"
      BY NoRootfsComposed
    <2> QED BY <2>1 DEF InRoot, Late
  <1> QED BY <1>1, <1>2, <1>3, MeansKept

(* Steps behind the mounts leave the view alone.                           *)
LEMMA StepMeans ==
  ASSUME ConfInv, MeansInv, NEW next, Skip(next) \/ LoadsFilter(next) \/ Restricts(next),
         \/ stage = "Seccomp" /\ next = "Hook"
         \/ stage = "Hook" /\ next = "Exec"
         \/ stage = "Exec" /\ next = "Target"
         \/ stage = "Compose" /\ next = "Compose"
         \/ stage = "Compose" /\ next = "Target"
  PROVE  MeansInv'
  <1>1. CASE stage' = "Aborted"
    BY <1>1, MeansAborted
  <1>2. CASE stage' # "Aborted"
    <2>1. stage' = next /\ UNCHANGED <<pipeline, rootfs, view>>
      BY <1>2 DEF Skip, LoadsFilter, Restricts, Abort, UnchangedProcess, config
    <2>2. PICK kind \in QuietKinds :
            log' = log \/ log' = Append(log, Op(kind, <<>>, <<>>, ReadWrite, FALSE))
      BY DEF Skip, LoadsFilter, Restricts, Abort, QuietKinds
    <2> QED BY <2>1, <2>2, PlainMeans
  <1> QED BY <1>1, <1>2

(* Entering the namespaces in pre_exec leaves the view alone.              *)
LEMMA UserNamespaceMeans ==
  ASSUME ConfInv, MeansInv, install_user_mount_ns
  PROVE  MeansInv'
  <1> DEFINE kind == "userns"
  <1>1. CASE stage' = "Aborted"
    BY <1>1, MeansAborted
  <1>2. CASE stage' # "Aborted"
    <2>1. /\ stage = "Compose" /\ stage' = "Compose" /\ UNCHANGED <<pipeline, rootfs, view>>
          /\ log' = Append(log, Op(kind, <<>>, <<>>, ReadWrite, FALSE))
      BY <1>2 DEF install_user_mount_ns, Composing, Abort, config
    <2>2. kind \in QuietKinds
      BY DEF QuietKinds
    <2> HIDE DEF kind
    <2> QED BY <2>1, <2>2, PlainMeans
  <1> QED BY <1>1, <1>2

-----------------------------------------------------------------------------
(* mount/child.rs                                                          *)
LEMMA InstallTmpfsMeans ==
  ASSUME ConfInv, MeansInv, NEW t \in Overlays, NEW f \in SUBSET {"ro"}, install_tmpfs(t, f)
  PROVE  MeansInv'
  <1> DEFINE no == FALSE
             fs == "tmpfs"
             next == "Compose"
             perm == [kind |-> "Custom", flags |-> f]
             acc == view[t].fs # "absent" /\ ~IsFile(view[t])
  <1>1. /\ stage = "Compose"
        /\ MountCall(acc, MountFresh(view, t, fs, f, Call), Op(fs, t, t, perm, no), next)
    BY DEF install_tmpfs, Composing
  <1>2. stage \in MountStages /\ rootfs = "none" /\ t \in Paths
    BY <1>1, ConfinementAssumption, NoRootfsComposed
  <1>3. fs \in FreshTypes /\ f \in FlagSets /\ no \in BOOLEAN
    BY DEF FreshTypes, FlagSets, MountFlags
  <1>4. perm \in Permissions
    BY DEF Permissions, MountFlags
  <1>5. next \notin {"Private", "RootBind", "Binds"} /\ next \notin Late
    BY DEF Late
  <1> HIDE DEF no, fs, perm, next, acc
  <1> QED BY <1>1, <1>2, <1>3, <1>4, <1>5, MeansFresh

(* install_bind keeps the meaning.                                         *)
LEMMA InstallBindMeans ==
  ASSUME ConfInv, MeansInv, NEW b \in Binds, install_bind(b)
  PROVE  MeansInv'
  <1> DEFINE t == b.target
             acc == view[t].fs # "absent"
             kind == "bind"
             op == Op(kind, t, t, b.perm, b.deep)
             next == "Compose"
  <1>1. stage = "Compose" /\ BindAndRemount(acc, op, next)
    BY DEF install_bind, Composing
  <1>2. t \in Paths /\ b.perm \in Permissions /\ b.deep \in BOOLEAN
    BY ConfinementAssumption
  <1>3. stage \in MountStages /\ pipeline = "pre_exec" /\ rootfs = "none"
    BY <1>1, NoRootfsComposed
  <1>4. op \in OpRecord /\ op.kind = "bind" /\ op.source = t /\ op.target = t
    <2>1. kind \in Kinds /\ kind = "bind"
      BY DEF Kinds, Mounting
    <2> HIDE DEF t, kind
    <2> QED BY <1>2, <2>1, OpIsRecord, OpParts
  <1>5. next \notin {"Private", "RootBind", "Binds"} /\ next \notin Late
    BY DEF Late
  <1> HIDE DEF t, op, acc, kind, next
  <1>6. Fitting(op, next)
    BY <1>3, <1>4, <1>5 DEF Fitting
  <1> QED BY <1>1, <1>3, <1>4, <1>6, MeansBind

(* install_mount keeps the meaning.                                        *)
LEMMA InstallMountMeans ==
  ASSUME ConfInv, MeansInv, NEW m \in Mounts, install_mount(m)
  PROVE  MeansInv'
  <1> DEFINE s == m.source
             t == m.target
             acc == /\ view[s].fs # "absent" /\ view[t].fs # "absent"
                    /\ IsFile(view[s]) <=> IsFile(view[t])
             no == FALSE
             kind == "raw"
             op == Op(kind, s, t, ReadWrite, no)
             v == BindRec(view, s, t, Call)
             next == "Compose"
  <1>1. stage = "Compose" /\ MountCall(acc, v, op, next)
    BY DEF install_mount, Composing
  <1>2. s \in Paths /\ t \in Paths
    BY ConfinementAssumption
  <1>3. stage \in MountStages /\ pipeline = "pre_exec" /\ rootfs = "none"
    BY <1>1, NoRootfsComposed
  <1>4. /\ op \in OpRecord /\ op.kind = "raw" /\ op.source = s /\ op.target = t
        /\ op.perm = ReadWrite
    <2>1. kind \in Kinds /\ no \in BOOLEAN /\ kind = "raw"
      BY DEF Kinds, Mounting
    <2> HIDE DEF s, t, no, kind
    <2> QED BY <1>2, <2>1, ReadWriteIsPermission, OpIsRecord, OpParts
  <1>5. next \notin {"Private", "RootBind", "Binds"} /\ next \notin Late
    BY DEF Late
  <1>6. op.kind \in Mounting /\ op.kind \notin FreshTypes /\ op.kind # "bind"
    BY <1>4 DEF Mounting, FreshTypes
  <1> HIDE DEF s, t, op, acc, no, kind, next
  <1>7. Fitting(op, next)
    BY <1>3, <1>5, <1>6 DEF Fitting
  <1>8. Bound(v, op)
    BY <1>3, <1>4, NoRemount, BoundResult
  <1> HIDE DEF v
  <1>9. MountResult(v, op)
    BY <1>6, <1>8 DEF MountResult
  <1> QED BY <1>1, <1>3, <1>4, <1>6, <1>7, <1>9, MeansCall

-----------------------------------------------------------------------------
(* Every step keeps the invariant.                                         *)
LEMMA MeansStep == ConfInv /\ MeansInv /\ [Next]_vars => MeansInv'
  <1> SUFFICES ASSUME ConfInv, MeansInv, [Next]_vars PROVE MeansInv'
    OBVIOUS
  <1>1. CASE MakeMountsPrivate \/ BindRootfs \/ EnterRootfs
    BY <1>1, PrivateMeans, RootfsMeans, EnterMeans
  <1>2. CASE InstallSeccomp \/ RunHook \/ Exec
    <2>1. PICK next : /\ Skip(next) \/ LoadsFilter(next) \/ Restricts(next)
                      /\ \/ stage = "Seccomp" /\ next = "Hook"
                         \/ stage = "Hook" /\ next = "Exec"
                         \/ stage = "Exec" /\ next = "Target"
      BY <1>2 DEF InstallSeccomp, RunHook, Exec
    <2> QED BY <2>1, StepMeans
  <1>3. ASSUME NEW m \in Mounts, BindMount(m) \/ install_mount(m) PROVE MeansInv'
    BY <1>3, BindMeans, InstallMountMeans
  <1>4. ASSUME NEW t \in Overlays,
               MountTmpfs(t) \/ \E f \in SUBSET {"ro"} : install_tmpfs(t, f)
        PROVE  MeansInv'
    BY <1>4, TmpfsMeans, InstallTmpfsMeans
  <1>5. ASSUME NEW mode \in {"Remount", "Hide", "Leave"}, ApplyProcfs(mode) PROVE MeansInv'
    BY <1>5, ProcfsMeans
  <1>6. ASSUME NEW b \in Binds, install_bind(b) PROVE MeansInv'
    BY <1>6, InstallBindMeans
  <1>7. CASE install_user_mount_ns
    BY <1>7, UserNamespaceMeans
  <1>8. CASE ComposeLandlock \/ ComposeSeccomp \/ ComposeExec
    <2>1. PICK next : /\ Skip(next) \/ LoadsFilter(next) \/ Restricts(next)
                      /\ \/ stage = "Compose" /\ next = "Compose"
                         \/ stage = "Compose" /\ next = "Target"
      BY <1>8 DEF ComposeLandlock, ComposeSeccomp, ComposeExec, Composing
    <2> QED BY <2>1, StepMeans
  <1>9. CASE UNCHANGED vars
    <2> DEFINE kind == "userns"
               p == <<>>
               op == Op(kind, <<>>, p, ReadWrite, FALSE)
    <2>1. op \in OpRecord /\ op.kind \notin Mounting
      <3>1. kind \in QuietKinds /\ p \in Paths
        BY PathsAreNames DEF QuietKinds
      <3> HIDE DEF kind, p
      <3> QED BY <3>1, QuietOp
    <2> HIDE DEF op
    <2>2. UNCHANGED <<pipeline, rootfs, view>> /\ stage' = stage /\ log' = log
      BY <1>9 DEF vars, config
    <2>3. CASE stage \in MountStages \cup Late
      <3>1. InRoot' <=> InRoot
        BY <2>2 DEF InRoot
      <3> QED BY <2>1, <2>2, <2>3, <3>1, MeansKept
    <2>4. CASE stage \notin MountStages \cup Late
      BY <2>2, <2>4 DEF MeansInv
    <2> QED BY <2>3, <2>4
  <1> QED BY <1>1, <1>2, <1>3, <1>4, <1>5, <1>6, <1>7, <1>8, <1>9 DEF Next

(* What the invariant says of a target's view                              *)
LEMMA ViewOfTarget == ConfInv /\ MeansInv => ViewMeansConfig
  <1> SUFFICES ASSUME ConfInv, MeansInv, stage = "Target"
               PROVE  OverlaysHide /\ ReadOnlyHolds /\ NestedStayWritable /\ RootfsConfines
    BY DEF ViewMeansConfig
  <1>1. LogInv /\ Hides /\ Holds /\ Carved /\ Confines
    BY DEF MeansInv, Late
  <1>2. \A n \in Reach : n \in Tree /\ n \in Paths
    BY DEF Tree, Reach
  <1>3. \A n : Shown(n) = Seen(n)
    BY DEF Shown, Seen, InRoot, Late
  <1>4. /\ pipeline \in {"spawn", "pre_exec"} /\ log \in Seq(OpRecord)
        /\ \A i \in DOMAIN log : log[i] \in OpRecord
    BY ElementOfSeq, LenProperties DEF ConfInv, ConfTypeOK
  <1>5. OverlaysHide
    BY <1>1, <1>2, <1>3 DEF OverlaysHide, Hides, FreshTypes
  <1>6. ReadOnlyHolds
    <2> SUFFICES ASSUME NEW i \in DOMAIN log, NEW n \in Reach,
                        log[i].kind = "bind", MountsOn(i, n),
                        "ro" \in RemountFlags(log[i].perm),
                        Writable([x \in {n} |-> Seen(n)], n)
                 PROVE  \/ \E j \in DOMAIN log : j > i /\ MountsOn(j, n)
                        \/ /\ Below(Seen(n).at, log[i].target) /\ Seen(n).at # log[i].target
                           /\ LET q == Moved(n, log[i].target, log[i].source)
                              IN  \/ \E j \in 1..(i - 1) : MountsOn(j, q)
                                  \/ HostNests(q, log[i].source)
      BY DEF ReadOnlyHolds, HostNests
    <2>1. Seen(n).fs # "absent" /\ "ro" \notin Seen(n).flags
      BY DEF Writable
    <2>2. n \in Tree /\ Shown(n) = Seen(n) /\ IsBind(i)
      BY <1>2, <1>3 DEF IsBind
    <2>3. Later(i, n) \/ Nested(i, n, Seen(n).at)
      BY <1>1, <2>1, <2>2 DEF Holds
    <2> QED BY <2>3 DEF Later, Nested
  <1>7. NestedStayWritable
    <2> SUFFICES ASSUME NEW n \in Reach, NEW j \in {0} \cup DOMAIN log, Carves(n, j)
                 PROVE  "ro" \notin Seen(n).flags
      BY DEF NestedStayWritable, Carves
    <2>1. Shown(n).flags = {}
      BY <1>1, <1>2 DEF Carved
    <2> QED BY <1>3, <2>1
  <1>8. RootfsConfines
    <2> SUFFICES ASSUME rootfs # "none", NEW n \in Reach, Seen(n).fs = "host"
                 PROVE  \/ Below(Seen(n).path, Rootfs)
                        \/ \E i \in DOMAIN log :
                             log[i].kind = "bind" /\ Below(Seen(n).path, log[i].source)
      BY DEF RootfsConfines
    <2>1. n \in Tree /\ Shown(n) = Seen(n)
      BY <1>2, <1>3
    <2>2. Below(n, Rootfs)
      BY JoinedRoot DEF Reach
    <2>3. FromRootfs(Seen(n))
      BY <1>1, <2>1, <2>2 DEF Confines
    <2> QED BY <2>3 DEF FromRootfs, IsBind
  <1> QED BY <1>5, <1>6, <1>7, <1>8

(* The view with which a target starts is the one that the configuration,  *)
(* or the caller's sequence of primitives, asks for mount by mount: for    *)
(* any tree, any mounts of the host in it, and any number of mounts, binds *)
(* and overlays, read-only holds for the mount of its bind, and the mounts *)
(* nested below keep their own flags, also when RemountRecursion::Recursive*)
(* asked otherwise (mount/ops.rs setup_mount_namespace, mount/child.rs     *)
(* install_bind, install_tmpfs and install_mount).                         *)
THEOREM ViewIsConfig == Spec => []ViewMeansConfig
  <1>1. Init => ConfInv /\ MeansInv
    BY ConfInitially, MeansInitially
  <1>2. ConfInv /\ MeansInv /\ [Next]_vars => (ConfInv /\ MeansInv)'
    BY ConfStep, MeansStep
  <1>3. ConfInv /\ MeansInv => ViewMeansConfig
    BY ViewOfTarget
  <1> QED BY <1>1, <1>2, <1>3, PTL DEF Spec
=============================================================================
