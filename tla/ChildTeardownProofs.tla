-------------------------- MODULE ChildTeardownProofs --------------------------
(***************************************************************************)
(* Proofs about ChildTeardown: the tree kill and the drop of the proxy,    *)
(* for any finite set of processes, any number of rounds, connections and  *)
(* requests.                                                               *)
(***************************************************************************)
EXTENDS ChildTeardown, FiniteSetTheorems, SequenceTheorems, TLAPS

(* Types; the steps of a kill are those that the cgroup calls for.         *)
KillPcs ==
  IF cgroup = "none" THEN {"idle", "round", "walk", "signal", "done"}
  ELSE IF cgroup = "kill" THEN {"idle", "killfile", "done"}
  ELSE {"idle", "killfile", "round", "signal", "done"}

KillTypeOK ==
  /\ cgroup \in {"none", "kill", "freeze"} /\ pidns \in BOOLEAN
  /\ st \in [Procs -> {"unborn", "running", "killed", "dead"}]
  /\ parent \in [Procs -> Procs \cup {Outside}]
  /\ side \subseteq Procs /\ stray \subseteq Procs
  /\ kpc \in KillPcs /\ round \in 0..Rounds /\ unread \in BOOLEAN
  /\ stack \subseteq Procs /\ out \in Seq(Procs) /\ read \subseteq Procs

(* Found in a round, and not yet signalled                                 *)
Found == stack \cup ToSet(out)

(* The kill knows no process before it is born, and at the end of a round  *)
(* it has signalled what the round found.                                  *)
RoundInv ==
  /\ st[Root] # "unborn" /\ Root \notin side
  /\ \A p \in stack \cup read : st[p] # "unborn"
  /\ ToSet(out) \subseteq read
  /\ kpc \notin {"walk", "signal"} => Found = {}
  /\ kpc = "signal" => stack = {}

(* What a walk of kill_tree relies on: a running process that it has no    *)
(* reason to miss is found or has a running parent whose children are not  *)
(* read yet, and the walk has not lost sight of the root.                  *)
WalkInv ==
  /\ side \subseteq stray /\ side \cap stack = {}
  /\ \A c \in Procs \ (Found \cup stray \cup {Root}) :
       st[c] = "running" => parent[c] \in Procs /\ st[parent[c]] = "running"
  /\ \A c \in Procs \ (Found \cup stray) : st[c] = "running" => parent[c] \notin read
  /\ kpc \in {"walk", "signal"} \/ (kpc = "round" /\ round < Rounds) =>
       Root \in read \cup stack

(* What the rounds of kill_all rely on after a snapshot: what still runs   *)
(* is listed, or was forked since.                                         *)
FreezeInv ==
  /\ kpc = "killfile" => round = Rounds
  /\ kpc = "signal" => round < Rounds /\ Running \subseteq stray \cup ToSet(out)
  /\ kpc = "round" => round = Rounds \/ Running \subseteq stray
  /\ kpc = "done" => unread \/ Running \subseteq stray

(* The inductive invariant of the kill                                     *)
KillInv ==
  /\ KillTypeOK /\ RoundInv
  /\ cgroup = "none" /\ ~pidns => WalkInv
  /\ cgroup = "none" /\ kpc = "done" => st[Root] # "running"
  /\ cgroup = "freeze" => FreezeInv
  /\ cgroup = "kill" /\ kpc = "done" => Running = {}

(* Beside it, why a walk signals no child of another thread: it is never   *)
(* found, and only what is found is signalled.                             *)
ThreadInv ==
  cgroup = "none" => side \cap Found = {} /\ \A c \in side : st[c] # "killed"

(* A step of the kill, of the processes of the sandbox or of the kernel    *)
KillNext == StartKill \/ KillStep \/ ProcStep

-----------------------------------------------------------------------------
(* A runtime that is stopped has no task left, and only the drop of the    *)
(* handle stops it.                                                        *)
ProxyTypeOK == conn \in [Conns -> {"none", "queued", "elsewhere", "head", "connect",
                                   "forward", "transfer", "closed"}]

ProxyInv ==
  /\ ProxyTypeOK
  /\ drv = "Dropped" => runtime = "gone"
  /\ runtime \in {"stopping", "gone"} =>
       /\ drv \in {"Runtime", "Dropped"}
       /\ port # "proxy" /\ server = "ended"
       /\ \A x \in Conns : conn[x] \in {"none", "elsewhere", "closed"}
  /\ runtime = "gone" => resolving = {}

-----------------------------------------------------------------------------
(* The lists that the kill works on                                        *)

(* get_pids lists every member of the cgroup and nothing else.             *)
LEMMA ListsAll ==
  ASSUME NEW S, IsFiniteSet(S)
  PROVE  SetToSeq(S) \in Seq(S) /\ ToSet(SetToSeq(S)) = S
  <1> DEFINE n == Cardinality(S)
  <1>1. n \in Nat /\ ExistsBijection(1..n, S)
    BY FS_CardinalityType
  <1>2. PICK f \in Bijection(1..n, S) : TRUE
    BY <1>1 DEF ExistsBijection
  <1>3. f \in [1..n -> S] /\ IsInjective(f)
    BY <1>2 DEF Bijection, Injection, IsInjective
  <1>4. SetToSeq(S) \in [1..n -> S] /\ IsInjective(SetToSeq(S))
    BY <1>3 DEF SetToSeq
  <1> DEFINE s == SetToSeq(S)
  <1> HIDE DEF s
  <1>5. s \in [1..n -> S] /\ s \in Injection(1..n, S)
    BY <1>4, <1>1 DEF Injection, IsInjective, s
  <1>6. IsFiniteSet(1..n) /\ Cardinality(1..n) = n
    BY <1>1, FS_Interval
  <1>7. s \in Surjection(1..n, S)
    BY <1>5, <1>6, FS_Injection
  <1>8. ToSet(s) = S
    BY <1>5, <1>7 DEF ToSet, Surjection
  <1>9. s \in Seq(S)
    BY <1>1, <1>5
  <1> QED BY <1>8, <1>9 DEF s

(* Pushing and taking the first of a list                                  *)
LEMMA ListSteps ==
  ASSUME NEW S, NEW s \in Seq(S)
  PROVE  /\ \A x \in S : Append(s, x) \in Seq(S) /\ ToSet(Append(s, x)) = ToSet(s) \cup {x}
         /\ s # <<>> => /\ Head(s) \in S /\ Tail(s) \in Seq(S)
                        /\ ToSet(s) = ToSet(Tail(s)) \cup {Head(s)}
         /\ ToSet(s) \subseteq S /\ ToSet(<<>>) = {}
         /\ s = <<>> \/ Head(s) \in ToSet(s)
  <1>1. ToSet(s) \subseteq S /\ ToSet(<<>>) = {}
    BY DEF ToSet
  <1>2. ASSUME NEW x \in S
        PROVE  Append(s, x) \in Seq(S) /\ ToSet(Append(s, x)) = ToSet(s) \cup {x}
    <2>1. /\ Append(s, x) \in Seq(S) /\ DOMAIN Append(s, x) = 1..(Len(s) + 1)
          /\ \A i \in 1..Len(s) : Append(s, x)[i] = s[i]
          /\ Append(s, x)[Len(s) + 1] = x
          /\ DOMAIN s = 1..Len(s) /\ Len(s) \in Nat
      OBVIOUS
    <2>2. 1..(Len(s) + 1) = (1..Len(s)) \cup {Len(s) + 1}
      BY <2>1
    <2> QED BY <2>1, <2>2 DEF ToSet
  <1>3. ASSUME s # <<>>
        PROVE  /\ Head(s) \in S /\ Tail(s) \in Seq(S)
               /\ ToSet(s) = ToSet(Tail(s)) \cup {Head(s)}
    <2>1. /\ Len(s) \in Nat \ {0} /\ Head(s) = s[1] /\ Tail(s) \in Seq(S)
          /\ DOMAIN s = 1..Len(s) /\ DOMAIN Tail(s) = 1..(Len(s) - 1)
          /\ \A i \in 1..(Len(s) - 1) : Tail(s)[i] = s[i + 1]
      BY <1>3
    <2>2. \A i \in 1..Len(s) : i = 1 \/ (i - 1 \in 1..(Len(s) - 1) /\ (i - 1) + 1 = i)
      BY <2>1
    <2>3. \A i \in 1..(Len(s) - 1) : i + 1 \in 1..Len(s)
      BY <2>1
    <2>4. ASSUME NEW y \in ToSet(s) PROVE y \in ToSet(Tail(s)) \cup {Head(s)}
      <3>1. PICK i \in 1..Len(s) : y = s[i]
        BY <2>1 DEF ToSet
      <3>2. i = 1 \/ y = Tail(s)[i - 1]
        BY <3>1, <2>1, <2>2
      <3> QED BY <3>1, <3>2, <2>1, <2>2 DEF ToSet
    <2>5. ASSUME NEW y \in ToSet(Tail(s)) \cup {Head(s)} PROVE y \in ToSet(s)
      <3>1. CASE y = Head(s)
        BY <3>1, <2>1 DEF ToSet
      <3>2. CASE y \in ToSet(Tail(s))
        BY <3>2, <2>1, <2>3 DEF ToSet
      <3> QED BY <2>5, <3>1, <3>2
    <2>6. ToSet(s) = ToSet(Tail(s)) \cup {Head(s)}
      BY <2>4, <2>5
    <2>7. Head(s) \in S
      BY <2>1
    <2> QED BY <2>1, <2>6, <2>7
  <1> QED BY <1>1, <1>2, <1>3

-----------------------------------------------------------------------------
(* The proxy                                                               *)

(* The first state                                                         *)
LEMMA ProxyInitially == Init => ProxyInv
  BY DEF Init, ProxyInit, ProxyInv, ProxyTypeOK

(* The runtime that holds the proxy is stopped by the drop of the handle   *)
(* only, which closes what its tasks had open before it waits for the      *)
(* lookups.                                                                *)
LEMMA ProxyStep == ProxyInv /\ [Next]_teardownVars => ProxyInv'
  <1> SUFFICES ASSUME ProxyInv, [Next]_teardownVars PROVE ProxyInv'
    OBVIOUS
  <1> USE DEF ProxyInv, ProxyTypeOK
  <1>1. CASE Setup
    <2>1. drv = "Spawning" /\ drv' \in {"Held", "Refused", drv}
      BY <1>1 DEF Setup
    <2>2. runtime \notin {"stopping", "gone"} /\ runtime' \in {runtime, "running"}
      BY <1>1, <2>1 DEF Setup, FindFreePort, BuildRuntime, SetupReturns
    <2>3. conn' = conn
      BY <1>1 DEF Setup, FindFreePort, BuildRuntime, SetupReturns
    <2> QED BY <2>1, <2>2, <2>3
  <1>2. CASE UNCHANGED proxyVars /\ drv' # "Dropped" /\ drv \notin {"Runtime", "Dropped"}
    BY <1>2 DEF proxyVars
  <1>3. CASE UNCHANGED <<proxyVars, drv>>
    BY <1>3 DEF proxyVars
  <1>4. CASE DropProxy
    BY <1>4 DEF DropProxy, Shutdown
  <1>5. CASE DropRuntime
    <2>1. CASE runtime = "running" /\ CancelTasks /\ UNCHANGED drv
      BY <1>5, <2>1 DEF DropRuntime, CancelTasks, Cancelled
    <2>2. CASE JoinRuntime /\ drv' = "Dropped"
      BY <1>5, <2>2 DEF DropRuntime, JoinRuntime
    <2> QED BY <1>5, <2>1, <2>2 DEF DropRuntime
  <1>6. CASE ProxyServer
    BY <1>6 DEF ProxyServer, Bind, ServerStops
  <1>7. CASE OtherTakesPort
    BY <1>7 DEF OtherTakesPort, OtherBinds
  <1>8. ASSUME NEW x \in Conns, Connect(x) PROVE ProxyInv'
    BY <1>8 DEF Connect
  <1>9. ASSUME NEW x \in Conns, SendHead(x) PROVE ProxyInv'
    <2>1. runtime = "running" /\ UNCHANGED <<runtime, drv>>
      BY <1>9 DEF SendHead, ReadHead, HeadFails, Task, Ends, Goes, UnchangedServer
    <2>2. conn' = [conn EXCEPT ![x] = "closed"] \/ conn' = [conn EXCEPT ![x] = "connect"]
      BY <1>9 DEF SendHead, ReadHead, HeadFails, Task, Ends, Goes, UnchangedServer
    <2> QED BY <2>1, <2>2
  <1>10. ASSUME NEW x \in Conns, ProxyTask(x) PROVE ProxyInv'
    <2>1. runtime = "running" /\ UNCHANGED <<runtime, drv>>
      BY <1>10
         DEF ProxyTask, Accept, Connected, ConnectFails, ConnectTimeout, Forward,
             TransferTimeout, Task, Ends, Goes, UnchangedServer
    <2>2. \E to \in {"head", "transfer", "forward",
        "closed"} : conn' = [conn EXCEPT ![x] = to]
      BY <1>10
         DEF ProxyTask, Accept, Connected, ConnectFails, ConnectTimeout, Forward,
             TransferTimeout, Task, Ends, Goes, UnchangedServer
    <2> QED BY <2>1, <2>2
  <1>11. ASSUME NEW x \in Conns, Lookup(x) PROVE ProxyInv'
    BY <1>11 DEF Lookup, Resolved, UnchangedServer
  <1>12. ASSUME NEW x \in Conns, RemoteEnds(x) PROVE ProxyInv'
    BY <1>12 DEF RemoteEnds, TransferEnds, Task, Ends, Goes, UnchangedServer
  <1>13. CASE Kill \/ KillReturns \/ DropChild \/ DropPoll \/ Wait \/ Detach \/ Reap \/ Abandon
                \/ DropCgroup \/ CgroupDropped
    BY <1>2, <1>13
       DEF Kill, KillReturns, DropChild, DropPoll, Wait, Detach, Reap, Abandon, DropCgroup,
           CgroupDropped, Goto
  <1>14. CASE InKill \/ Processes \/ UNCHANGED teardownVars
    BY <1>3, <1>14 DEF InKill, Processes, teardownVars
  <1> QED
    BY <1>1, <1>4, <1>5, <1>6, <1>7, <1>8, <1>9, <1>10, <1>11, <1>12, <1>13, <1>14
       DEF Next, Owner

(* Nothing of the proxy outlives the drop of the handle: Drop for          *)
(* ProxiedNetwork closes the port, cuts every tunnel and waits for the     *)
(* lookups, whatever the sandbox, the remotes and the kill before it did.  *)
THEOREM ProxyEndsWithHandle == Spec => []TunnelsCut
  <1>1. ProxyInv => TunnelsCut
    BY DEF ProxyInv, TunnelsCut
  <1> QED BY <1>1, ProxyInitially, ProxyStep, PTL DEF Spec

-----------------------------------------------------------------------------
(* The kill                                                                *)

(* The first state                                                         *)
LEMMA KillInitially == Init => KillInv
  <1> SUFFICES ASSUME KillInit PROVE KillInv
    BY DEF Init
  <1> USE KillAssumption DEF KillInit
  <1>1. out \in Seq(Procs) /\ ToSet(out) = {}
    BY DEF ToSet
  <1>2. KillTypeOK
    <2>1. unread \in BOOLEAN
      BY Zenon
    <2> QED BY <1>1, <2>1 DEF KillTypeOK, KillPcs
  <1>3. RoundInv
    BY <1>1 DEF RoundInv, Found
  <1>4. WalkInv
    BY <1>1 DEF WalkInv, Found
  <1> QED BY <1>2, <1>3, <1>4 DEF KillInv, FreezeInv

(* What a process leaves behind when it ends, by itself or killed          *)
LEMMA GoneTypes ==
  ASSUME KillTypeOK, NEW p \in Procs, NEW strays \in SUBSET Procs, Gone(p, strays)
  PROVE  /\ st' \in [Procs -> {"unborn", "running", "killed", "dead"}]
         /\ parent' \in [Procs -> Procs \cup {Outside}]
         /\ side' \subseteq side /\ stray' \subseteq Procs
         /\ \A q \in Procs : st'[q] \in {st[q], "dead"}
         /\ {q \in stray : st'[q] = "running"} \subseteq stray'
  BY KillAssumption DEF Gone, KillTypeOK

(* SIGKILL changes running processes, and those only.                      *)
LEMMA SigkillTypes ==
  ASSUME KillTypeOK, NEW ps, Sigkill(ps)
  PROVE  /\ st' \in [Procs -> {"unborn", "running", "killed", "dead"}]
         /\ \A q \in Procs : st'[q] = "running" <=> st[q] = "running" /\ q \notin ps
         /\ \A q \in Procs : st'[q] = "unborn" <=> st[q] = "unborn"
  BY DEF Sigkill, KillTypeOK

(* Types are kept.                                                         *)
LEMMA KillTypeStep == KillInv /\ KillNext => KillTypeOK'
  <1> SUFFICES ASSUME KillInv, KillNext PROVE KillTypeOK'
    OBVIOUS
  <1> USE KillAssumption DEF killConfig, procVars, walkVars
  <1>0. KillTypeOK /\ RoundInv
    BY DEF KillInv
  <1>1. CASE StartKill
    <2>1. unread' \in BOOLEAN
      BY <1>1, Zenon DEF StartKill
    <2> QED BY <1>0, <1>1, <2>1 DEF KillTypeOK, KillPcs, StartKill
  <1>2. CASE StartWalk
    <2>1. out' \in Seq(Procs)
      BY <1>2 DEF StartWalk
    <2> QED BY <1>0, <1>2, <2>1 DEF KillTypeOK, KillPcs, StartWalk
  <1>3. ASSUME NEW p \in Procs, CollectNext(p) PROVE KillTypeOK'
    <2>1. out' \in Seq(Procs)
      BY <1>0, <1>3, ListSteps DEF CollectNext, KillTypeOK
    <2> QED BY <1>0, <1>3, <2>1 DEF KillTypeOK, KillPcs, CollectNext, Children
  <1>4. CASE CollectDone
    BY <1>0, <1>4 DEF KillTypeOK, KillPcs, CollectDone
  <1>5. CASE SignalNext
    <2>1. out' \in Seq(Procs)
      BY <1>0, <1>5, ListSteps DEF SignalNext, KillTypeOK
    <2>2. st' \in [Procs -> {"unborn", "running", "killed", "dead"}]
      BY <1>0, <1>5, SigkillTypes DEF SignalNext
    <2> QED BY <1>0, <1>5, <2>1, <2>2 DEF KillTypeOK, KillPcs, SignalNext
  <1>6. CASE SignalDone
    BY <1>0, <1>6 DEF KillTypeOK, KillPcs, SignalDone
  <1>7. CASE SignalRoot
    <2>2. st' \in [Procs -> {"unborn", "running", "killed", "dead"}]
      BY <1>0, <1>7, SigkillTypes DEF SignalRoot
    <2> QED BY <1>0, <1>7, <2>2 DEF KillTypeOK, KillPcs, SignalRoot
  <1>8. CASE WriteKillFile
    <2>2. st' \in [Procs -> {"unborn", "running", "killed", "dead"}]
      BY <1>0, <1>8, SigkillTypes DEF WriteKillFile, KillTypeOK
    <2> QED BY <1>0, <1>8, <2>2 DEF KillTypeOK, KillPcs, WriteKillFile
  <1>9. CASE Snapshot
    <2> DEFINE members == {p \in Procs : st[p] \in {"running", "killed"}}
    <2>1. SetToSeq(members) \in Seq(Procs)
      <3>1. IsFiniteSet(members) /\ members \subseteq Procs
        BY FS_Subset
      <3>2. SetToSeq(members) \in Seq(members)
        BY <3>1, ListsAll
      <3> QED BY <3>1, <3>2
    <2>2. out' \in Seq(Procs) /\ read' \subseteq Procs /\ stray' \subseteq Procs
      BY <1>0, <1>9, <2>1 DEF KillTypeOK, Snapshot, Thaw
    <2>3. unread' \in BOOLEAN
      BY <1>0, <1>9, Zenon DEF KillTypeOK, Snapshot, Thaw
    <2>4. round' \in 0..Rounds
      BY <1>0, <1>9 DEF KillTypeOK, Snapshot, Thaw
    <2>5. kpc' \in {"done", "signal"} /\ cgroup = "freeze"
      BY <1>0, <1>9 DEF KillTypeOK, Snapshot, Thaw
    <2> QED BY <1>0, <1>9, <2>2, <2>3, <2>4, <2>5 DEF KillTypeOK, KillPcs, Snapshot
  <1>10. ASSUME NEW p \in Procs, Exit(p) PROVE KillTypeOK'
    <2>1. PICK strays \in SUBSET Procs : Gone(p, strays)
      BY <1>10 DEF Exit, Children
    <2> QED BY <1>0, <1>10, <2>1, GoneTypes DEF KillTypeOK, KillPcs, Exit
  <1>11. ASSUME NEW p \in Procs, Die(p) PROVE KillTypeOK'
    <2>1. PICK strays \in SUBSET Procs : Gone(p, strays)
      BY <1>11 DEF Die
    <2> QED BY <1>0, <1>11, <2>1, GoneTypes DEF KillTypeOK, KillPcs, Die
  <1>12. ASSUME NEW p \in Procs, ThreadExit(p) PROVE KillTypeOK'
    BY <1>0, <1>12 DEF KillTypeOK, KillPcs, ThreadExit
  <1>13. ASSUME NEW p \in Procs, NEW c \in Procs, NEW thread \in BOOLEAN, Fork(p, c, thread)
         PROVE  KillTypeOK'
    BY <1>0, <1>13 DEF KillTypeOK, KillPcs, Fork
  <1>14. CASE Freezes
    BY <1>0, <1>14 DEF KillTypeOK, KillPcs, Freezes
  <1> QED
    BY <1>1, <1>2, <1>3, <1>4, <1>5, <1>6, <1>7, <1>8, <1>9, <1>10, <1>11, <1>12, <1>13,
       <1>14
       DEF KillNext, KillStep, ProcStep

(* Rounds begin and end with nothing left to signal.                       *)
LEMMA RoundStep == KillInv /\ KillNext => RoundInv'
  <1> SUFFICES ASSUME KillInv, KillNext PROVE RoundInv'
    OBVIOUS
  <1> USE KillAssumption DEF killConfig, procVars, walkVars, Found
  <1>0. KillTypeOK /\ RoundInv
    BY DEF KillInv
  <1>1. CASE StartKill
    BY <1>0, <1>1 DEF RoundInv, StartKill
  <1>2. CASE StartWalk
    <2>1. ToSet(out') = {}
      BY <1>2 DEF StartWalk, ToSet
    <2> QED BY <1>0, <1>2, <2>1 DEF RoundInv, StartWalk
  <1>3. ASSUME NEW p \in Procs, CollectNext(p) PROVE RoundInv'
    <2>1. ToSet(out') = ToSet(out) \cup {p}
      BY <1>0, <1>3, ListSteps DEF CollectNext, KillTypeOK
    <2>2. \A q \in stack' \cup read' : st[q] # "unborn"
      BY <1>0, <1>3 DEF RoundInv, CollectNext, Children
    <2> QED BY <1>0, <1>3, <2>1, <2>2 DEF RoundInv, CollectNext
  <1>4. CASE CollectDone
    BY <1>0, <1>4 DEF RoundInv, CollectDone
  <1>5. CASE SignalNext
    <2>1. ToSet(out') \subseteq ToSet(out)
      BY <1>0, <1>5, ListSteps DEF SignalNext, KillTypeOK
    <2>2. \A q \in Procs : st'[q] = "unborn" <=> st[q] = "unborn"
      BY <1>0, <1>5, SigkillTypes DEF SignalNext
    <2> QED BY <1>0, <1>5, <2>1, <2>2 DEF RoundInv, KillTypeOK, SignalNext
  <1>6. CASE SignalDone
    <2>1. ToSet(out) = {}
      BY <1>6 DEF SignalDone, ToSet
    <2> QED BY <1>0, <1>6, <2>1 DEF RoundInv, SignalDone
  <1>7. CASE SignalRoot
    <2>2. \A q \in Procs : st'[q] = "unborn" <=> st[q] = "unborn"
      BY <1>0, <1>7, SigkillTypes DEF SignalRoot
    <2> QED BY <1>0, <1>7, <2>2 DEF RoundInv, KillTypeOK, SignalRoot
  <1>8. CASE WriteKillFile
    <2>2. \A q \in Procs : st'[q] = "unborn" <=> st[q] = "unborn"
      BY <1>0, <1>8, SigkillTypes DEF WriteKillFile
    <2> QED BY <1>0, <1>8, <2>2 DEF RoundInv, KillTypeOK, WriteKillFile
  <1>9. CASE Snapshot
    <2> DEFINE members == {p \in Procs : st[p] \in {"running", "killed"}}
    <2>1. ToSet(SetToSeq(members)) = members
      BY FS_Subset, ListsAll
    <2>2. stack = {} /\ ToSet(out) = {}
      BY <1>0, <1>9 DEF RoundInv, Snapshot
    <2>3. ToSet(out') \subseteq read'
      BY <1>9, <2>1, <2>2 DEF Snapshot, Thaw
    <2>4. \A q \in read' : st[q] # "unborn"
      BY <1>0, <1>9 DEF RoundInv, Snapshot, Thaw
    <2>5. kpc' = "signal" \/ out' = out
      BY <1>9 DEF Snapshot, Thaw
    <2> QED BY <1>0, <1>9, <2>2, <2>3, <2>4, <2>5 DEF RoundInv, Snapshot
  <1>10. ASSUME NEW p \in Procs, Exit(p) PROVE RoundInv'
    <2>1. PICK strays \in SUBSET Procs : Gone(p, strays)
      BY <1>10 DEF Exit, Children
    <2>2. side' \subseteq side /\ \A q \in Procs : st[q] # "unborn" => st'[q] # "unborn"
      BY <1>0, <2>1, GoneTypes DEF KillTypeOK
    <2> QED BY <1>0, <1>10, <2>2 DEF RoundInv, KillTypeOK, Exit
  <1>11. ASSUME NEW p \in Procs, Die(p) PROVE RoundInv'
    <2>1. PICK strays \in SUBSET Procs : Gone(p, strays)
      BY <1>11 DEF Die
    <2>2. side' \subseteq side /\ \A q \in Procs : st[q] # "unborn" => st'[q] # "unborn"
      BY <1>0, <2>1, GoneTypes DEF KillTypeOK
    <2> QED BY <1>0, <1>11, <2>2 DEF RoundInv, KillTypeOK, Die
  <1>12. ASSUME NEW p \in Procs, ThreadExit(p) PROVE RoundInv'
    BY <1>0, <1>12 DEF RoundInv, ThreadExit
  <1>13. ASSUME NEW p \in Procs, NEW c \in Procs, NEW thread \in BOOLEAN, Fork(p, c, thread)
         PROVE  RoundInv'
    <2>1. \A q \in Procs : st[q] # "unborn" => st'[q] # "unborn"
      BY <1>0, <1>13 DEF KillTypeOK, Fork
    <2>2. Root \notin side'
      BY <1>0, <1>13 DEF RoundInv, Fork
    <2> QED BY <1>0, <1>13, <2>1, <2>2 DEF RoundInv, KillTypeOK, Fork
  <1>14. CASE Freezes
    BY <1>0, <1>14 DEF RoundInv, Freezes
  <1> QED
    BY <1>1, <1>2, <1>3, <1>4, <1>5, <1>6, <1>7, <1>8, <1>9, <1>10, <1>11, <1>12, <1>13,
       <1>14
       DEF KillNext, KillStep, ProcStep

(* A walk of kill_tree misses strays only, whatever forks and exits        *)
(* between its reads.                                                      *)
LEMMA WalkStep ==
  ASSUME KillInv, KillNext, cgroup = "none", ~pidns
  PROVE  WalkInv'
  <1> USE KillAssumption DEF killConfig, procVars, walkVars, Found
  <1>0. KillTypeOK /\ RoundInv /\ WalkInv
    BY DEF KillInv
  <1>1. CASE StartKill
    BY <1>0, <1>1 DEF RoundInv, WalkInv, StartKill
  <1>2. CASE StartWalk
    <2>1. ToSet(out') = {}
      BY <1>2 DEF StartWalk, ToSet
    <2> QED BY <1>0, <1>2, <2>1 DEF RoundInv, WalkInv, StartWalk
  <1>3. ASSUME NEW p \in Procs, CollectNext(p) PROVE WalkInv'
    <2>1. ToSet(out') = ToSet(out) \cup {p}
      BY <1>0, <1>3, ListSteps DEF CollectNext, KillTypeOK
    <2>2. Found' = Found \cup {p} \cup (Children(p) \ side)
      BY <1>3, <2>1 DEF CollectNext
    <2>3. side \subseteq stray' /\ side \cap stack' = {}
      BY <1>0, <1>3 DEF WalkInv, CollectNext
    <2>4. \A c \in Procs \ (Found' \cup stray') : st[c] = "running" => parent[c] \notin read'
      BY <1>0, <1>3, <2>2, <2>3 DEF WalkInv, CollectNext, Children
    <2>5. \A c \in Procs \ (Found' \cup stray') : c \notin Found \cup stray
      BY <1>3, <2>2 DEF CollectNext
    <2>6. UNCHANGED <<st, parent, side, kpc, round>> /\ kpc = "walk"
      BY <1>3 DEF CollectNext
    <2>7. \A c \in Procs \ (Found' \cup stray' \cup {Root}) :
            st[c] = "running" => parent[c] \in Procs /\ st[parent[c]] = "running"
      BY <1>0, <2>5 DEF WalkInv
    <2>8. Root \in read' \cup stack'
      BY <1>0, <1>3 DEF WalkInv, RoundInv, CollectNext
    <2> HIDE DEF Found
    <2> QED BY <2>3, <2>4, <2>6, <2>7, <2>8 DEF WalkInv
  <1>4. CASE CollectDone
    BY <1>0, <1>4 DEF WalkInv, CollectDone
  <1>5. CASE SignalNext
    <2>1. Head(out) \in Procs /\ ToSet(out) = ToSet(out') \cup {Head(out)}
      BY <1>0, <1>5, ListSteps DEF SignalNext, KillTypeOK
    <2>2. \A q \in Procs : st'[q] = "running" <=> st[q] = "running" /\ q # Head(out)
      BY <1>0, <1>5, SigkillTypes DEF SignalNext
    <2>3. Head(out) \in read
      BY <1>0, <2>1 DEF RoundInv
    <2>4. \A c \in Procs \ (Found' \cup stray) : st'[c] = "running" => c \notin Found
      BY <1>5, <2>1, <2>2 DEF SignalNext
    <2> QED BY <1>0, <1>5, <2>2, <2>3, <2>4 DEF WalkInv, SignalNext
  <1>6. CASE SignalDone
    BY <1>0, <1>6 DEF WalkInv, SignalDone
  <1>7. CASE SignalRoot
    <2>1. Root \in read /\ Found = {}
      BY <1>0, <1>7 DEF RoundInv, WalkInv, SignalRoot
    <2>2. \A q \in Procs : st'[q] = "running" <=> st[q] = "running" /\ q # Root
      BY <1>0, <1>7, SigkillTypes DEF SignalRoot
    <2> QED BY <1>0, <1>7, <2>1, <2>2 DEF WalkInv, SignalRoot
  <1>8. ~WriteKillFile /\ ~Snapshot
    BY <1>0 DEF KillTypeOK, KillPcs, WriteKillFile, Snapshot
  <1>10. ASSUME NEW p \in Procs, Exit(p) PROVE WalkInv'
    <2>1. Gone(p, Children(p)) /\ UNCHANGED walkVars
      BY <1>10 DEF Exit
    <2>2. \A c \in Procs : st'[c] = IF c = p THEN "dead" ELSE st[c]
      BY <2>1 DEF Gone
    <2>3. side' = side \ ({p} \cup Children(p)) /\ stray' = (stray \cup Children(p)) \ {p}
      BY <2>1 DEF Gone
    <2>4. \A c \in Procs \ stray' :
            st'[c] = "running" => parent'[c] = parent[c] /\ c \notin stray /\ parent[c] # p
      BY <2>1, <2>2, <2>3 DEF Gone, Children
    <2> QED BY <1>0, <2>1, <2>2, <2>3, <2>4 DEF WalkInv
  <1>11. ASSUME NEW p \in Procs, Die(p) PROVE WalkInv'
    <2>1. Gone(p, {}) /\ UNCHANGED walkVars /\ st[p] = "killed"
      BY <1>11 DEF Die
    <2>2. \A c \in Procs : st'[c] = IF c = p THEN "dead" ELSE st[c]
      BY <2>1 DEF Gone
    <2>3. side' = side \ ({p} \cup Children(p)) /\ stray' = stray \ {p}
      BY <2>1 DEF Gone
    <2>4. \A c \in Procs : st'[c] = "running" => parent'[c] \in {parent[c], Outside}
      BY <2>1, <2>2 DEF Gone
    <2>5. \A c \in Procs \ (Found \cup stray \cup {Root}) :
            st'[c] = "running" => parent'[c] = parent[c] /\ parent[c] # p
      BY <1>0, <2>1, <2>2 DEF WalkInv, Gone, Children
    <2>6. \A c \in Procs \ stray' : st'[c] = "running" => c \notin stray
      BY <2>2, <2>3
    <2>7. Outside \notin read
      BY <1>0 DEF KillTypeOK
    <2> QED BY <1>0, <2>1, <2>2, <2>3, <2>4, <2>5, <2>6, <2>7 DEF WalkInv
  <1>12. ASSUME NEW p \in Procs, ThreadExit(p) PROVE WalkInv'
    BY <1>0, <1>12 DEF WalkInv, ThreadExit
  <1>13. ASSUME NEW p \in Procs, NEW c \in Procs, NEW thread \in BOOLEAN, Fork(p, c, thread)
         PROVE  WalkInv'
    <2>1. c \notin stack /\ p \in Procs /\ st[p] = "running" /\ st[c] = "unborn"
      BY <1>0, <1>13 DEF RoundInv, Fork
    <2>2. /\ \A q \in Procs : st'[q] = IF q = c THEN "running" ELSE st[q]
          /\ \A q \in Procs : parent'[q] = IF q = c THEN p ELSE parent[q]
      BY <1>0, <1>13 DEF KillTypeOK, Fork
    <2>3. stray \subseteq stray' /\ (c \in stray' \/ (p \notin stray /\ p \notin read))
      BY <1>13 DEF Fork
    <2>4. side' \subseteq stray' /\ side' \cap stack = {}
      BY <1>0, <1>13, <2>1 DEF WalkInv, Fork
    <2>5. UNCHANGED walkVars
      BY <1>13 DEF Fork
    <2> QED BY <1>0, <2>1, <2>2, <2>3, <2>4, <2>5 DEF WalkInv
  <1>14. CASE Freezes
    BY <1>0, <1>14 DEF WalkInv, Freezes
  <1> QED
    BY <1>1, <1>2, <1>3, <1>4, <1>5, <1>6, <1>7, <1>8, <1>10, <1>11, <1>12, <1>13, <1>14
       DEF KillNext, KillStep, ProcStep

(* After a snapshot kill_all misses only what was forked since.            *)
LEMMA FreezeStep ==
  ASSUME KillInv, KillNext, cgroup = "freeze"
  PROVE  FreezeInv'
  <1> USE KillAssumption DEF killConfig, procVars, walkVars, Running
  <1>0. KillTypeOK /\ RoundInv /\ FreezeInv
    BY DEF KillInv
  <1>1. CASE StartKill
    BY <1>0, <1>1 DEF FreezeInv, StartKill
  <1>2. ~StartWalk /\ ~SignalRoot /\ ~CollectDone /\ \A p \in Procs : ~CollectNext(p)
    BY <1>0 DEF KillTypeOK, KillPcs, StartWalk, SignalRoot, CollectDone, CollectNext
  <1>5. CASE SignalNext
    <2>1. Head(out) \in Procs /\ ToSet(out) = ToSet(out') \cup {Head(out)}
      BY <1>0, <1>5, ListSteps DEF SignalNext, KillTypeOK
    <2>2. \A q \in Procs : st'[q] = "running" <=> st[q] = "running" /\ q # Head(out)
      BY <1>0, <1>5, SigkillTypes DEF SignalNext
    <2> QED BY <1>0, <1>5, <2>1, <2>2 DEF FreezeInv, SignalNext
  <1>6. CASE SignalDone
    <2>1. ToSet(out) = {}
      BY <1>6 DEF SignalDone, ToSet
    <2> QED BY <1>0, <1>6, <2>1 DEF FreezeInv, SignalDone
  <1>8. CASE WriteKillFile
    BY <1>0, <1>8 DEF FreezeInv, WriteKillFile
  <1>9. CASE Snapshot
    <2> DEFINE members == {p \in Procs : st[p] \in {"running", "killed"}}
    <2>1. ToSet(SetToSeq(members)) = members
      BY FS_Subset, ListsAll
    <2>2. CASE kpc' = "signal"
      <3>1. round # 0 /\ round' = round - 1 /\ out' = SetToSeq(members) /\ UNCHANGED st
        BY <1>9, <2>2 DEF Snapshot, Thaw
      <3>2. round' < Rounds
        BY <1>0, <3>1 DEF KillTypeOK
      <3> QED BY <2>1, <2>2, <3>1, <3>2 DEF FreezeInv
    <2>3. CASE kpc' = "done" /\ unread'
      BY <2>3 DEF FreezeInv
    <2>4. CASE round = 0 /\ Thaw(unread)
      <3>1. unread \/ Running \subseteq stray
        BY <1>0, <1>9, <2>4 DEF FreezeInv, Snapshot
      <3>2. kpc' = "done" /\ (unread' <=> unread) /\ UNCHANGED <<st, stray>>
        BY <1>9, <2>4 DEF Snapshot, Thaw
      <3> QED BY <3>1, <3>2 DEF FreezeInv
    <2>5. CASE members = {} /\ Thaw(unread)
      <3>1. kpc' = "done" /\ UNCHANGED <<st, stray>>
        BY <1>9, <2>5 DEF Snapshot, Thaw
      <3> QED BY <2>5, <3>1 DEF FreezeInv
    <2> QED BY <1>9, <2>2, <2>3, <2>4, <2>5 DEF Snapshot, Thaw
  <1>10. ASSUME NEW p \in Procs, Exit(p) \/ Die(p) PROVE FreezeInv'
    <2>1. PICK strays \in SUBSET Procs : Gone(p, strays)
      BY <1>10 DEF Exit, Die, Children
    <2>2. /\ \A q \in Procs : st'[q] = "running" => st[q] = "running"
          /\ {q \in stray : st'[q] = "running"} \subseteq stray'
      BY <1>0, <2>1, GoneTypes DEF KillTypeOK
    <2>3. UNCHANGED <<walkVars, unread>>
      BY <1>10 DEF Exit, Die
    <2> QED BY <1>0, <2>2, <2>3 DEF FreezeInv
  <1>12. ASSUME NEW p \in Procs, ThreadExit(p) PROVE FreezeInv'
    BY <1>0, <1>12 DEF FreezeInv, ThreadExit
  <1>13. ASSUME NEW p \in Procs, NEW c \in Procs, NEW thread \in BOOLEAN, Fork(p, c, thread)
         PROVE  FreezeInv'
    <2>1. p \in Running /\ Running' \subseteq Running \cup {c}
      BY <1>0, <1>13 DEF KillTypeOK, Fork
    <2>2. stray \subseteq stray' /\ (p \in stray \cup read => c \in stray')
      BY <1>13 DEF Fork
    <2>3. ToSet(out) \subseteq read
      BY <1>0 DEF RoundInv
    <2>4. UNCHANGED <<walkVars, unread>>
      BY <1>13 DEF Fork
    <2> HIDE DEF Running
    <2> QED BY <1>0, <2>1, <2>2, <2>3, <2>4 DEF FreezeInv
  <1>14. CASE Freezes
    BY <1>0, <1>14 DEF FreezeInv, Freezes
  <1> QED
    BY <1>1, <1>2, <1>5, <1>6, <1>8, <1>9, <1>10, <1>12, <1>13, <1>14
       DEF KillNext, KillStep, ProcStep

(* A root that was signalled does not run again.                           *)
LEMMA RootStep ==
  ASSUME KillInv, KillNext, cgroup = "none", kpc' = "done"
  PROVE  st'[Root] # "running"
  <1> USE KillAssumption DEF killConfig, procVars, walkVars
  <1>0. KillTypeOK /\ RoundInv /\ (kpc = "done" => st[Root] # "running")
    BY DEF KillInv
  <1>1. CASE SignalRoot
    BY <1>0, <1>1, SigkillTypes DEF SignalRoot
  <1>2. (~StartKill /\ ~KillStep) \/ SignalRoot
    BY <1>0
       DEF KillTypeOK, KillPcs, StartKill, KillStep, StartWalk, CollectNext, CollectDone,
           SignalNext, SignalDone, WriteKillFile, Snapshot
  <1>3. ASSUME NEW p \in Procs, Exit(p) \/ Die(p) PROVE st'[Root] # "running"
    <2>1. PICK strays \in SUBSET Procs : Gone(p, strays)
      BY <1>3 DEF Exit, Die, Children
    <2>2. st'[Root] \in {st[Root], "dead"}
      BY <1>0, <2>1, GoneTypes
    <2> QED BY <1>0, <1>3, <2>2 DEF Exit, Die
  <1>4. ASSUME NEW p \in Procs, NEW c \in Procs, NEW thread \in BOOLEAN, Fork(p, c, thread)
        PROVE  st'[Root] # "running"
    BY <1>0, <1>4 DEF RoundInv, KillTypeOK, Fork
  <1>5. ASSUME Freezes \/ \E p \in Procs : ThreadExit(p) PROVE st'[Root] # "running"
    BY <1>0, <1>5 DEF Freezes, ThreadExit
  <1> QED BY <1>1, <1>2, <1>3, <1>4, <1>5 DEF KillNext, ProcStep

(* After cgroup.kill nothing of the sandbox runs, so nothing is forked.    *)
LEMMA KillFileStep ==
  ASSUME KillInv, KillNext, cgroup = "kill", kpc' = "done"
  PROVE  Running' = {}
  <1> USE KillAssumption DEF killConfig, procVars, walkVars, Running
  <1>0. KillTypeOK /\ (kpc = "done" => Running = {})
    BY DEF KillInv
  <1>1. CASE WriteKillFile
    <2>1. Sigkill(Procs)
      BY <1>1 DEF WriteKillFile
    <2> QED BY <1>0, <2>1, SigkillTypes
  <1>2. (~StartKill /\ ~KillStep) \/ WriteKillFile
    BY <1>0
       DEF KillTypeOK, KillPcs, StartKill, KillStep, StartWalk, CollectNext, CollectDone,
           SignalNext, SignalDone, SignalRoot, Snapshot
  <1>3. ASSUME NEW p \in Procs, Exit(p) \/ Die(p) PROVE Running' = {}
    <2>1. PICK strays \in SUBSET Procs : Gone(p, strays)
      BY <1>3 DEF Exit, Die, Children
    <2>2. \A q \in Procs : st'[q] \in {st[q], "dead"}
      BY <1>0, <2>1, GoneTypes
    <2> QED BY <1>0, <1>3, <2>2 DEF Exit, Die
  <1>4. ASSUME NEW p \in Procs, NEW c \in Procs, NEW thread \in BOOLEAN
        PROVE  ~Fork(p, c, thread)
    BY <1>0 DEF Fork
  <1>5. ASSUME Freezes \/ \E p \in Procs : ThreadExit(p) PROVE Running' = {}
    BY <1>0, <1>5 DEF Freezes, ThreadExit
  <1> QED BY <1>1, <1>2, <1>3, <1>4, <1>5 DEF KillNext, ProcStep

(* A child of another thread enters no walk, and joins none that is going  *)
(* on when it is forked.                                                   *)
LEMMA ThreadStep ==
  ASSUME KillInv, ThreadInv, KillNext, cgroup = "none"
  PROVE  side' \cap Found' = {} /\ \A c \in side' : st'[c] # "killed"
  <1> USE KillAssumption DEF killConfig, procVars, walkVars, Found
  <1>0. /\ KillTypeOK /\ RoundInv
        /\ side \cap (stack \cup ToSet(out)) = {} /\ \A c \in side : st[c] # "killed"
    BY DEF KillInv, ThreadInv
  <1>1. CASE StartKill \/ CollectDone \/ SignalDone \/ Freezes
    BY <1>0, <1>1 DEF StartKill, CollectDone, SignalDone, Freezes
  <1>2. CASE StartWalk
    <2>1. ToSet(out') = {}
      BY <1>2 DEF StartWalk, ToSet
    <2> QED BY <1>0, <1>2, <2>1 DEF RoundInv, StartWalk
  <1>3. ASSUME NEW p \in Procs, CollectNext(p)
        PROVE  side' \cap Found' = {} /\ \A c \in side' : st'[c] # "killed"
    <2>1. ToSet(out') = ToSet(out) \cup {p}
      BY <1>0, <1>3, ListSteps DEF CollectNext, KillTypeOK
    <2> QED BY <1>0, <1>3, <2>1 DEF CollectNext
  <1>4. CASE SignalNext
    <2>1. Head(out) \in ToSet(out) /\ ToSet(out') \subseteq ToSet(out)
      BY <1>0, <1>4, ListSteps DEF SignalNext, KillTypeOK
    <2>2. \A q \in Procs : q # Head(out) => st'[q] = st[q]
      BY <1>4 DEF SignalNext, Sigkill, KillTypeOK, KillInv
    <2> QED BY <1>0, <1>4, <2>1, <2>2 DEF SignalNext, KillTypeOK
  <1>5. CASE SignalRoot
    <2>1. \A q \in Procs : q # Root => st'[q] = st[q]
      BY <1>5 DEF SignalRoot, Sigkill, KillTypeOK, KillInv
    <2> QED BY <1>0, <1>5, <2>1 DEF SignalRoot, RoundInv, KillTypeOK
  <1>6. ASSUME NEW p \in Procs, Exit(p) \/ Die(p)
        PROVE  side' \cap Found' = {} /\ \A c \in side' : st'[c] # "killed"
    <2>1. PICK strays \in SUBSET Procs : Gone(p, strays)
      BY <1>6 DEF Exit, Die, Children
    <2>2. side' \subseteq side /\ \A q \in Procs : st'[q] \in {st[q], "dead"}
      BY <1>0, <2>1, GoneTypes
    <2> QED BY <1>0, <1>6, <2>2 DEF KillTypeOK, Exit, Die
  <1>7. ASSUME NEW p \in Procs, ThreadExit(p)
        PROVE  side' \cap Found' = {} /\ \A c \in side' : st'[c] # "killed"
    BY <1>0, <1>7 DEF ThreadExit
  <1>8. ASSUME NEW p \in Procs, NEW c \in Procs, NEW thread \in BOOLEAN, Fork(p, c, thread)
        PROVE  side' \cap Found' = {} /\ \A d \in side' : st'[d] # "killed"
    <2>1. c \notin stack \cup ToSet(out)
      BY <1>0, <1>8 DEF RoundInv, Fork
    <2>2. st'[c] = "running" /\ \A q \in Procs : q # c => st'[q] = st[q]
      BY <1>0, <1>8 DEF KillTypeOK, Fork
    <2>3. side' \subseteq side \cup {c}
      BY <1>8 DEF Fork
    <2> QED BY <1>0, <1>8, <2>1, <2>2, <2>3 DEF KillTypeOK, Fork
  <1>9. ~WriteKillFile /\ ~Snapshot
    BY <1>0 DEF KillTypeOK, KillPcs, WriteKillFile, Snapshot
  <1> QED
    BY <1>1, <1>2, <1>3, <1>4, <1>5, <1>6, <1>7, <1>8, <1>9 DEF KillNext, KillStep, ProcStep

(* The steps of the owner, of the proxy and of its clients are no steps of *)
(* the kill, or begin one, or are one.                                     *)
LEMMA KillSide == [Next]_teardownVars => KillNext \/ UNCHANGED killVars
  <1> SUFFICES ASSUME [Next]_teardownVars PROVE KillNext \/ UNCHANGED killVars
    OBVIOUS
  <1>1. CASE Kill \/ DropChild \/ DropCgroup
    BY <1>1 DEF Kill, DropChild, DropCgroup, KillNext
  <1>2. CASE InKill \/ Processes
    BY <1>2 DEF InKill, Processes, KillNext
  <1>3. CASE UNCHANGED teardownVars
    BY <1>3 DEF teardownVars
  <1>4. CASE Setup \/ KillReturns \/ DropPoll \/ Wait \/ Detach \/ Reap \/ Abandon
               \/ CgroupDropped \/ DropProxy \/ DropRuntime
    BY <1>4
       DEF Setup, KillReturns, DropPoll, Wait, Detach, Reap, Abandon, CgroupDropped,
           DropProxy, DropRuntime
  <1>5. CASE ProxyServer \/ OtherTakesPort
               \/ \E x \in Conns : Connect(x) \/ SendHead(x) \/ ProxyTask(x) \/ Lookup(x)
                                     \/ RemoteEnds(x)
    BY <1>5
       DEF ProxyServer, OtherTakesPort, Connect, SendHead, ProxyTask, Lookup, RemoteEnds
  <1> QED BY <1>1, <1>2, <1>3, <1>4, <1>5 DEF Next, Owner

(* The invariant of the kill is inductive.                                 *)
LEMMA KillInvStep == KillInv /\ [Next]_teardownVars => KillInv'
  <1> SUFFICES ASSUME KillInv, [Next]_teardownVars PROVE KillInv'
    OBVIOUS
  <1>1. CASE UNCHANGED killVars
    <2>1. UNCHANGED <<cgroup, pidns, st, parent, side, stray, kpc, round, stack, out, read,
        unread>>
      BY <1>1 DEF killVars, killConfig, procVars, walkVars
    <2> QED BY <2>1
               DEF KillInv, KillTypeOK, KillPcs, RoundInv, WalkInv, FreezeInv, Found,
                   Running
  <1>2. CASE KillNext
    <2>1. UNCHANGED <<cgroup, pidns>>
      BY <1>2
         DEF killConfig, KillNext, StartKill, KillStep, ProcStep, StartWalk, CollectNext,
             CollectDone, SignalNext, SignalDone, SignalRoot, WriteKillFile, Snapshot, Exit,
             Die, ThreadExit, Fork, Freezes
    <2>2. KillTypeOK' /\ RoundInv'
      BY <1>2, KillTypeStep, RoundStep
    <2>3. cgroup = "none" /\ ~pidns => WalkInv'
      BY <1>2, WalkStep
    <2>4. cgroup = "freeze" => FreezeInv'
      BY <1>2, FreezeStep
    <2>5. cgroup = "none" /\ kpc' = "done" => st'[Root] # "running"
      BY <1>2, RootStep
    <2>6. cgroup = "kill" /\ kpc' = "done" => Running' = {}
      BY <1>2, KillFileStep
    <2> QED BY <2>1, <2>2, <2>3, <2>4, <2>5, <2>6 DEF KillInv
  <1> QED BY <1>1, <1>2, KillSide

(* What a walk signals, at every step of the sandbox and of its owner      *)
LEMMA ThreadInvStep == KillInv /\ ThreadInv /\ [Next]_teardownVars => ThreadInv'
  <1> SUFFICES ASSUME KillInv, ThreadInv, [Next]_teardownVars PROVE ThreadInv'
    OBVIOUS
  <1>1. CASE UNCHANGED killVars
    BY <1>1 DEF killVars, killConfig, procVars, walkVars, ThreadInv, Found
  <1>2. CASE KillNext
    <2>1. UNCHANGED cgroup
      BY <1>2
         DEF killConfig, KillNext, StartKill, KillStep, ProcStep, StartWalk, CollectNext,
             CollectDone, SignalNext, SignalDone, SignalRoot, WriteKillFile, Snapshot, Exit,
             Die, ThreadExit, Fork, Freezes
    <2>2. cgroup = "none" => side' \cap Found' = {} /\ \A c \in side' : st'[c] # "killed"
      BY <1>2, ThreadStep
    <2> QED BY <2>1, <2>2 DEF ThreadInv
  <1> QED BY <1>1, <1>2, KillSide

(* Child::kill, for any number of processes and rounds: who survives it    *)
(* with no SIGKILL pending is an orphan or was forked behind the walk or   *)
(* the snapshot, as process/kill.rs and kill_all say, or is below such a   *)
(* one, or cgroup.procs could not be read; or it is the child of another   *)
(* thread than the main one, which kill.rs claims to reach and the walk    *)
(* never signals.  With cgroup.kill nobody survives.                       *)
THEOREM KillMissesStraysOnly == Spec => []EscapeHasCause
  <1>0. Init => ThreadInv
    BY DEF Init, KillInit, ThreadInv
  <1>1. ThreadInv => OtherThreadsMissed
    BY DEF ThreadInv, OtherThreadsMissed
  <1>2. KillInv /\ ThreadInv => EscapeHasCause
    <2> SUFFICES ASSUME KillInv, ThreadInv, kpc = "done", NEW c \in Procs, Survives(c)
                 PROVE  CASE cgroup = "none" ->
                               c \in stray \/ (parent[c] \in Procs /\ Survives(parent[c]))
                          [] cgroup = "freeze" -> c \in stray \/ unread
                          [] cgroup = "kill" -> FALSE
      BY <1>1 DEF EscapeHasCause
    <2>0. st[c] = "running" /\ ~(pidns /\ st[Root] # "running")
      BY DEF Survives
    <2>1. ASSUME cgroup = "none"
          PROVE c \in stray \/ (parent[c] \in Procs /\ Survives(parent[c]))
      <3>1. st[Root] # "running" /\ ~pidns /\ WalkInv /\ Found = {}
        BY <2>0, <2>1 DEF KillInv, RoundInv
      <3> QED BY <2>0, <3>1 DEF WalkInv, Survives
    <2>2. ASSUME cgroup = "freeze" PROVE c \in stray \/ unread
      BY <2>0, <2>2 DEF KillInv, FreezeInv, Running
    <2>3. cgroup # "kill"
      BY <2>0 DEF KillInv, Running
    <2>4. cgroup \in {"none", "kill", "freeze"}
      BY DEF KillInv, KillTypeOK
    <2>5. CASE cgroup = "none"
      BY <2>1, <2>5
    <2>6. CASE cgroup = "freeze"
      BY <2>2, <2>6
    <2> QED BY <2>3, <2>4, <2>5, <2>6
  <1> QED BY <1>0, <1>2, KillInitially, KillInvStep, ThreadInvStep, PTL DEF Spec
=============================================================================
