---------------------------- MODULE ChildTeardown ----------------------------
(***************************************************************************)
(* A proxied sandbox from ProxiedNetwork::setup to the end of its handle   *)
(* (process/child.rs): Child::kill, wait, detach and drop, and reap and    *)
(* drop of a DetachedChild, with the kill of KillTree and the proxy of     *)
(* ProxyNetwork.  One process of the sandbox talks to the proxy.           *)
(***************************************************************************)
EXTENDS KillTree, ProxyNetwork

CONSTANT Client  \* the process that opens the connections

ASSUME ClientAssumption == Client \in Procs

VARIABLE drv     \* what the owner of the handle is doing

teardownVars == <<killVars, proxyVars, drv>>

Init == KillInit /\ ProxyInit /\ drv = "Spawning"

(* setup of the proxy, then the child; an error of it is the error of spawn*)
Setup ==
  /\ drv = "Spawning"
  /\ FindFreePort \/ BuildRuntime \/ SetupReturns
  /\ drv' = CASE setup' = "Ready" -> "Held" [] setup' = "Failed" -> "Refused" [] OTHER -> drv
  /\ UNCHANGED killVars

Alive == drv \notin {"Spawning", "Refused"}

ClientRuns == Alive /\ st[Client] = "running"

(* A connection to whoever listens on the port of HTTP_PROXY               *)
Connect(x) ==
  /\ ClientRuns /\ conn[x] = "none" /\ port # "nobody"
  /\ conn' = [conn EXCEPT ![x] = IF port = "proxy" THEN "queued" ELSE "elsewhere"]
  /\ UNCHANGED <<setup, port, shutdown, runtime, server, request, resolving>>
  /\ UNCHANGED <<killVars, drv>>

(* The client sends a head, or has died.                                   *)
SendHead(x) ==
  /\ \/ ClientRuns /\ \E r \in Requests : ReadHead(x, r)
     \/ ~ClientRuns /\ ReadHead(x, [NoRequest EXCEPT !.method = "GET"])
     \/ HeadFails(x)
  /\ UNCHANGED <<killVars, drv>>

(* What the proxy does by itself                                           *)
ProxyTask(x) ==
  /\ \/ Accept(x) \/ Connected(x) \/ ConnectFails(x) \/ ConnectTimeout(x)
     \/ Forward(x) \/ TransferTimeout(x)
  /\ UNCHANGED <<killVars, drv>>

ProxyServer == (Bind \/ ServerStops) /\ UNCHANGED <<killVars, drv>>

Lookup(x) == Resolved(x) /\ UNCHANGED <<killVars, drv>>

RemoteEnds(x) == TransferEnds(x) /\ UNCHANGED <<killVars, drv>>

OtherTakesPort == OtherBinds /\ UNCHANGED <<killVars, drv>>

Processes == Alive /\ ProcStep /\ UNCHANGED <<proxyVars, drv>>

-----------------------------------------------------------------------------
(* The owner of the handle                                                 *)

Goto(from, to) == drv = from /\ drv' = to /\ UNCHANGED proxyVars

Kill == Goto("Held", "Kill") /\ StartKill

KillReturns == Goto("Kill", "Held") /\ kpc = "done" /\ UNCHANGED killVars

DropChild == Goto("Held", "DropKill") /\ StartKill

InKill == drv \in {"Kill", "DropKill", "Cleanup"} /\ KillStep /\ UNCHANGED <<proxyVars, drv>>

(* Mutant: Drop waits until the root is dead.                              *)
DropPollBlocks ==
  Goto("DropKill", "Fields") /\ kpc = "done" /\ st[Root] = "dead" /\ UNCHANGED killVars

(* Drop polls for the root, 100 times 10 ms, then goes on.                 *)
DropPoll == Goto("DropKill", "Fields") /\ kpc = "done" /\ UNCHANGED killVars

(* wait and reap return when the root is dead; detach takes the fields.    *)
Wait == Goto("Held", "Fields") /\ st[Root] = "dead" /\ UNCHANGED killVars

Detach == Goto("Held", "Detached") /\ UNCHANGED killVars

Reap == Goto("Detached", "Fields") /\ st[Root] = "dead" /\ UNCHANGED killVars

(* Drop of a DetachedChild forgets the cgroup and the proxy.               *)
Abandon == Goto("Detached", "Abandoned") /\ UNCHANGED killVars

(* The fields in their order: the cgroup, which kills and drains, then the *)
(* proxy                                                                   *)
DropCgroup ==
  /\ cgroup # "none" /\ Goto("Fields", "Cleanup") /\ StartKill

CgroupDropped ==
  \/ cgroup = "none" /\ Goto("Fields", "Proxy") /\ UNCHANGED killVars
  \/ Goto("Cleanup", "Proxy") /\ kpc = "done" /\ UNCHANGED killVars

(* Mutant: the field drop of the runtime is lost, as with a clone of the   *)
(* Arc in a task.                                                          *)
ShutdownOnly ==
  /\ drv = "Proxy" /\ Shutdown /\ drv' = "Dropped" /\ UNCHANGED killVars

DropProxy ==
  /\ drv = "Proxy" /\ Shutdown /\ drv' = "Runtime" /\ UNCHANGED killVars

DropRuntime ==
  /\ drv = "Runtime"
  /\ \/ runtime = "running" /\ CancelTasks /\ UNCHANGED drv
     \/ JoinRuntime /\ drv' = "Dropped"
  /\ UNCHANGED killVars

Owner ==
  \/ Setup \/ Kill \/ KillReturns \/ DropChild \/ DropPoll \/ Wait \/ Detach \/ Reap
  \/ Abandon \/ DropCgroup \/ CgroupDropped \/ DropProxy \/ DropRuntime \/ InKill

(* A call that the owner has made, and that returns by itself              *)
Proceeds ==
  Setup \/ KillReturns \/ DropPoll \/ DropCgroup \/ CgroupDropped \/ DropProxy
    \/ DropRuntime \/ InKill

Next ==
  \/ Owner \/ Processes \/ ProxyServer \/ OtherTakesPort
  \/ \E x \in Conns :
       Connect(x) \/ SendHead(x) \/ ProxyTask(x) \/ Lookup(x) \/ RemoteEnds(x)

(* Threads and tasks that can run do, timers expire and getaddrinfo        *)
(* returns.  Nothing is assumed of the sandbox, of remotes, of the         *)
(* owner's decisions, nor of a write that a remote holds up.               *)
Fairness ==
  /\ WF_teardownVars(Proceeds) /\ WF_teardownVars(ProxyServer)
  /\ \A x \in Conns :
       /\ WF_teardownVars(~HeldByRemote(x) /\ ProxyTask(x))
       /\ WF_teardownVars(Lookup(x))

Spec == Init /\ [][Next]_teardownVars /\ Fairness

-----------------------------------------------------------------------------

(* Once the drop of the handle has returned nothing of the proxy is left:  *)
(* no task relays for a process that escaped the kill, the port is given   *)
(* back, and no lookup runs (Drop for Child and for ProxiedNetwork).       *)
TunnelsCut ==
  drv = "Dropped" =>
    /\ port # "proxy" /\ server = "ended" /\ resolving = {}
    /\ \A x \in Conns : conn[x] \in {"none", "elsewhere", "closed"}

(* A drop that has begun returns: its rounds, polls and joins are bounded, *)
(* whatever the processes of the sandbox and the remotes do (Drop for      *)
(* Child, kill_all, reap).                                                 *)
DropReturns == []<>(drv \notin {"DropKill", "Fields", "Cleanup", "Proxy", "Runtime"})
=============================================================================
