----------------------------- MODULE ProxyNetwork -----------------------------
(***************************************************************************)
(* ProxiedNetwork (network/manager.rs) and the tasks of its HttpProxy      *)
(* (network/proxy.rs): the accept loop and one task per connection, on a   *)
(* tokio runtime that the handle owns.  A host name is resolved by a       *)
(* blocking job of the runtime, which outlives the task that asked for it. *)
(***************************************************************************)
EXTENDS Naturals

CONSTANTS
  Conns,      \* connections the sandbox may open
  Requests,   \* heads it may send: method, wellFormed, host, long
  Allowed,    \* allowed_domains: [wildcard, name]
  EndsWith    \* pairs of names, the second a suffix of the first

ASSUME ProxyAssumption ==
  /\ \A r \in Requests :
       r.method \in {"CONNECT", "GET"} /\ r.wellFormed \in BOOLEAN /\ r.long \in BOOLEAN
  /\ \A a \in Allowed : a.wildcard \in BOOLEAN

VARIABLES
  setup,      \* step of ProxiedNetwork::setup, "Ready" or "Failed" once it returned
  port,       \* who listens on proxy_port: "nobody", "proxy" or "other"
  shutdown,   \* the value of the watch channel
  runtime,    \* "none", "running", "stopping" (its tasks are cancelled) or "gone"
  server,     \* the accept loop: "none", "starting", "serving" or "ended"
  conn,       \* where each connection's task is
  request,    \* the head it read
  resolving   \* connections whose name is being resolved

proxyVars == <<setup, port, shutdown, runtime, server, conn, request, resolving>>

NoRequest == [method |-> "", wellFormed |-> FALSE, host |-> "", long |-> FALSE]

ProxyInit ==
  /\ setup = "FindPort" /\ port = "nobody" /\ shutdown = FALSE
  /\ runtime = "none" /\ server = "none"
  /\ conn = [x \in Conns |-> "none"] /\ request = [x \in Conns |-> NoRequest]
  /\ resolving = {}

-----------------------------------------------------------------------------
(* ProxiedNetwork::setup                                                   *)

(* find_free_port closes the listener it found the port with; bind and     *)
(* local_addr may fail.                                                    *)
FindFreePort ==
  /\ setup = "FindPort"
  /\ setup' \in {"Runtime", "Failed"}
  /\ UNCHANGED <<port, shutdown, runtime, server, conn, request, resolving>>

BuildRuntime ==
  /\ setup = "Runtime"
  /\ \/ setup' = "Sleep" /\ runtime' = "running" /\ server' = "starting"
     \/ setup' = "Failed" /\ UNCHANGED <<runtime, server>>
  /\ UNCHANGED <<port, shutdown, conn, request, resolving>>

(* The 50 ms are over, whether or not the accept loop has its listener.    *)
SetupReturns ==
  /\ setup = "Sleep" /\ setup' = "Ready"
  /\ UNCHANGED <<port, shutdown, runtime, server, conn, request, resolving>>

(* Another process takes the port before the accept loop does.  (After the *)
(* loop has ended the port is of no interest.)                             *)
OtherBinds ==
  /\ setup = "Runtime" \/ server = "starting"
  /\ port = "nobody"
  /\ port' = "other"
  /\ UNCHANGED <<setup, shutdown, runtime, server, conn, request, resolving>>

-----------------------------------------------------------------------------
(* HttpProxy::run                                                          *)

(* The error of a bind that comes too late is logged and goes nowhere else.*)
Bind ==
  /\ runtime = "running" /\ server = "starting"
  /\ IF port = "nobody" THEN port' = "proxy" /\ server' = "serving"
                        ELSE server' = "ended" /\ UNCHANGED port
  /\ UNCHANGED <<setup, shutdown, runtime, conn, request, resolving>>

Accept(x) ==
  /\ runtime = "running" /\ server = "serving" /\ conn[x] = "queued"
  /\ conn' = [conn EXCEPT ![x] = "head"]
  /\ UNCHANGED <<setup, port, shutdown, runtime, server, request, resolving>>

(* The listener is closed, and with it what it has not accepted; the tasks *)
(* of accepted connections go on.                                          *)
ServerStops ==
  /\ runtime = "running" /\ server = "serving" /\ shutdown
  /\ server' = "ended" /\ port' = "nobody"
  /\ conn' = [x \in Conns |-> IF conn[x] = "queued" THEN "closed" ELSE conn[x]]
  /\ UNCHANGED <<setup, shutdown, runtime, request, resolving>>

-----------------------------------------------------------------------------
(* handle_connection, handle_connect and handle_http                       *)

(* is_allowed; a wildcard is stripped of "*." and compared as a suffix.    *)
is_allowed(host) ==
  \E a \in Allowed : IF a.wildcard THEN a.name = host \/ <<host, a.name>> \in EndsWith
                     ELSE a.name = host

UnchangedServer == UNCHANGED <<setup, port, shutdown, runtime, server>>

Task(x, at) == runtime = "running" /\ conn[x] = at

Goes(x, to) ==
  /\ conn' = [conn EXCEPT ![x] = to]
  /\ UnchangedServer

(* The task ends, with or without a status line, and closes both streams.  *)
Ends(x) ==
  /\ Goes(x, "closed") /\ request' = [request EXCEPT ![x] = NoRequest]
  /\ UNCHANGED resolving

(* The request head is complete, or the client has closed: an empty head is*)
(* a malformed GET.  Without a host it is 400, with one that is not listed *)
(* 403.                                                                    *)
ReadHead(x, r) ==
  /\ Task(x, "head")
  /\ \/ /\ ~r.wellFormed \/ ~is_allowed(r.host)
        /\ Ends(x)
     \/ /\ r.wellFormed /\ is_allowed(r.host)
        /\ Goes(x, "connect") /\ request' = [request EXCEPT ![x] = r]
        /\ resolving' = resolving \cup {x}

HeadFails(x) == Task(x, "head") /\ Ends(x)

(* getaddrinfo returns, to a task that may be gone by now.                 *)
Resolved(x) ==
  /\ x \in resolving /\ resolving' = resolving \ {x}
  /\ UnchangedServer /\ UNCHANGED <<conn, request>>

(* A tunnel is open after the 200; the head of an HTTP request has to be   *)
(* forwarded first.                                                        *)
Connected(x) ==
  /\ Task(x, "connect") /\ x \notin resolving
  /\ Goes(x, IF request[x].method = "CONNECT" THEN "transfer" ELSE "forward")
  /\ UNCHANGED <<request, resolving>>

(* 502, or the 200 cannot be written                                       *)
ConnectFails(x) == Task(x, "connect") /\ x \notin resolving /\ Ends(x)

(* CONNECT_TIMEOUT, for the lookup and the connection together: 504        *)
ConnectTimeout(x) == Task(x, "connect") /\ Ends(x)

Forward(x) ==
  /\ Task(x, "forward")
  /\ \/ Goes(x, "transfer") /\ UNCHANGED <<request, resolving>>
     \/ Ends(x)

(* The remote closes, or the client of a tunnel does, or a copy fails.     *)
TransferEnds(x) == Task(x, "transfer") /\ Ends(x)

(* Mutant: only a tunnel's transfer is timed.                              *)
TunnelTimeout(x) == Task(x, "transfer") /\ request[x].method = "CONNECT" /\ Ends(x)

(* TRANSFER_TIMEOUT, from the start of the transfer                        *)
TransferTimeout(x) == Task(x, "transfer") /\ Ends(x)

-----------------------------------------------------------------------------
(* Drop of a ProxiedNetwork                                                *)

Shutdown ==
  /\ shutdown' = TRUE
  /\ UNCHANGED <<setup, port, runtime, server, conn, request, resolving>>

Cancelled(x) == conn[x] \notin {"none", "elsewhere"}

(* The last reference to the runtime goes: every task is cancelled at its  *)
(* next await, the listener and the connections are closed.                *)
CancelTasks ==
  /\ runtime' = "stopping" /\ server' = "ended"
  /\ port' = IF port = "proxy" THEN "nobody" ELSE port
  /\ conn' = [x \in Conns |-> IF Cancelled(x) THEN "closed" ELSE conn[x]]
  /\ request' = [x \in Conns |-> NoRequest]
  /\ UNCHANGED <<setup, shutdown, resolving>>

(* The drop waits for the blocking jobs that have started.                 *)
JoinRuntime ==
  /\ runtime = "stopping" /\ resolving = {}
  /\ runtime' = "gone"
  /\ UNCHANGED <<setup, port, shutdown, server, conn, request, resolving>>

(* The task of a connection is past its head and not done.                 *)
Serving(x) == conn[x] \in {"connect", "forward", "transfer"}

(* The request is longer than the socket buffers, and the write of it to a *)
(* remote that does not read has no timeout.                               *)
HeldByRemote(x) == conn[x] = "forward" /\ request[x].long

(* A request comes to an end whatever its remote and the resolver do:      *)
(* CONNECT_TIMEOUT and TRANSFER_TIMEOUT bound every wait of                *)
(* handle_connect and handle_http, but for a long request head that the    *)
(* remote does not read.                                                   *)
RequestEnds == \A x \in Conns : []<>(~Serving(x) \/ HeldByRemote(x))
=============================================================================
