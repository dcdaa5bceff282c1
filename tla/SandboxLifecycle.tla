-------------------------- MODULE SandboxLifecycle ---------------------------
(***************************************************************************)
(* What spawning promises, without pipes, signals or fd tables: a sandbox  *)
(* is created, confined, and only then started; the caller gets one answer;*)
(* an accepted sandbox is not still being set up, a rejected one is gone   *)
(* and never starts.                                                       *)
(***************************************************************************)
CONSTANT Sandboxes

VARIABLES
  phase,   \* "absent", "created", "confined", "started" or "gone"
  answer   \* what the caller knows: "pending", "ok", "error" or "lost"

lifecycle == <<phase, answer>>

Init ==
  /\ phase = [s \in Sandboxes |-> "absent"]
  /\ answer = [s \in Sandboxes |-> "pending"]

(* A child process exists, in its namespaces, blocked.                     *)
Create(s) ==
  /\ phase[s] = "absent" /\ answer[s] = "pending"
  /\ phase' = [phase EXCEPT ![s] = "created"]
  /\ UNCHANGED answer

(* The parent has written the id maps and settled the cgroup limits.       *)
Confine(s) ==
  /\ phase[s] = "created" /\ answer[s] = "pending"
  /\ phase' = [phase EXCEPT ![s] = "confined"]
  /\ UNCHANGED answer

(* Setup is complete: from here on the target program runs.                *)
Start(s) ==
  /\ phase[s] = "confined"
  /\ phase' = [phase EXCEPT ![s] = "started"]
  /\ UNCHANGED answer

Vanish(s) ==
  /\ phase[s] \in {"created", "confined", "started"}
  /\ phase' = [phase EXCEPT ![s] = "gone"]
  /\ UNCHANGED answer

Accept(s) ==
  /\ answer[s] = "pending" /\ phase[s] \in {"started", "gone"}
  /\ answer' = [answer EXCEPT ![s] = "ok"]
  /\ UNCHANGED phase

Reject(s) ==
  /\ answer[s] = "pending" /\ phase[s] \in {"absent", "gone"}
  /\ answer' = [answer EXCEPT ![s] = "error"]
  /\ UNCHANGED phase

(* The host dies, and with it every handle it had.                         *)
Lose ==
  /\ answer' = [s \in Sandboxes |-> "lost"]
  /\ UNCHANGED phase

Next ==
  \/ \E s \in Sandboxes : \/ Create(s) \/ Confine(s) \/ Start(s) \/ Vanish(s)
                          \/ Accept(s) \/ Reject(s)
  \/ Lose

Spec == Init /\ [][Next]_lifecycle
=============================================================================
