------------------------- MODULE CgroupLimitsProofs --------------------------
(***************************************************************************)
(* Proofs about CgroupLimits, for any number of sandboxes configured at the*)
(* same time, any offered controllers and any failures.                    *)
(***************************************************************************)
EXTENDS CgroupLimits, TLAPS

(* What a step of s leaves to sandbox t: all of t's own state, and shared  *)
(* cgroups that only gain controllers.                                     *)
Spared(t) ==
  /\ pc'[t] = pc[t] /\ dir'[t] = dir[t] /\ avail'[t] = avail[t]
  /\ written'[t] = written[t] /\ attached'[t] = attached[t]
  /\ diag'[t] = diag[t] /\ answer'[t] = answer[t] /\ failed'[t] = failed[t]

Grows ==
  /\ root' = root /\ mode' = mode
  /\ top \subseteq top' /\ below \subseteq below' /\ (parent => parent')

(* A sandbox that is spared keeps its invariants.                          *)
LEMMA SparedKeeps ==
  ASSUME NEW t \in Sandboxes, SandboxInv(t), UnharmedInv(t), Spared(t), Grows
  PROVE  SandboxInv(t)' /\ UnharmedInv(t)'
  <1>1. /\ Requested(t)' = Requested(t) /\ RootlessMemory(t)' = RootlessMemory(t)
        /\ MustHaveCgroup(t)' = MustHaveCgroup(t)
    BY DEF Grows, Requested, RootlessMemory, MustHaveCgroup
  <1>2. LimitsDealtWith(t)' = LimitsDealtWith(t)
    BY <1>1 DEF Spared, Grows, LimitsDealtWith, Dispensable, Passed
  <1>3. SandboxInv(t)'
    BY <1>1, <1>2 DEF Spared, Grows, SandboxInv
  <1>4. UnharmedInv(t)'
    BY <1>1 DEF Spared, Grows, UnharmedInv, Passed
  <1> QED
    BY <1>3, <1>4

(* Every plan is a function from limits to modes.                          *)
LEMMA PlansTyped ==
  ASSUME NEW plan \in Plans
  PROVE  plan \in [AllLimits -> Modes]
  BY DEF Plans, LimitPlan, LimitMode, Modes

(* The invariant holds before any step of configure_cgroup.                *)
LEMMA LimitsInit == Init => LimitsInv
  <1> SUFFICES ASSUME Init PROVE LimitsInv
    OBVIOUS
  <1>1. mode \in [Sandboxes -> [AllLimits -> Modes]]
    BY PlansTyped DEF Init
  <1>2. \A s \in Sandboxes : diag[s] = LimitStatus(mode[s])
    BY DEF Init
  <1>3. diag \in [Sandboxes -> [AllLimits -> Statuses]]
    BY <1>1 DEF Init, LimitStatus, Statuses
  <1>4. TypeOK
    BY <1>1, <1>3, Zenon DEF Init, TypeOK
  <1>5. ASSUME NEW s \in Sandboxes
        PROVE  SandboxInv(s) /\ UnharmedInv(s)
    <2>1. pc[s] = "Probe" /\ ~dir[s] /\ written[s] = {} /\ ~attached[s]
      BY DEF Init
    <2>2. \A l \in AllLimits \ Requested(s) : diag[s][l] = "NotRequested"
      BY <1>2 DEF LimitStatus, Requested
    <2> QED
      BY <2>1, <2>2 DEF SandboxInv, UnharmedInv, Setting, AllLimits
  <1> QED
    BY <1>4, <1>5 DEF LimitsInv

-----------------------------------------------------------------------------
(* A step of s is safe if it keeps the types, spares the others and keeps  *)
(* the invariants of s.                                                    *)
LEMMA Locality ==
  ASSUME LimitsInv, NEW s \in Sandboxes, TypeOK', Grows,
         \A t \in Sandboxes \ {s} : Spared(t), SandboxInv(s)', UnharmedInv(s)'
  PROVE  LimitsInv'
  <1>1. ASSUME NEW t \in Sandboxes
        PROVE  SandboxInv(t)' /\ UnharmedInv(t)'
    <2>1. CASE t = s
      BY <2>1
    <2>2. CASE t # s
      BY <2>2, SparedKeeps DEF LimitsInv
    <2> QED
      BY <2>1, <2>2
  <1> QED
    BY <1>1 DEF LimitsInv

(* What depends only on the plan does not change.                          *)
LEMMA PlanFixed ==
  ASSUME NEW s \in Sandboxes, root' = root, mode' = mode
  PROVE  /\ Requested(s)' = Requested(s) /\ RootlessMemory(s)' = RootlessMemory(s)
         /\ MustHaveCgroup(s)' = MustHaveCgroup(s)
         /\ \A l \in AllLimits : Dispensable(s, l)' = Dispensable(s, l)
  BY DEF Requested, RootlessMemory, MustHaveCgroup, Dispensable

(* The steps that create the cgroup keep the invariant.                    *)
LEMMA CreateSteps ==
  ASSUME LimitsInv, NEW s \in Sandboxes,
         Probe(s) \/ EnableTop(s) \/ MakeParent(s) \/ EnableParent(s) \/ MakeDir(s)
  PROVE  LimitsInv'
  <1> USE DEF LimitsInv, sharedVars, setupVars, outcomeVars, Goto
  <1>0. Requested(s) \subseteq AllLimits
    BY DEF Requested
  <1>1. CASE Probe(s)
    <2>1. TypeOK' /\ Grows /\ \A t \in Sandboxes \ {s} : Spared(t)
      BY <1>1 DEF Probe, TypeOK, Grows, Spared
    <2>2. SandboxInv(s)' /\ UnharmedInv(s)'
      BY <1>1, <2>1, PlanFixed
      DEF Probe, TypeOK, SandboxInv, UnharmedInv, Early, Setting, AllLimits, Grows
    <2> QED
      BY <2>1, <2>2, Locality
  <1>2. CASE EnableTop(s)
    <2>1. TypeOK' /\ Grows /\ \A t \in Sandboxes \ {s} : Spared(t)
      BY <1>0, <1>2 DEF EnableTop, TypeOK, Grows, Spared
    <2>2. SandboxInv(s)' /\ UnharmedInv(s)'
      BY <1>2, <2>1, PlanFixed
      DEF EnableTop, TypeOK, SandboxInv, UnharmedInv, Early, Setting, AllLimits, Grows
    <2> QED
      BY <2>1, <2>2, Locality
  <1>3. CASE MakeParent(s)
    <2>1. TypeOK' /\ Grows /\ \A t \in Sandboxes \ {s} : Spared(t)
      BY <1>3 DEF MakeParent, TypeOK, Grows, Spared
    <2>2. SandboxInv(s)' /\ UnharmedInv(s)'
      BY <1>3, <2>1, PlanFixed
      DEF MakeParent, TypeOK, SandboxInv, UnharmedInv, Early, Setting, AllLimits, Grows
    <2> QED
      BY <2>1, <2>2, Locality
  <1>4. CASE EnableParent(s)
    <2>1. TypeOK' /\ Grows /\ \A t \in Sandboxes \ {s} : Spared(t)
      BY <1>0, <1>4 DEF EnableParent, TypeOK, Grows, Spared
    <2>2. SandboxInv(s)' /\ UnharmedInv(s)'
      BY <1>4, <2>1, PlanFixed
      DEF EnableParent, TypeOK, SandboxInv, UnharmedInv, Early, Setting, AllLimits, Grows
    <2> QED
      BY <2>1, <2>2, Locality
  <1>5. CASE MakeDir(s)
    <2>1. TypeOK' /\ Grows /\ \A t \in Sandboxes \ {s} : Spared(t)
      BY <1>5 DEF MakeDir, TypeOK, Grows, Spared, AllLimits
    <2>2. pc'[s] = "memory" /\ Passed("memory") = {}
      BY <1>5 DEF MakeDir, TypeOK, Passed, AllLimits
    <2>3. SandboxInv(s)' /\ UnharmedInv(s)'
      BY <1>5, <2>1, <2>2, PlanFixed
      DEF MakeDir, TypeOK, SandboxInv, UnharmedInv, LimitsDealtWith, Early, Setting,
          AllLimits, Grows
    <2> QED
      BY <2>1, <2>3, Locality
  <1> QED
    BY <1>1, <1>2, <1>3, <1>4, <1>5

(* Setting a status touches the diagnostics of s only, and of those in L.   *)
LEMMA StatusEffect ==
  ASSUME TypeOK, NEW s \in Sandboxes, NEW L, NEW st \in Statuses, Status(s, L, st)
  PROVE  /\ diag' \in [Sandboxes -> [AllLimits -> Statuses]]
         /\ \A l \in AllLimits : diag'[s][l] = IF l \in L THEN st ELSE diag[s][l]
         /\ \A t \in Sandboxes \ {s} : diag'[t] = diag[t]
  <1> DEFINE new == [l \in AllLimits |-> IF l \in L THEN st ELSE diag[s][l]]
  <1>1. diag \in [Sandboxes -> [AllLimits -> Statuses]]
    BY DEF TypeOK
  <1>2. new \in [AllLimits -> Statuses]
    BY <1>1
  <1>3. diag' = [diag EXCEPT ![s] = new]
    BY DEF Status
  <1>4. diag'[s] = new /\ \A t \in Sandboxes \ {s} : diag'[t] = diag[t]
    BY <1>1, <1>3
  <1>5. diag' \in [Sandboxes -> [AllLimits -> Statuses]]
    <2> HIDE DEF new
    <2> QED
      BY <1>1, <1>2, <1>3
  <1> QED
    BY <1>4, <1>5

(* Going without a cgroup, or failing for want of one, keeps it.           *)
LEMMA UnavailableStep ==
  ASSUME LimitsInv, NEW s \in Sandboxes, pc[s] \in Early, Unavailable(s),
         failed' = [failed EXCEPT ![s] = TRUE], UNCHANGED <<sharedVars, setupVars>>
  PROVE  LimitsInv'
  <1> USE DEF LimitsInv, sharedVars, setupVars, Goto, Answer
  <1>1. /\ diag' \in [Sandboxes -> [AllLimits -> Statuses]]
        /\ \A t \in Sandboxes \ {s} : diag'[t] = diag[t]
    <2>1. CASE MustHaveCgroup(s)
      BY <2>1 DEF Unavailable, TypeOK
    <2>2. CASE ~MustHaveCgroup(s)
      BY <2>2, StatusEffect DEF Unavailable, Statuses
    <2> QED
      BY <2>1, <2>2
  <1>2. TypeOK' /\ Grows /\ \A t \in Sandboxes \ {s} : Spared(t)
    BY <1>1 DEF Unavailable, TypeOK, Grows, Spared
  <1>3. pc'[s] = "Done" /\ failed'[s] = TRUE /\ ~dir'[s]
    BY DEF Unavailable, TypeOK, SandboxInv
  <1>4. UnharmedInv(s)'
    BY <1>3 DEF UnharmedInv
  <1>5. CASE MustHaveCgroup(s)
    <2>1. answer'[s] = "err" /\ diag'[s] = diag[s]
      BY <1>5 DEF Unavailable, TypeOK
    <2>2. SandboxInv(s)'
      BY <1>2, <1>3, <2>1, PlanFixed DEF SandboxInv, Early, Setting, AllLimits, Grows
    <2> QED
      BY <1>2, <1>4, <2>2, Locality
  <1>6. CASE ~MustHaveCgroup(s)
    <2>1. answer'[s] = "without"
      BY <1>6 DEF Unavailable, TypeOK
    <2>2. \A l \in AllLimits :
            diag'[s][l] = IF l \in Requested(s) THEN "NotEnforced" ELSE diag[s][l]
      BY <1>6, StatusEffect DEF Unavailable, Statuses
    <2>3. Requested(s) \subseteq AllLimits
      BY DEF Requested
    <2>4. SandboxInv(s)'
      BY <1>2, <1>3, <1>6, <2>1, <2>2, <2>3, PlanFixed
      DEF SandboxInv, Early, Setting, AllLimits, Grows
    <2> QED
      BY <1>2, <1>4, <2>4, Locality
  <1> QED
    BY <1>5, <1>6

(* The failures while the cgroup is created keep it.                       *)
LEMMA CreateFailSteps ==
  ASSUME LimitsInv, NEW s \in Sandboxes,
         ProbeFails(s) \/ CreateFails(s) \/ \E C \in SUBSET Limits : EnableFails(s, C)
  PROVE  LimitsInv'
  <1>1. CASE ProbeFails(s)
    BY <1>1, UnavailableStep DEF ProbeFails, Fault, Early
  <1>2. CASE CreateFails(s)
    <2>1. pc[s] = "MakeParent" \/ CanMakeDir
      BY <1>2 DEF CreateFails, LimitsInv, SandboxInv, CanMakeDir
    <2>2. failed' = [failed EXCEPT ![s] = TRUE]
      BY <1>2, <2>1 DEF CreateFails
    <2> QED
      BY <1>2, <2>2, UnavailableStep DEF CreateFails, Early
  <1>3. ASSUME NEW C \in SUBSET Limits, EnableFails(s, C)
        PROVE  LimitsInv'
    <2> USE DEF LimitsInv, setupVars, Goto
    <2>1. Requested(s) \subseteq AllLimits
      BY DEF Requested
    <2>2. TypeOK' /\ Grows /\ \A t \in Sandboxes \ {s} : Spared(t)
      BY <1>3, <2>1 DEF EnableFails, Fault, TypeOK, Grows, Spared
    <2>3. failed'[s] = TRUE /\ diag'[s] = diag[s]
      BY <1>3 DEF EnableFails, Fault, TypeOK
    <2>4. UnharmedInv(s)'
      BY <2>3 DEF UnharmedInv
    <2>5. SandboxInv(s)'
      BY <1>3, <2>2, <2>3, PlanFixed
      DEF EnableFails, TypeOK, SandboxInv, Early, Setting, AllLimits, Grows
    <2> QED
      BY <2>2, <2>4, <2>5, Locality
  <1> QED
    BY <1>1, <1>2, <1>3

-----------------------------------------------------------------------------
(* The limits are dealt with one at a time, in order.                      *)
LEMMA PassedAfter ==
  ASSUME NEW l \in AllLimits
  PROVE  /\ Passed(After(l)) = Passed(l) \cup {l} /\ l \notin Passed(l)
         /\ After(l) \in Setting /\ After(l) \notin Early \cup {"Done", "Gone"}
         /\ l \in Setting /\ l \notin Early \cup {"Done", "Gone"}
  BY DEF Passed, After, AllLimits, Setting, Early

(* A limit that could not be set is dispensable, or the sandbox fails.     *)
LEMMA SetFailsStep ==
  ASSUME LimitsInv, NEW s \in Sandboxes, NEW l \in AllLimits, pc[s] = l,
         l \in Requested(s), SetFails(s, l),
         UNCHANGED <<root, mode, top, avail, written, attached>>,
         failed' \in [Sandboxes -> BOOLEAN],
         \A t \in Sandboxes \ {s} : failed'[t] = failed[t],
         failed'[s] \/ (failed'[s] = failed[s] /\ l \notin avail[s])
  PROVE  LimitsInv'
  <1> USE DEF LimitsInv, Goto, Answer, Cleanup
  <1>1. UnharmedInv(s)'
    <2>1. CASE failed'[s]
      BY <2>1 DEF UnharmedInv
    <2>2. CASE failed'[s] = failed[s] /\ l \notin avail[s]
      <3>1. ~(~failed[s] /\ Requested(s) \subseteq Offered)
        BY <2>2, PassedAfter DEF UnharmedInv
      <3> QED
        BY <2>2, <3>1, PlanFixed DEF UnharmedInv
    <2> QED
      BY <2>1, <2>2
  <1>2. pc[s] \in Setting /\ dir[s] /\ ~attached[s] /\ LimitsDealtWith(s)
    BY PassedAfter DEF SandboxInv
  <1>3. CASE mode[s][l] = "Strict" \/ (l = "memory" /\ RootlessMemory(s))
    <2>1. TypeOK' /\ Grows /\ \A t \in Sandboxes \ {s} : Spared(t)
      BY <1>3 DEF SetFails, TypeOK, Grows, Spared
    <2>2. pc'[s] = "Done" /\ answer'[s] = "err" /\ ~dir'[s] /\ diag'[s] = diag[s]
      BY <1>3 DEF SetFails, TypeOK
    <2>3. SandboxInv(s)'
      BY <2>1, <2>2, PlanFixed DEF SandboxInv, Early, Setting, AllLimits, Grows
    <2> QED
      BY <1>1, <2>1, <2>3, Locality
  <1>4. CASE ~(mode[s][l] = "Strict" \/ (l = "memory" /\ RootlessMemory(s)))
    <2>1. /\ diag' \in [Sandboxes -> [AllLimits -> Statuses]]
          /\ \A m \in AllLimits :
               diag'[s][m] = IF m \in {l} THEN "NotEnforced" ELSE diag[s][m]
          /\ \A t \in Sandboxes \ {s} : diag'[t] = diag[t]
      BY <1>4, StatusEffect DEF SetFails, Statuses
    <2>2. After(l) \in AllLimits \cup {"Attach"}
      BY PassedAfter DEF Setting
    <2>3. TypeOK' /\ Grows /\ \A t \in Sandboxes \ {s} : Spared(t)
      <3>1. Grows /\ \A t \in Sandboxes \ {s} : Spared(t)
        BY <1>4, <2>1 DEF SetFails, TypeOK, Grows, Spared
      <3>2. pc' = [pc EXCEPT ![s] = After(l)] /\ UNCHANGED <<answer, dir, parent, below>>
        BY <1>4 DEF SetFails
      <3>3. TypeOK'
        BY <2>1, <2>2, <3>2 DEF TypeOK
      <3> QED
        BY <3>1, <3>3
    <2>4. pc'[s] = After(l) /\ dir'[s] = dir[s]
      BY <1>4 DEF SetFails, TypeOK
    <2>5. Dispensable(s, l)
      BY <1>4 DEF Dispensable, RootlessMemory
    <2>6. LimitsDealtWith(s)'
      <3>1. written'[s] \subseteq Requested(s)' \cap Passed(pc'[s])
        BY <1>2, <2>3, <2>4, PassedAfter, PlanFixed DEF LimitsDealtWith, Grows
      <3>2. ASSUME NEW m \in (Requested(s) \cap Passed(pc'[s])) \ written[s]
            PROVE  diag'[s][m] = "NotEnforced" /\ Dispensable(s, m)
        <4>1. m \in AllLimits
          BY <3>2 DEF Requested
        <4>2. CASE m = l
          BY <2>1, <2>5, <4>1, <4>2
        <4>3. CASE m # l
          BY <1>2, <2>1, <2>4, <3>2, <4>1, <4>3, PassedAfter DEF LimitsDealtWith
        <4> QED
          BY <4>2, <4>3
      <3>3. \A m \in Requested(s) : Dispensable(s, m)' = Dispensable(s, m)
        BY PlanFixed DEF Requested
      <3> QED
        BY <3>1, <3>2, <3>3, PlanFixed DEF LimitsDealtWith
    <2>7. \A m \in AllLimits \ Requested(s) : diag'[s][m] = "NotRequested"
      BY <2>1 DEF SandboxInv
    <2>8. SandboxInv(s)'
      <3>1. pc'[s] \in Setting /\ pc'[s] \notin Early \cup {"Done", "Gone"}
        BY <2>4, PassedAfter
      <3>2. dir'[s] /\ ~attached'[s] /\ Requested(s)' = Requested(s)
        BY <1>2, <2>4, PlanFixed
      <3> QED
        BY <2>6, <2>7, <3>1, <3>2 DEF SandboxInv, Early
    <2> QED
      BY <1>1, <2>3, <2>8, Locality
  <1> QED
    BY <1>3, <1>4

(* set_memory_limit, set_cpu_limit and set_pids_limit keep the invariant.  *)
LEMMA SetLimitStep ==
  ASSUME LimitsInv, NEW s \in Sandboxes, NEW l \in AllLimits,
         SetLimit(s, l) \/ SetLimitFails(s, l)
  PROVE  LimitsInv'
  <1> USE DEF LimitsInv, Goto
  <1>1. CASE SetLimitFails(s, l)
    BY <1>1, SetFailsStep DEF SetLimitFails, Fault, TypeOK
  <1>2. CASE SetLimit(s, l) /\ l \in Requested(s) \ avail[s]
    BY <1>2, SetFailsStep DEF SetLimit, TypeOK
  <1>3. CASE SetLimit(s, l) /\ l \notin Requested(s) \ avail[s]
    <2>1. /\ pc[s] \in Setting /\ dir[s] /\ ~attached[s] /\ LimitsDealtWith(s)
          /\ pc[s] = l
      BY <1>3, PassedAfter DEF SandboxInv, SetLimit
    <2>2. After(l) \in AllLimits \cup {"Attach"}
      BY PassedAfter DEF Setting
    <2>3. TypeOK' /\ Grows /\ \A t \in Sandboxes \ {s} : Spared(t)
      <3>1. Grows /\ \A t \in Sandboxes \ {s} : Spared(t)
        BY <1>3 DEF SetLimit, TypeOK, Grows, Spared
      <3>2. /\ pc' = [pc EXCEPT ![s] = After(l)]
            /\ written' \in [Sandboxes -> SUBSET AllLimits]
            /\ UNCHANGED <<root, mode, top, diag, answer, dir, parent, below, avail,
                           attached, failed>>
        BY <1>3 DEF SetLimit, TypeOK
      <3>3. TypeOK'
        BY <2>2, <3>2 DEF TypeOK
      <3> QED
        BY <3>1, <3>3
    <2>4. /\ pc'[s] = After(l) /\ dir'[s] = dir[s] /\ diag'[s] = diag[s]
          /\ failed'[s] = failed[s] /\ avail'[s] = avail[s] /\ attached'[s] = attached[s]
      BY <1>3 DEF SetLimit, TypeOK
    <2>5. written'[s] = IF l \in Requested(s) THEN written[s] \cup {l} ELSE written[s]
      BY <1>3 DEF SetLimit, TypeOK
    <2>6. LimitsDealtWith(s)'
      <3>1. written'[s] \subseteq Requested(s)' \cap Passed(pc'[s])
        BY <2>1, <2>3, <2>4, <2>5, PassedAfter, PlanFixed DEF LimitsDealtWith, Grows
      <3>2. \A m \in (Requested(s) \cap Passed(pc'[s])) \ written'[s] :
              diag[s][m] = "NotEnforced" /\ Dispensable(s, m)
        BY <2>1, <2>4, <2>5, PassedAfter DEF LimitsDealtWith
      <3>3. \A m \in Requested(s) : Dispensable(s, m)' = Dispensable(s, m)
        BY <2>3, PlanFixed DEF Requested, Grows
      <3> QED
        BY <2>3, <2>4, <3>1, <3>2, <3>3, PlanFixed DEF LimitsDealtWith, Grows
    <2>7. SandboxInv(s)'
      <3>1. pc'[s] \in Setting /\ pc'[s] \notin Early \cup {"Done", "Gone"}
        BY <2>4, PassedAfter
      <3>2. dir'[s] /\ ~attached'[s] /\ Requested(s)' = Requested(s)
        BY <2>1, <2>3, <2>4, PlanFixed DEF Grows
      <3>3. \A m \in AllLimits \ Requested(s) : diag'[s][m] = "NotRequested"
        BY <2>4 DEF SandboxInv
      <3> QED
        BY <2>6, <3>1, <3>2, <3>3 DEF SandboxInv, Early
    <2>8. UnharmedInv(s)'
      BY <2>1, <2>3, <2>4, <2>5, PlanFixed, PassedAfter DEF UnharmedInv, Grows, Early
    <2> QED
      BY <2>3, <2>7, <2>8, Locality
  <1> QED
    BY <1>1, <1>2, <1>3

(* The child joins the cgroup, or cannot.                                  *)
LEMMA AttachStep ==
  ASSUME LimitsInv, NEW s \in Sandboxes, AddProcess(s) \/ AddProcessFails(s)
  PROVE  LimitsInv'
  <1> USE DEF LimitsInv, sharedVars, Goto, Answer
  <1>1. /\ pc[s] = "Attach" /\ Passed("Attach") = AllLimits /\ Passed("Done") = AllLimits
        /\ "Attach" \in Setting
    BY DEF AddProcess, AddProcessFails, Passed, Setting
  <1>2. /\ dir[s] /\ LimitsDealtWith(s) /\ written[s] \subseteq Requested(s)
        /\ Requested(s) \subseteq AllLimits
        /\ \A l \in AllLimits \ Requested(s) : diag[s][l] = "NotRequested"
        /\ \A l \in Requested(s) \ written[s] : diag[s][l] = "NotEnforced" /\ Dispensable(s, l)
    BY <1>1 DEF SandboxInv, LimitsDealtWith, Requested
  <1>3. CASE AddProcess(s)
    <2>1. /\ diag' \in [Sandboxes -> [AllLimits -> Statuses]]
          /\ \A l \in AllLimits :
               diag'[s][l] = IF l \in written[s] THEN "Enforced" ELSE diag[s][l]
          /\ \A t \in Sandboxes \ {s} : diag'[t] = diag[t]
      BY <1>3, StatusEffect DEF AddProcess, Statuses
    <2>2. Grows /\ \A t \in Sandboxes \ {s} : Spared(t)
      BY <1>3, <2>1 DEF AddProcess, TypeOK, Grows, Spared
    <2>3. TypeOK'
      BY <1>3, <2>1 DEF AddProcess, TypeOK
    <2>4. /\ pc'[s] = "Done" /\ answer'[s] = "some" /\ attached'[s] /\ dir'[s]
          /\ written'[s] = written[s] /\ failed'[s] = failed[s]
      BY <1>2, <1>3 DEF AddProcess, TypeOK
    <2>5. LimitsDealtWith(s)'
      BY <1>1, <1>2, <2>1, <2>2, <2>4, PlanFixed DEF LimitsDealtWith, Grows
    <2>6. SandboxInv(s)'
      BY <1>2, <2>1, <2>2, <2>4, <2>5, PlanFixed
      DEF SandboxInv, Grows, Early, Setting, AllLimits
    <2>7. UnharmedInv(s)'
      BY <1>1, <2>2, <2>4, PlanFixed DEF UnharmedInv, Grows, Setting, AllLimits
    <2> QED
      BY <2>2, <2>3, <2>6, <2>7, Locality
  <1>4. CASE AddProcessFails(s)
    <2> USE DEF Cleanup, Fault
    <2>1. /\ diag' \in [Sandboxes -> [AllLimits -> Statuses]]
          /\ \A t \in Sandboxes \ {s} : diag'[t] = diag[t]
      <3>1. CASE MustHaveCgroup(s)
        BY <1>4, <3>1 DEF AddProcessFails, TypeOK
      <3>2. CASE ~MustHaveCgroup(s)
        BY <1>4, <3>2, StatusEffect DEF AddProcessFails, Statuses
      <3> QED
        BY <3>1, <3>2
    <2>2. Grows /\ \A t \in Sandboxes \ {s} : Spared(t)
      BY <1>4, <2>1 DEF AddProcessFails, TypeOK, Grows, Spared
    <2>3. TypeOK'
      BY <1>4, <2>1 DEF AddProcessFails, TypeOK
    <2>4. pc'[s] = "Done" /\ ~dir'[s] /\ failed'[s] = TRUE
      BY <1>4 DEF AddProcessFails, TypeOK
    <2>5. UnharmedInv(s)'
      BY <2>4 DEF UnharmedInv
    <2>6. SandboxInv(s)'
      <3>1. CASE MustHaveCgroup(s)
        <4>1. answer'[s] = "err" /\ diag'[s] = diag[s]
          BY <1>4, <3>1 DEF AddProcessFails, TypeOK
        <4> QED
          BY <1>2, <2>2, <2>4, <4>1, PlanFixed
          DEF SandboxInv, Grows, Early, Setting, AllLimits
      <3>2. CASE ~MustHaveCgroup(s)
        <4>1. answer'[s] = "without"
          BY <1>4, <3>2 DEF AddProcessFails, TypeOK
        <4>2. \A l \in AllLimits :
                diag'[s][l] = IF l \in written[s] THEN "NotEnforced" ELSE diag[s][l]
          BY <1>4, <3>2, StatusEffect DEF AddProcessFails, Statuses
        <4> QED
          BY <1>2, <2>2, <2>4, <3>2, <4>1, <4>2, PlanFixed
          DEF SandboxInv, Grows, Early, Setting, AllLimits
      <3> QED
        BY <3>1, <3>2
    <2> QED
      BY <2>2, <2>3, <2>5, <2>6, Locality
  <1> QED
    BY <1>3, <1>4

(* Dropping the handle of a sandbox costs the others nothing.              *)
LEMMA DropStep ==
  ASSUME LimitsInv, NEW s \in Sandboxes, DropManager(s)
  PROVE  LimitsInv'
  <1> USE DEF LimitsInv, outcomeVars, Goto, Cleanup
  <1>1. Grows /\ \A t \in Sandboxes \ {s} : Spared(t)
    BY DEF DropManager, TypeOK, Grows, Spared
  <1>2. TypeOK'
    BY DEF DropManager, TypeOK
  <1>3. pc'[s] = "Gone" /\ ~dir'[s] /\ diag'[s] = diag[s]
    BY DEF DropManager, TypeOK
  <1>4. SandboxInv(s)' /\ UnharmedInv(s)'
    BY <1>1, <1>3, PlanFixed
    DEF SandboxInv, UnharmedInv, Grows, Early, Setting, AllLimits
  <1> QED
    BY <1>1, <1>2, <1>4, Locality

(* Every step keeps the invariant.                                         *)
LEMMA LimitsNext == LimitsInv /\ [Next]_vars => LimitsInv'
  <1> SUFFICES ASSUME LimitsInv, [Next]_vars PROVE LimitsInv'
    OBVIOUS
  <1>1. CASE Next
    BY <1>1, CreateSteps, CreateFailSteps, SetLimitStep, AttachStep, DropStep DEF Next
  <1>2. CASE UNCHANGED vars
    <2>1. TypeOK'
      BY <1>2 DEF LimitsInv, TypeOK, vars
    <2>2. Grows /\ \A t \in Sandboxes : Spared(t)
      BY <1>2 DEF vars, Grows, Spared
    <2> QED
      BY <2>1, <2>2, SparedKeeps DEF LimitsInv
  <1> QED
    BY <1>1, <1>2

-----------------------------------------------------------------------------
(* The invariant of configure_cgroup: each sandbox has dealt with the      *)
(* limits it has passed, however its neighbours' steps fall between its    *)
(* own.                                                                    *)
THEOREM LimitsInvariant == Spec => []LimitsInv
  BY LimitsInit, LimitsNext, PTL DEF Spec

(* A strict configuration succeeds only with each of its limits in force.  *)
THEOREM StrictHolds == Spec => []StrictNeverDegraded
  <1>1. LimitsInv => StrictNeverDegraded
    <2> SUFFICES ASSUME LimitsInv, NEW s \in Sandboxes, NEW l \in AllLimits,
                        Returned(s), mode[s][l] = "Strict"
                 PROVE  InForce(s, l)
      BY DEF StrictNeverDegraded
    <2>1. MustHaveCgroup(s) /\ l \in Requested(s) /\ l \in Passed(pc[s])
      BY DEF MustHaveCgroup, Requested, Passed, Returned
    <2>2. /\ answer[s] = "some" /\ dir[s] /\ attached[s] /\ LimitsDealtWith(s)
      BY <2>1 DEF LimitsInv, SandboxInv, Returned
    <2> QED
      BY <2>1, <2>2 DEF InForce, LimitsDealtWith, Dispensable
  <1> QED
    BY <1>1, LimitsInvariant, PTL

(* Without root, a memory limit is in force or the configuration fails.    *)
THEOREM RootlessMemoryHolds == Spec => []RootlessMemoryInForce
  <1>1. LimitsInv => RootlessMemoryInForce
    <2> SUFFICES ASSUME LimitsInv, NEW s \in Sandboxes, Returned(s), RootlessMemory(s)
                 PROVE  InForce(s, "memory")
      BY DEF RootlessMemoryInForce
    <2>1. MustHaveCgroup(s) /\ "memory" \in Requested(s) /\ "memory" \in Passed(pc[s])
      BY DEF MustHaveCgroup, RootlessMemory, Passed, Returned, AllLimits
    <2>2. /\ answer[s] = "some" /\ dir[s] /\ attached[s] /\ LimitsDealtWith(s)
      BY <2>1 DEF LimitsInv, SandboxInv, Returned
    <2> QED
      BY <2>1, <2>2 DEF InForce, LimitsDealtWith, Dispensable, RootlessMemory
  <1> QED
    BY <1>1, LimitsInvariant, PTL

(* LimitDiagnostics says of each limit what the kernel does about it.      *)
THEOREM DiagnosticsHold == Spec => []DiagnosticsHonest
  <1>1. LimitsInv => DiagnosticsHonest
    <2> SUFFICES ASSUME LimitsInv, NEW s \in Sandboxes, NEW l \in AllLimits, Returned(s)
                 PROVE  diag[s][l] = IF l \notin Requested(s) THEN "NotRequested"
                                     ELSE IF InForce(s, l) THEN "Enforced"
                                     ELSE "NotEnforced"
      BY DEF DiagnosticsHonest
    <2>1. SandboxInv(s) /\ l \in Passed(pc[s]) /\ pc[s] = "Done" /\ answer[s] # "err"
      BY DEF LimitsInv, Passed, Returned
    <2>2. CASE l \notin Requested(s)
      BY <2>1, <2>2 DEF SandboxInv
    <2>3. CASE l \in Requested(s) /\ answer[s] = "without"
      BY <2>1, <2>3 DEF SandboxInv, InForce
    <2>4. CASE l \in Requested(s) /\ answer[s] # "without"
      BY <2>1, <2>4 DEF SandboxInv, InForce, LimitsDealtWith
    <2> QED
      BY <2>2, <2>3, <2>4
  <1> QED
    BY <1>1, LimitsInvariant, PTL

(* No error and no fallback of configure_cgroup leaves a directory behind. *)
THEOREM NoOrphans == Spec => []NoOrphanCgroup
  <1>1. LimitsInv => NoOrphanCgroup
    BY DEF LimitsInv, SandboxInv, NoOrphanCgroup
  <1> QED
    BY <1>1, LimitsInvariant, PTL

(* However many sandboxes share the parent cgroup, one none of whose own   *)
(* steps fails gets all the limits it asked for.                           *)
THEOREM NeighboursHarmless == Spec => []NeighboursDoNoHarm
  <1>1. LimitsInv => NeighboursDoNoHarm
    <2> SUFFICES ASSUME LimitsInv, NEW s \in Sandboxes, pc[s] = "Done", ~failed[s],
                        Requested(s) \subseteq Offered, NEW l \in Requested(s)
                 PROVE  InForce(s, l)
      BY DEF NeighboursDoNoHarm
    <2>1. l \in Passed(pc[s])
      BY DEF Passed, Requested
    <2>2. l \in written[s] /\ answer[s] = "some"
      BY <2>1 DEF LimitsInv, UnharmedInv
    <2>3. dir[s] /\ attached[s]
      BY <2>2 DEF LimitsInv, SandboxInv
    <2> QED
      BY <2>2, <2>3 DEF InForce
  <1> QED
    BY <1>1, LimitsInvariant, PTL
=============================================================================
