-------------------------- MODULE ChildHandleProofs --------------------------
(***************************************************************************)
(* Proofs about ChildHandle, for any number of handles and of pids.        *)
(***************************************************************************)
EXTENDS ChildHandle, TLAPS

(* Before the first spawn there is no process and no cgroup.               *)
LEMMA HandleInit == Init => HandleInv
  <1> SUFFICES ASSUME Init PROVE HandleInv
    OBVIOUS
  <1>1. (CHOOSE p \in Pids : TRUE) \in Pids
    BY HandleAssumption
  <1>2. TypeOK
    BY <1>1 DEF Init, TypeOK, HandleStates
  <1>3. PidInv /\ DropInv
    BY <1>2, HandleAssumption DEF Init, TypeOK, PidInv, DropInv, Running
  <1>4. OwnerInv
    BY <1>2 DEF Init, TypeOK, OwnerInv, Owns, OnlyOwnKilled
  <1> QED
    BY <1>2, <1>3, <1>4 DEF HandleInv

(* A step of a process, of a caller or of a Drop keeps the invariant.      *)
LEMMA HandleStep == ASSUME HandleInv, Next PROVE HandleInv'
  <1>a. TypeOK /\ PidInv /\ DropInv /\ (Disciplined => OwnerInv) /\ UNCHANGED fixedVars
    BY DEF HandleInv, Next
  <1>b. Disciplined' = Disciplined
    BY <1>a DEF Disciplined, fixedVars
  <1>1. ASSUME NEW p \in Pids, ForeignStarts(p) PROVE HandleInv'
    <2>1. TypeOK'
      BY <1>a, <1>1, HandleAssumption
         DEF ForeignStarts, TypeOK, HandleStates, fixedVars, PidInv
    <2>2. PidInv'
      BY <1>a, <1>1, <2>1, HandleAssumption
         DEF ForeignStarts, TypeOK, PidInv, Nobody, Foreign
    <2>3. DropInv'
      BY <1>a, <1>1, <2>1, <2>2, HandleAssumption
         DEF ForeignStarts, Running, TypeOK, PidInv, DropInv
    <2>4. Disciplined => OwnerInv'
      BY <1>a, <1>1, <2>1, HandleAssumption
         DEF ForeignStarts, TypeOK, PidInv, OwnerInv, Owns, OnlyOwnKilled, Disciplined
    <2> QED
      BY <1>b, <2>1, <2>2, <2>3, <2>4 DEF HandleInv
  <1>2. ASSUME NEW p \in Pids, ForeignEnds(p) PROVE HandleInv'
    <2>1. TypeOK'
      BY <1>a, <1>2, HandleAssumption
         DEF ForeignEnds, FreePid, TypeOK, HandleStates, fixedVars, PidInv
    <2>2. PidInv'
      BY <1>a, <1>2, <2>1, HandleAssumption DEF ForeignEnds, FreePid, TypeOK, PidInv
    <2>3. DropInv'
      BY <1>a, <1>2, <2>1, <2>2, HandleAssumption
         DEF ForeignEnds, FreePid, Running, TypeOK, PidInv, DropInv
    <2>4. Disciplined => OwnerInv'
      BY <1>a, <1>2, <2>1, HandleAssumption
         DEF ForeignEnds, FreePid, TypeOK, PidInv, OwnerInv, Owns, OnlyOwnKilled,
             Disciplined
    <2> QED
      BY <1>b, <2>1, <2>2, <2>3, <2>4 DEF HandleInv
  <1>3. ASSUME NEW p \in Pids, ProcessEnds(p) PROVE HandleInv'
    <2>1. TypeOK'
      BY <1>a, <1>3, HandleAssumption
         DEF ProcessEnds, Running, TypeOK, HandleStates, fixedVars, PidInv
    <2>2. PidInv'
      BY <1>a, <1>3, <2>1, HandleAssumption DEF ProcessEnds, Running, TypeOK, PidInv
    <2>3. DropInv'
      BY <1>a, <1>3, <2>1, <2>2, HandleAssumption
         DEF ProcessEnds, Running, TypeOK, PidInv, DropInv
    <2>4. Disciplined => OwnerInv'
      BY <1>a, <1>3, <2>1, HandleAssumption
         DEF ProcessEnds, Running, TypeOK, PidInv, OwnerInv, Owns, OnlyOwnKilled,
             Disciplined
    <2> QED
      BY <1>b, <2>1, <2>2, <2>3, <2>4 DEF HandleInv
  <1>4. ASSUME NEW h \in Handles, NEW p \in Pids, NEW limits \in BOOLEAN,
      NEW pipes \in BOOLEAN,
             Spawn(h, p, limits, pipes) PROVE HandleInv'
    <2>1. TypeOK'
      BY <1>a, <1>4, HandleAssumption
         DEF Spawn, MakesCgroup, TypeOK, HandleStates, fixedVars, PidInv
    <2>2. PidInv'
      BY <1>a, <1>4, <2>1, HandleAssumption DEF Spawn, MakesCgroup, TypeOK, PidInv
    <2>3. DropInv'
      BY <1>a, <1>4, <2>1, <2>2, HandleAssumption
         DEF Spawn, MakesCgroup, Running, TypeOK, PidInv, DropInv
    <2>4. Disciplined => OwnerInv'
      BY <1>a, <1>4, <2>1, HandleAssumption
         DEF Spawn, MakesCgroup, TypeOK, PidInv, OwnerInv, Owns, OnlyOwnKilled, Disciplined
    <2> QED
      BY <1>b, <2>1, <2>2, <2>3, <2>4 DEF HandleInv
  <1>5. ASSUME NEW h \in Handles, TakePipes(h) PROVE HandleInv'
    <2>1. TypeOK'
      BY <1>a, <1>5, HandleAssumption
         DEF TakePipes, procVars, TypeOK, HandleStates, fixedVars, PidInv
    <2>2. PidInv'
      BY <1>a, <1>5, <2>1, HandleAssumption DEF TakePipes, procVars, TypeOK, PidInv
    <2>3. DropInv'
      BY <1>a, <1>5, <2>1, <2>2, HandleAssumption
         DEF TakePipes, procVars, Running, TypeOK, PidInv, DropInv
    <2>4. Disciplined => OwnerInv'
      BY <1>a, <1>5, <2>1, HandleAssumption
         DEF TakePipes, procVars, TypeOK, PidInv, OwnerInv, Owns, OnlyOwnKilled,
             Disciplined
    <2> QED
      BY <1>b, <2>1, <2>2, <2>3, <2>4 DEF HandleInv
  <1>6. ASSUME NEW h \in Handles, Kill(h) PROVE HandleInv'
    <2>1. TypeOK'
      BY <1>a, <1>6, HandleAssumption
         DEF Kill, Usable, Signal, KillAll, SignalPid, Quiet, Running, TypeOK, HandleStates,
             fixedVars, PidInv
    <2>2. PidInv'
      BY <1>a, <1>6, <2>1, HandleAssumption
         DEF Kill, Usable, Signal, KillAll, SignalPid, Quiet, Running, TypeOK, PidInv
    <2>3. DropInv'
      BY <1>a, <1>6, <2>1, <2>2, HandleAssumption
         DEF Kill, Usable, Signal, KillAll, SignalPid, Quiet, Running, TypeOK, PidInv,
             DropInv
    <2>4. Disciplined => OwnerInv'
      BY <1>a, <1>6, <2>1, HandleAssumption
         DEF Kill, Usable, Signal, KillAll, SignalPid, Quiet, Running, TypeOK, PidInv,
             OwnerInv, Owns, OnlyOwnKilled, Disciplined
    <2> QED
      BY <1>b, <2>1, <2>2, <2>3, <2>4 DEF HandleInv
  <1>7. ASSUME NEW h \in Handles, TryWait(h) PROVE HandleInv'
    <2>1. TypeOK'
      <3>1. CASE ReapPid(h) /\ waited' = [waited EXCEPT ![h] = TRUE]
        BY <1>a, <1>7, <3>1 DEF TryWait, ReapPid, FreePid, TypeOK, HandleStates, fixedVars
      <3>2. CASE Echild(h) /\ status' = [status EXCEPT ![h] = "err"]
                 /\ UNCHANGED <<procVars, waited>>
        BY <1>a, <1>7, <3>2 DEF TryWait, procVars, TypeOK, HandleStates, fixedVars
      <3> QED
        BY <1>7, <3>1, <3>2 DEF TryWait
    <2>2. PidInv'
      BY <1>a, <1>7, <2>1, HandleAssumption
         DEF TryWait, Usable, Exited, Echild, ReapPid, FreePid, procVars, TypeOK, PidInv
    <2>3. DropInv'
      BY <1>a, <1>7, <2>1, <2>2, HandleAssumption
         DEF TryWait, Usable, Exited, Echild, ReapPid, FreePid, procVars, Running, TypeOK,
             PidInv, DropInv
    <2>4. Disciplined => OwnerInv'
      BY <1>a, <1>7, <2>1, HandleAssumption
         DEF TryWait, Usable, Exited, Echild, ReapPid, FreePid, procVars, TypeOK, PidInv,
             OwnerInv, Owns, OnlyOwnKilled, Disciplined
    <2> QED
      BY <1>b, <2>1, <2>2, <2>3, <2>4 DEF HandleInv
  <1>8. ASSUME NEW h \in Handles, Drop(h) PROVE HandleInv'
    <2>1. TypeOK'
      BY <1>a, <1>8, HandleAssumption
         DEF Drop, DropFrom, procVars, TypeOK, HandleStates, fixedVars, PidInv
    <2>2. PidInv'
      BY <1>a, <1>8, <2>1, HandleAssumption DEF Drop, DropFrom, procVars, TypeOK, PidInv
    <2>3. DropInv'
      BY <1>a, <1>8, <2>1, <2>2, HandleAssumption
         DEF Drop, DropFrom, procVars, Running, TypeOK, PidInv, DropInv
    <2>4. Disciplined => OwnerInv'
      BY <1>a, <1>8, <2>1, HandleAssumption
         DEF Drop, DropFrom, procVars, TypeOK, PidInv, OwnerInv, Owns, OnlyOwnKilled,
             Disciplined
    <2> QED
      BY <1>b, <2>1, <2>2, <2>3, <2>4 DEF HandleInv
  <1>9. ASSUME NEW h \in Handles, Wait(h) PROVE HandleInv'
    <2>1. TypeOK'
      BY <1>a, <1>9, HandleAssumption
         DEF Wait, Usable, DropFrom, procVars, TypeOK, HandleStates, fixedVars, PidInv
    <2>2. PidInv'
      BY <1>a, <1>9, <2>1, HandleAssumption
         DEF Wait, Usable, DropFrom, procVars, TypeOK, PidInv
    <2>3. DropInv'
      BY <1>a, <1>9, <2>1, <2>2, HandleAssumption
         DEF Wait, Usable, DropFrom, procVars, Running, TypeOK, PidInv, DropInv
    <2>4. Disciplined => OwnerInv'
      BY <1>a, <1>9, <2>1, HandleAssumption
         DEF Wait, Usable, DropFrom, procVars, TypeOK, PidInv, OwnerInv, Owns,
             OnlyOwnKilled, Disciplined
    <2> QED
      BY <1>b, <2>1, <2>2, <2>3, <2>4 DEF HandleInv
  <1>10. ASSUME NEW h \in Handles, WaitWithOutput(h) PROVE HandleInv'
    <2>1. TypeOK'
      BY <1>a, <1>10, HandleAssumption
         DEF WaitWithOutput, Usable, procVars, TypeOK, HandleStates, fixedVars, PidInv
    <2>2. PidInv'
      BY <1>a, <1>10, <2>1, HandleAssumption
         DEF WaitWithOutput, Usable, procVars, TypeOK, PidInv
    <2>3. DropInv'
      BY <1>a, <1>10, <2>1, <2>2, HandleAssumption
         DEF WaitWithOutput, Usable, procVars, Running, TypeOK, PidInv, DropInv
    <2>4. Disciplined => OwnerInv'
      BY <1>a, <1>10, <2>1, HandleAssumption
         DEF WaitWithOutput, Usable, procVars, TypeOK, PidInv, OwnerInv, Owns,
             OnlyOwnKilled, Disciplined
    <2> QED
      BY <1>b, <2>1, <2>2, <2>3, <2>4 DEF HandleInv
  <1>11. ASSUME NEW h \in Handles, WaitReturns(h) PROVE HandleInv'
    <2>1. TypeOK'
      <3>1. CASE ReapPid(h) /\ waited' = [waited EXCEPT ![h] = TRUE]
                 /\ hs' = [hs EXCEPT ![h] = "cleanup"]
        BY <1>a, <1>11, <3>1
           DEF WaitReturns, ReapPid, FreePid, TypeOK, HandleStates, fixedVars
      <3>2. CASE DropFrom(h) /\ status' = [status EXCEPT ![h] = "err"]
                 /\ UNCHANGED <<procVars, waited>>
        BY <1>a, <1>11, <3>2
           DEF WaitReturns, DropFrom, procVars, TypeOK, HandleStates, fixedVars
      <3> QED
        BY <1>11, <3>1, <3>2 DEF WaitReturns
    <2>2. PidInv'
      BY <1>a, <1>11, <2>1, HandleAssumption
         DEF WaitReturns, DropFrom, Exited, Echild, ReapPid, FreePid, procVars, TypeOK,
             PidInv
    <2>3. DropInv'
      BY <1>a, <1>11, <2>1, <2>2, HandleAssumption
         DEF WaitReturns, DropFrom, Exited, Echild, ReapPid, FreePid, procVars, Running,
             TypeOK, PidInv, DropInv
    <2>4. Disciplined => OwnerInv'
      BY <1>a, <1>11, <2>1, HandleAssumption
         DEF WaitReturns, DropFrom, Exited, Echild, ReapPid, FreePid, procVars, TypeOK,
             PidInv, OwnerInv, Owns, OnlyOwnKilled, Disciplined
    <2> QED
      BY <1>b, <2>1, <2>2, <2>3, <2>4 DEF HandleInv
  <1>12. ASSUME NEW h \in Handles, Detach(h) PROVE HandleInv'
    <2>1. TypeOK'
      BY <1>a, <1>12, HandleAssumption
         DEF Detach, Usable, procVars, TypeOK, HandleStates, fixedVars, PidInv
    <2>2. PidInv'
      BY <1>a, <1>12, <2>1, HandleAssumption DEF Detach, Usable, procVars, TypeOK, PidInv
    <2>3. DropInv'
      BY <1>a, <1>12, <2>1, <2>2, HandleAssumption
         DEF Detach, Usable, procVars, Running, TypeOK, PidInv, DropInv
    <2>4. Disciplined => OwnerInv'
      BY <1>a, <1>12, <2>1, HandleAssumption
         DEF Detach, Usable, procVars, TypeOK, PidInv, OwnerInv, Owns, OnlyOwnKilled,
             Disciplined
    <2> QED
      BY <1>b, <2>1, <2>2, <2>3, <2>4 DEF HandleInv
  <1>13. ASSUME NEW h \in Handles, DropDetached(h) PROVE HandleInv'
    <2>1. TypeOK'
      BY <1>a, <1>13, HandleAssumption
         DEF DropDetached, Abandon, procVars, TypeOK, HandleStates, fixedVars, PidInv
    <2>2. PidInv'
      BY <1>a, <1>13, <2>1, HandleAssumption
         DEF DropDetached, Abandon, procVars, TypeOK, PidInv
    <2>3. DropInv'
      BY <1>a, <1>13, <2>1, <2>2, HandleAssumption
         DEF DropDetached, Abandon, procVars, Running, TypeOK, PidInv, DropInv
    <2>4. Disciplined => OwnerInv'
      BY <1>a, <1>13, <2>1, HandleAssumption
         DEF DropDetached, Abandon, procVars, TypeOK, PidInv, OwnerInv, Owns, OnlyOwnKilled,
             Disciplined
    <2> QED
      BY <1>b, <2>1, <2>2, <2>3, <2>4 DEF HandleInv
  <1>14. ASSUME NEW h \in Handles, Reap(h) PROVE HandleInv'
    <2>1. TypeOK'
      BY <1>a, <1>14, HandleAssumption
         DEF Reap, procVars, TypeOK, HandleStates, fixedVars, PidInv
    <2>2. PidInv'
      BY <1>a, <1>14, <2>1, HandleAssumption DEF Reap, procVars, TypeOK, PidInv
    <2>3. DropInv'
      BY <1>a, <1>14, <2>1, <2>2, HandleAssumption
         DEF Reap, procVars, Running, TypeOK, PidInv, DropInv
    <2>4. Disciplined => OwnerInv'
      BY <1>a, <1>14, <2>1, HandleAssumption
         DEF Reap, procVars, TypeOK, PidInv, OwnerInv, Owns, OnlyOwnKilled, Disciplined
    <2> QED
      BY <1>b, <2>1, <2>2, <2>3, <2>4 DEF HandleInv
  <1>15. ASSUME NEW h \in Handles, ReapReturns(h) PROVE HandleInv'
    <2>1. TypeOK'
      <3>1. CASE ReapPid(h) /\ hs' = [hs EXCEPT ![h] = "cleanup"] /\ UNCHANGED <<cg, dirs>>
        BY <1>a, <1>15, <3>1
           DEF ReapReturns, ReapPid, FreePid, TypeOK, HandleStates, fixedVars
      <3>2. CASE Abandon(h) /\ status' = [status EXCEPT ![h] = "err"] /\ UNCHANGED procVars
        BY <1>a, <1>15, <3>2
           DEF ReapReturns, Abandon, procVars, TypeOK, HandleStates, fixedVars
      <3> QED
        BY <1>15, <3>1, <3>2 DEF ReapReturns
    <2>2. PidInv'
      BY <1>a, <1>15, <2>1, HandleAssumption
         DEF ReapReturns, Abandon, Exited, Echild, ReapPid, FreePid, procVars, TypeOK,
             PidInv
    <2>3. DropInv'
      BY <1>a, <1>15, <2>1, <2>2, HandleAssumption
         DEF ReapReturns, Abandon, Exited, Echild, ReapPid, FreePid, procVars, Running,
             TypeOK, PidInv, DropInv
    <2>4. Disciplined => OwnerInv'
      BY <1>a, <1>15, <2>1, HandleAssumption
         DEF ReapReturns, Abandon, Exited, Echild, ReapPid, FreePid, procVars, TypeOK,
             PidInv, OwnerInv, Owns, OnlyOwnKilled, Disciplined
    <2> QED
      BY <1>b, <2>1, <2>2, <2>3, <2>4 DEF HandleInv
  <1>16. ASSUME NEW h \in Handles, CallerReaps(h) PROVE HandleInv'
    <2>1. TypeOK'
      BY <1>a, <1>16, HandleAssumption
         DEF CallerReaps, FreePid, TypeOK, HandleStates, fixedVars, PidInv
    <2>2. PidInv'
      BY <1>a, <1>16, <2>1, HandleAssumption DEF CallerReaps, FreePid, TypeOK, PidInv
    <2>3. DropInv'
      BY <1>a, <1>16, <2>1, <2>2, HandleAssumption
         DEF CallerReaps, FreePid, Running, TypeOK, PidInv, DropInv
    <2>4. Disciplined => OwnerInv'
      BY <1>a, <1>16, <2>1, HandleAssumption
         DEF CallerReaps, FreePid, TypeOK, PidInv, OwnerInv, Owns, OnlyOwnKilled,
             Disciplined
    <2> QED
      BY <1>b, <2>1, <2>2, <2>3, <2>4 DEF HandleInv
  <1>17. ASSUME NEW h \in Handles, DropKills(h) PROVE HandleInv'
    <2>1. TypeOK'
      BY <1>a, <1>17, HandleAssumption
         DEF DropKills, Signal, KillAll, SignalPid, Quiet, Running, TypeOK, HandleStates,
             fixedVars, PidInv
    <2>2. PidInv'
      BY <1>a, <1>17, <2>1, HandleAssumption
         DEF DropKills, Signal, KillAll, SignalPid, Quiet, Running, TypeOK, PidInv
    <2>3. DropInv'
      BY <1>a, <1>17, <2>1, <2>2, HandleAssumption
         DEF DropKills, Signal, KillAll, SignalPid, Quiet, Running, TypeOK, PidInv, DropInv
    <2>4. Disciplined => OwnerInv'
      BY <1>a, <1>17, <2>1, HandleAssumption
         DEF DropKills, Signal, KillAll, SignalPid, Quiet, Running, TypeOK, PidInv,
             OwnerInv, Owns, OnlyOwnKilled, Disciplined
    <2> QED
      BY <1>b, <2>1, <2>2, <2>3, <2>4 DEF HandleInv
  <1>18. ASSUME NEW h \in Handles, DropReaps(h) PROVE HandleInv'
    <2>1. TypeOK'
      <3>1. CASE Exited(h) /\ FreePid(pid[h])
        BY <1>a, <1>18, <3>1 DEF DropReaps, FreePid, TypeOK, HandleStates, fixedVars
      <3>2. CASE UNCHANGED procVars
        BY <1>a, <1>18, <3>2 DEF DropReaps, procVars, TypeOK, HandleStates, fixedVars
      <3> QED
        BY <1>18, <3>1, <3>2 DEF DropReaps
    <2>2. PidInv'
      BY <1>a, <1>18, <2>1, HandleAssumption
         DEF DropReaps, Exited, Echild, FreePid, procVars, TypeOK, PidInv
    <2>3. DropInv'
      BY <1>a, <1>18, <2>1, <2>2, HandleAssumption
         DEF DropReaps, Exited, Echild, FreePid, procVars, Running, TypeOK, PidInv, DropInv
    <2>4. Disciplined => OwnerInv'
      BY <1>a, <1>18, <2>1, HandleAssumption
         DEF DropReaps, Exited, Echild, FreePid, procVars, TypeOK, PidInv, OwnerInv, Owns,
             OnlyOwnKilled, Disciplined
    <2> QED
      BY <1>b, <2>1, <2>2, <2>3, <2>4 DEF HandleInv
  <1>19. ASSUME NEW h \in Handles, DropGivesUp(h) PROVE HandleInv'
    <2>1. TypeOK'
      BY <1>a, <1>19, HandleAssumption
         DEF DropGivesUp, procVars, TypeOK, HandleStates, fixedVars, PidInv
    <2>2. PidInv'
      BY <1>a, <1>19, <2>1, HandleAssumption DEF DropGivesUp, procVars, TypeOK, PidInv
    <2>3. DropInv'
      BY <1>a, <1>19, <2>1, <2>2, HandleAssumption
         DEF DropGivesUp, procVars, Running, TypeOK, PidInv, DropInv
    <2>4. Disciplined => OwnerInv'
      BY <1>a, <1>19, <2>1, HandleAssumption
         DEF DropGivesUp, procVars, TypeOK, PidInv, OwnerInv, Owns, OnlyOwnKilled,
             Disciplined
    <2> QED
      BY <1>b, <2>1, <2>2, <2>3, <2>4 DEF HandleInv
  <1>20. ASSUME NEW h \in Handles, CleanupKills(h) PROVE HandleInv'
    <2>1. TypeOK'
      BY <1>a, <1>20, HandleAssumption
         DEF CleanupKills, KillAll, SignalPid, Quiet, Running, TypeOK, HandleStates,
             fixedVars, PidInv
    <2>2. PidInv'
      BY <1>a, <1>20, <2>1, HandleAssumption
         DEF CleanupKills, KillAll, SignalPid, Quiet, Running, TypeOK, PidInv
    <2>3. DropInv'
      BY <1>a, <1>20, <2>1, <2>2, HandleAssumption
         DEF CleanupKills, KillAll, SignalPid, Quiet, Running, TypeOK, PidInv, DropInv
    <2>4. Disciplined => OwnerInv'
      BY <1>a, <1>20, <2>1, HandleAssumption
         DEF CleanupKills, KillAll, SignalPid, Quiet, Running, TypeOK, PidInv, OwnerInv,
             Owns, OnlyOwnKilled, Disciplined
    <2> QED
      BY <1>b, <2>1, <2>2, <2>3, <2>4 DEF HandleInv
  <1>21. ASSUME NEW h \in Handles, CleanupRemoves(h) PROVE HandleInv'
    <2>1. TypeOK'
      BY <1>a, <1>21, HandleAssumption
         DEF CleanupRemoves, Running, procVars, TypeOK, HandleStates, fixedVars, PidInv
    <2>2. PidInv'
      BY <1>a, <1>21, <2>1, HandleAssumption
         DEF CleanupRemoves, Running, procVars, TypeOK, PidInv
    <2>3. DropInv'
      BY <1>a, <1>21, <2>1, <2>2, HandleAssumption
         DEF CleanupRemoves, Running, procVars, TypeOK, PidInv, DropInv
    <2>4. Disciplined => OwnerInv'
      BY <1>a, <1>21, <2>1, HandleAssumption
         DEF CleanupRemoves, Running, procVars, TypeOK, PidInv, OwnerInv, Owns,
             OnlyOwnKilled, Disciplined
    <2> QED
      BY <1>b, <2>1, <2>2, <2>3, <2>4 DEF HandleInv
  <1> QED
    BY <1>1, <1>2, <1>3, <1>4, <1>5, <1>6, <1>7, <1>8, <1>9, <1>10, <1>11, <1>12, <1>13,
       <1>14, <1>15, <1>16, <1>17, <1>18, <1>19, <1>20, <1>21
       DEF Next, DropStep

(* The invariant of the handles, HandleInv of ChildHandle, holds in every  *)
(* reachable state: for every caller a process belongs to the handle that  *)
(* spawned it and a Drop does not pass its kill with that process alive;   *)
(* for disciplined callers no handle ever signals another's process.       *)
THEOREM HandlesKeepInv == Spec => []HandleInv
  <1>1. HandleInv /\ UNCHANGED vars => HandleInv'
    BY 
       DEF HandleInv, vars, TypeOK, PidInv, DropInv, OwnerInv, Owns, OnlyOwnKilled,
           Disciplined, Running
  <1>2. HandleInv /\ [Next]_vars => HandleInv'
    BY <1>1, HandleStep
  <1> QED
    BY HandleInit, <1>2, PTL DEF Spec

(* A Child that is gone has left no process that nothing will end.         *)
THEOREM GoneChildIsDead == Spec => []GoneNeverRuns
  <1>1. HandleInv => GoneNeverRuns
    BY DEF HandleInv, TypeOK, PidInv, DropInv, GoneNeverRuns
  <1> QED
    BY <1>1, HandlesKeepInv, PTL

(* For callers that leave a Child alone once it is waited for, and with    *)
(* delegated cgroups, no kill, Drop or cleanup signals another's process.  *)
THEOREM DisciplinedKillOwn == Spec => [](Disciplined => OnlyOwnKilled)
  <1>1. HandleInv => (Disciplined => OnlyOwnKilled)
    BY DEF HandleInv, OwnerInv
  <1> QED
    BY <1>1, HandlesKeepInv, PTL

-----------------------------------------------------------------------------
(* A handle that still owns its child has it behind its pid.               *)
LEMMA OwnedChild ==
  ASSUME HandleInv, Disciplined, NEW h \in Handles, Owns(h)
  PROVE  who[pid[h]] = h /\ ~Echild(h)
  BY DEF HandleInv, OwnerInv, Echild

(* The callers of waitpid own their child.                                 *)
LEMMA WaitersOwn ==
  ASSUME HandleInv, Disciplined, NEW h \in Handles,
         TryWait(h) \/ WaitReturns(h) \/ ReapReturns(h)
  PROVE  Owns(h)
  BY DEF TryWait, WaitReturns, ReapReturns, Usable, Owns, Disciplined

(* What a status becomes in a step of each kind.                           *)
LEMMA StatusStep ==
  ASSUME HandleInv, StatusIsOwn, Next PROVE StatusIsOwn'
  <1> SUFFICES ASSUME Disciplined, NEW g \in Handles PROVE status'[g] \in {"none", "own"}
    BY DEF StatusIsOwn, Disciplined, Next, fixedVars
  <1>a. /\ status \in [Handles -> {"none", "own", "other", "err"}]
        /\ status[g] \in {"none", "own"}
    BY DEF HandleInv, TypeOK, StatusIsOwn
  <1>1. CASE UNCHANGED status
    BY <1>1, <1>a
  <1>2. ASSUME NEW h \in Handles, TryWait(h) \/ WaitReturns(h) \/ ReapReturns(h)
        PROVE  status'[g] \in {"none", "own"}
    <2>1. who[pid[h]] = h /\ ~Echild(h)
      BY <1>2, OwnedChild, WaitersOwn
    <2>2. ReapPid(h)
      BY <1>2, <2>1 DEF TryWait, WaitReturns, ReapReturns
    <2>3. status' = [status EXCEPT ![h] = "own"]
      BY <2>1, <2>2 DEF ReapPid
    <2> QED
      BY <1>a, <2>3
  <1> QED
    BY <1>1, <1>2
       DEF Next, ForeignStarts, ForeignEnds, ProcessEnds, Spawn, TakePipes, Kill, Drop,
           Wait, WaitWithOutput, Detach, DropDetached, Reap, CallerReaps, DropStep,
           DropKills, DropReaps, DropGivesUp, CleanupKills, CleanupRemoves

(* Every status that try_wait, wait or reap gives a disciplined caller is  *)
(* the status of the caller's own child, however pids are recycled.        *)
THEOREM StatusBelongsToChild == Spec => []StatusIsOwn
  <1>1. Init => StatusIsOwn
    BY DEF Init, StatusIsOwn
  <1>2. StatusIsOwn /\ UNCHANGED vars => StatusIsOwn'
    BY DEF StatusIsOwn, Disciplined, vars
  <1>3. HandleInv /\ StatusIsOwn /\ [Next]_vars => StatusIsOwn'
    BY <1>2, StatusStep
  <1> QED
    BY <1>1, <1>3, HandlesKeepInv, PTL DEF Spec

-----------------------------------------------------------------------------
(* A step keeps every directory that a handle holds accounted for.         *)
LEMMA LeakStep ==
  ASSUME HandleInv, NoSilentLeak, Next PROVE NoSilentLeak'
  <1> SUFFICES ASSUME NEW p \in Pids, dirs'[p] = "held"
               PROVE  \E g \in Handles : cg'[g] /\ pid'[g] = p
    BY DEF NoSilentLeak
  <1>a. TypeOK /\ PidInv
    BY DEF HandleInv
  <1>1. CASE UNCHANGED <<dirs, cg, pid>>
    BY <1>1 DEF NoSilentLeak
  <1>2. ASSUME NEW h \in Handles, NEW q \in Pids, NEW limits \in BOOLEAN,
      NEW pipes \in BOOLEAN,
               Spawn(h, q, limits, pipes)
        PROVE  \E g \in Handles : cg'[g] /\ pid'[g] = p
    <2>1. CASE p = q /\ MakesCgroup(q, limits)
      BY <1>2, <1>a, <2>1 DEF Spawn, TypeOK
    <2>2. CASE ~(p = q /\ MakesCgroup(q, limits))
      <3>1. dirs[p] = "held"
        BY <1>2, <1>a, <2>2 DEF Spawn, TypeOK
      <3>2. PICK g \in Handles : cg[g] /\ pid[g] = p
        BY <3>1 DEF NoSilentLeak
      <3>3. g # h
        BY <1>2, <1>a, <3>2 DEF Spawn, PidInv
      <3> QED
        BY <1>2, <1>a, <3>2, <3>3 DEF Spawn, TypeOK
    <2> QED
      BY <2>1, <2>2
  <1>3. ASSUME NEW h \in Handles, CleanupRemoves(h) \/ Abandon(h), UNCHANGED pid
        PROVE  \E g \in Handles : cg'[g] /\ pid'[g] = p
    <2>1. dirs[p] = "held" /\ (cg[h] => p # pid[h])
      BY <1>3, <1>a DEF CleanupRemoves, Abandon, TypeOK, PidInv
    <2>2. PICK g \in Handles : cg[g] /\ pid[g] = p
      BY <2>1 DEF NoSilentLeak
    <2> QED
      BY <1>3, <1>a, <2>1, <2>2 DEF CleanupRemoves, Abandon, TypeOK
  <1> QED
    BY <1>1, <1>2, <1>3
       DEF Next, ForeignStarts, ForeignEnds, ProcessEnds, TakePipes, Kill, TryWait, Drop,
           Wait, WaitWithOutput, WaitReturns, Detach, DropDetached, Reap, ReapReturns,
           CallerReaps, DropStep, DropKills, DropReaps, DropGivesUp, CleanupKills,
           CleanupRemoves

(* A cgroup directory that no handle owns any more was abandoned by a      *)
(* detached child or could not be removed: none is forgotten.              *)
THEOREM DirectoriesHaveOwners == Spec => []NoSilentLeak
  <1>1. Init => NoSilentLeak
    BY DEF Init, NoSilentLeak
  <1>2. NoSilentLeak /\ UNCHANGED vars => NoSilentLeak'
    BY DEF NoSilentLeak, vars
  <1>3. HandleInv /\ NoSilentLeak /\ [Next]_vars => NoSilentLeak'
    BY <1>2, LeakStep
  <1> QED
    BY <1>1, <1>3, HandlesKeepInv, PTL DEF Spec

-----------------------------------------------------------------------------
(* A step that makes SIGKILL pending on a process of a disciplined caller  *)
(* is a kill or the drop of the handle that owns it.                       *)
LEMMA KilledByOwner ==
  ASSUME HandleInv, Disciplined, Next, NEW h \in Handles, who[pid[h]] = h,
         st[pid[h]] = "alive", st'[pid[h]] = "killed"
  PROVE  Kill(h) \/ DropKills(h) \/ CleanupKills(h)
  <1>a. TypeOK /\ PidInv /\ OwnerInv
    BY DEF HandleInv
  <1>1. PICK g \in Handles : Kill(g) \/ DropKills(g) \/ CleanupKills(g)
    BY <1>a
       DEF Next, ForeignStarts, ForeignEnds, ProcessEnds, Spawn, TakePipes, TryWait, Drop,
           Wait, WaitWithOutput, WaitReturns, Detach, DropDetached, Reap, ReapReturns,
           CallerReaps, DropStep, DropReaps, DropGivesUp, CleanupRemoves, FreePid, ReapPid,
           procVars, TypeOK
  <1>2. st'[pid[h]] = st[pid[h]] \/ (pid[g] = pid[h] /\ who[pid[g]] = g)
    BY <1>a, <1>1
       DEF Kill, DropKills, CleanupKills, Signal, KillAll, SignalPid, Quiet, Usable, Owns,
           OwnerInv, TypeOK, Disciplined
  <1> QED
    BY <1>1, <1>2

(* detach, and whatever other handles do afterwards, sends no SIGKILL to   *)
(* the detached child.                                                     *)
THEOREM DetachedChildSurvives == Spec => DetachSurvives
  <1>1. HandleInv /\ [Next]_vars =>
          [Disciplined =>
             \A h \in Handles :
               hs'[h] \in {"detached", "reaping", "abandoned"} /\ who[pid[h]] = h =>
                 ~(st[pid[h]] = "alive" /\ st'[pid[h]] = "killed")]_vars
    <2> SUFFICES ASSUME HandleInv, Next, Disciplined, NEW h \in Handles,
                        hs'[h] \in {"detached", "reaping", "abandoned"}, who[pid[h]] = h,
                        st[pid[h]] = "alive", st'[pid[h]] = "killed"
                 PROVE  FALSE
      OBVIOUS
    <2>1. Kill(h) \/ DropKills(h) \/ CleanupKills(h)
      BY KilledByOwner
    <2> QED
      BY <2>1 DEF Kill, DropKills, CleanupKills, Usable, HandleInv, TypeOK
  <1> QED
    BY <1>1, HandlesKeepInv, PTL DEF Spec, DetachSurvives
=============================================================================
