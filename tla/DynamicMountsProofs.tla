------------------------- MODULE DynamicMountsProofs -------------------------
(***************************************************************************)
(* Proofs about DynamicMounts, for any number of slots on the target, any  *)
(* errnos, and with or without a pidfd.                                    *)
(***************************************************************************)
EXTENDS DynamicMounts, FiniteSetTheorems, SequenceTheorems, TLAPS

(* The operation of a slot has had its effect and is not known to fail.    *)
Done(m) == helper[m] = "report" \/ (helper[m] = "exited" /\ byte[m] = 0)

(* The target carries a mount on account of slot m.                        *)
Mounted(m) ==
  IF op[m] = "add" THEN Done(m) \/ helper[m] \in {"protect", "rollback"}
  ELSE IF op[m] \in {"remove", "drop"} THEN ~Done(m)
  ELSE Present(m)

(* The permission that the mount of a slot has if no other slot works on   *)
(* the target.                                                             *)
PermNow(m) ==
  IF op[m] = "add" THEN Done(m) /\ m \in ReadOnly
  ELSE IF op[m] \in Remounts /\ Done(m) THEN op[m] = "remount_ro"
  ELSE perm[m]

(* What the state of a slot says of its operation and of the failure that  *)
(* its helper met.                                                         *)
OpInv(m) ==
  /\ op[m] = "add" => handle[m] = "none"
  /\ op[m] \in {"remove", "drop"} => handle[m] = "held"
  /\ handle[m] \in {"none", "removed"} => perm[m] = (m \in ReadOnly)
  /\ helper[m] \in {"move", "protect", "rollback"} => op[m] = "add"
  /\ helper[m] \in {"protect", "rollback"} => m \in ReadOnly
  /\ helper[m] = "setperm" => op[m] \in Remounts
  /\ helper[m] = "umount" => op[m] \in {"remove", "drop"}
  /\ m \notin users => Idle(m) /\ handle[m] = "none"

Errors == {Outcome("errno", e) : e \in Errnos}

ByteInv(m) ==
  /\ cause[m] \in {Success, Outcome("generic", 0)} \cup Errors
  /\ helper[m] \notin {"rollback", "exited"} => cause[m] = Success
  /\ helper[m] = "rollback" => cause[m] \in Errors
  /\ byte[m] # NoByte => byte[m] = Encode(cause[m])

(* As long as no operation lost its effect, the target has the mounts that *)
(* the slots account for.                                                  *)
CountInv == ~spoiled => Len(stack) = Cardinality({m \in Slots : Mounted(m)})

(* A slot that has the target to itself knows what is mounted on it.       *)
AloneInv(m) ==
  ~spoiled /\ users = {m} =>
    stack = IF Mounted(m) THEN <<[of |-> m, ro |-> PermNow(m)]>> ELSE <<>>

(* The inductive invariant                                                 *)
MountsInv ==
  TypeOK /\ (\A m \in Slots : OpInv(m) /\ ByteInv(m) /\ AloneInv(m)) /\ CountInv

-----------------------------------------------------------------------------
(* Mounts are stacked, with their owner and permission.                    *)
MountRecord == [of : Slots, ro : BOOLEAN]

(* move_mount puts one mount on top.                                       *)
LEMMA Pushed ==
  ASSUME NEW s \in Seq(MountRecord), NEW m \in Slots, NEW r \in BOOLEAN
  PROVE  /\ Append(s, [of |-> m, ro |-> r]) \in Seq(MountRecord)
         /\ Len(Append(s, [of |-> m, ro |-> r])) = Len(s) + 1
  BY DEF MountRecord

(* A prefix of a sequence is one of its length.                            *)
LEMMA Prefix ==
  ASSUME NEW S, NEW s \in Seq(S), NEW n \in 0..Len(s)
  PROVE  SubSeq(s, 1, n) \in Seq(S) /\ Len(SubSeq(s, 1, n)) = n
  OBVIOUS

(* umount2 takes the topmost mount.                                        *)
LEMMA Popped ==
  ASSUME NEW s \in Seq(MountRecord), s # <<>>
  PROVE  /\ Front(s) \in Seq(MountRecord)
         /\ Len(Front(s)) = Len(s) - 1
         /\ Len(s) = 1 => Front(s) = <<>>
  <1>1. Len(s) - 1 \in 0..Len(s) /\ Front(s) = SubSeq(s, 1, Len(s) - 1)
    BY EmptySeq DEF Front
  <1>2. Front(s) \in Seq(MountRecord) /\ Len(Front(s)) = Len(s) - 1
    BY <1>1, Prefix
  <1>3. Len(s) = 1 => Front(s) = <<>>
    BY <1>2, EmptySeq
  <1> QED
    BY <1>2, <1>3

(* A remount changes the permission of the topmost mount only.             *)
LEMMA TopSet ==
  ASSUME NEW s \in Seq(MountRecord), s # <<>>, NEW r \in BOOLEAN
  PROVE  /\ SetTop(s, r) \in Seq(MountRecord)
         /\ Len(SetTop(s, r)) = Len(s)
         /\ \A m \in Slots, q \in BOOLEAN :
              s = <<[of |-> m, ro |-> q]>> => SetTop(s, r) = <<[of |-> m, ro |-> r]>>
  <1> DEFINE top == [s[Len(s)] EXCEPT !.ro = r]
  <1>1. Len(s) \in 1..Len(s)
    BY EmptySeq
  <1>2. top \in MountRecord
    <2>1. s[Len(s)] \in MountRecord
      BY <1>1, ElementOfSeq
    <2> QED
      BY <2>1 DEF MountRecord
  <1>3. SetTop(s, r) = [s EXCEPT ![Len(s)] = top]
    BY DEF SetTop
  <1> HIDE DEF top
  <1>4. /\ SetTop(s, r) \in Seq(MountRecord) /\ Len(SetTop(s, r)) = Len(s)
        /\ \A j \in 1..Len(s) : SetTop(s, r)[j] = IF j = Len(s) THEN top ELSE s[j]
    BY <1>1, <1>2, <1>3, ExceptSeq
  <1>5. ASSUME NEW m \in Slots, NEW q \in BOOLEAN, s = <<[of |-> m, ro |-> q]>>
        PROVE  SetTop(s, r) = <<[of |-> m, ro |-> r]>>
    <2> DEFINE t == <<[of |-> m, ro |-> r]>>
    <2>1. Len(s) = 1 /\ top = [of |-> m, ro |-> r]
      BY <1>5 DEF top
    <2>2. t \in Seq(MountRecord) /\ Len(t) = 1 /\ t[1] = [of |-> m, ro |-> r]
      BY DEF MountRecord
    <2> HIDE DEF t
    <2>3. \A i \in 1..Len(SetTop(s, r)) : SetTop(s, r)[i] = t[i]
      BY <1>4, <2>1, <2>2
    <2>4. SetTop(s, r) = t
      BY <1>4, <2>1, <2>2, <2>3, SeqEqual
    <2> QED
      BY <2>4 DEF t
  <1> QED
    BY <1>4, <1>5

(* The status byte tells success from failure, and one errno from another. *)
LEMMA Coding ==
  ASSUME NEW c \in {Success, Outcome("generic", 0)} \cup Errors
  PROVE  Encode(c) \in 0..255 /\ Decode(Encode(c)) = c /\ (Encode(c) = 0 <=> c = Success)
  <1>1. CASE c = Success
    BY <1>1 DEF Encode, Decode, Success, Outcome
  <1>2. CASE c = Outcome("generic", 0)
    BY <1>2 DEF Encode, Decode, Success, Outcome
  <1>3. CASE c \in Errors
    <2>1. PICK e \in Errnos : c = Outcome("errno", e)
      BY <1>3 DEF Errors
    <2>2. e \in 1..253 /\ c.kind = "errno" /\ c.errno = e
      BY <2>1, MountAssumption DEF Outcome
    <2>3. Encode(c) = e + 2
      BY <2>2 DEF Encode
    <2>4. Decode(Encode(c)) = Outcome("errno", e)
      BY <2>2, <2>3 DEF Decode
    <2>5. c # Success
      BY <2>1 DEF Success, Outcome
    <2> QED
      BY <2>1, <2>2, <2>3, <2>4, <2>5
  <1> QED
    BY <1>1, <1>2, <1>3

-----------------------------------------------------------------------------
(* A step of slot m leaves the state of the others alone.                  *)
OthersKept(m) ==
  \A n \in Slots \ {m} :
    /\ handle'[n] = handle[n] /\ perm'[n] = perm[n] /\ op'[n] = op[n]
    /\ helper'[n] = helper[n] /\ byte'[n] = byte[n] /\ cause'[n] = cause[n]

(* The stack grows and shrinks with what slot m accounts for.              *)
Accounted(m) ==
  ~spoiled' =>
    /\ ~spoiled
    /\ \/ (Mounted(m)' <=> Mounted(m)) /\ Len(stack') = Len(stack)
       \/ ~Mounted(m) /\ Mounted(m)' /\ Len(stack') = Len(stack) + 1
       \/ Mounted(m) /\ ~Mounted(m)' /\ Len(stack') = Len(stack) - 1

(* Then the stack still has the mounts that the slots account for.         *)
LEMMA Counted ==
  ASSUME CountInv, TypeOK, NEW m \in Slots, OthersKept(m), Accounted(m)
  PROVE  CountInv'
  <1> DEFINE S == {n \in Slots : Mounted(n)}
             T == {n \in Slots : Mounted(n)'}
  <1> SUFFICES ASSUME ~spoiled' PROVE Len(stack') = Cardinality(T)
    BY DEF CountInv
  <1>1. IsFiniteSet(S) /\ Cardinality(S) \in Nat
    BY MountAssumption, FS_Subset, FS_CardinalityType
  <1>2. \A n \in Slots \ {m} : (Mounted(n)' <=> Mounted(n))
    BY DEF OthersKept, Mounted, Done, Present
  <1>3. Len(stack) = Cardinality(S)
    BY DEF Accounted, CountInv
  <1>4. CASE (Mounted(m)' <=> Mounted(m)) /\ Len(stack') = Len(stack)
    <2>1. T = S
      BY <1>2, <1>4
    <2> QED
      BY <2>1, <1>3, <1>4
  <1>5. CASE ~Mounted(m) /\ Mounted(m)' /\ Len(stack') = Len(stack) + 1
    <2>1. T = S \cup {m} /\ m \notin S
      BY <1>2, <1>5
    <2>2. Cardinality(S \cup {m}) = Cardinality(S) + 1
      BY <1>1, <2>1, FS_AddElement
    <2> QED
      BY <2>1, <2>2, <1>3, <1>5
  <1>6. CASE Mounted(m) /\ ~Mounted(m)' /\ Len(stack') = Len(stack) - 1
    <2>1. T = S \ {m} /\ m \in S
      BY <1>2, <1>6
    <2>2. Cardinality(S \ {m}) = Cardinality(S) - 1
      BY <1>1, <2>1, FS_RemoveElement
    <2> QED
      BY <2>1, <2>2, <1>3, <1>6
  <1> QED
    BY <1>4, <1>5, <1>6 DEF Accounted

(* A step of a slot that works on the target is safe if it is accounted    *)
(* for and keeps what the invariant says of that slot.                     *)
LEMMA Locality ==
  ASSUME MountsInv, NEW m \in users, UNCHANGED users, OthersKept(m), Accounted(m),
         TypeOK', OpInv(m)', ByteInv(m)', AloneInv(m)'
  PROVE  MountsInv'
  <1>a. m \in Slots
    BY DEF MountsInv, TypeOK
  <1>1. ASSUME NEW n \in Slots PROVE OpInv(n)' /\ ByteInv(n)' /\ AloneInv(n)'
    <2>1. CASE n = m
      BY <2>1
    <2>2. CASE n # m
      <3>1. OpInv(n)'
        BY <2>2 DEF MountsInv, OpInv, OthersKept, Idle
      <3>2. ByteInv(n)'
        BY <2>2 DEF MountsInv, ByteInv, OthersKept
      <3>3. AloneInv(n)'
        BY <2>2 DEF AloneInv
      <3> QED
        BY <3>1, <3>2, <3>3
    <2> QED
      BY <2>1, <2>2
  <1>2. CountInv'
    BY <1>a, Counted DEF MountsInv
  <1> QED
    BY <1>1, <1>2 DEF MountsInv

-----------------------------------------------------------------------------
(* The host starts an operation: nothing is accounted for yet.             *)
LEMMA StartKeeps ==
  ASSUME MountsInv, NEW m \in users, NEW o \in Operations, Idle(m), Start(m, o),
         o = "add" => handle[m] = "none",
         o \in {"remove", "drop"} => handle[m] = "held"
  PROVE  MountsInv'
  <1>a. m \in Slots /\ TypeOK /\ OpInv(m) /\ ByteInv(m) /\ AloneInv(m)
    BY DEF MountsInv, TypeOK
  <1>b. /\ handle' = handle /\ perm' = perm /\ byte' = byte /\ cause' = cause
        /\ users' = users /\ stack' = stack /\ spoiled' = spoiled /\ leaked' = leaked
        /\ reaped' = reaped
        /\ op' = [op EXCEPT ![m] = o] /\ helper' = [helper EXCEPT ![m] = "enter"]
    BY DEF Start, handleVars
  <1>c. op'[m] = o /\ helper'[m] = "enter" /\ helper[m] = "none" /\ op[m] = "none"
    BY <1>a, <1>b DEF TypeOK, Idle
  <1>1. TypeOK'
    BY <1>a, <1>b, <1>c DEF TypeOK, Operations, Remounts, Idle, NoByte
  <1>2. OthersKept(m)
    BY <1>a, <1>b DEF OthersKept, TypeOK
  <1>3. OpInv(m)' /\ ByteInv(m)'
    BY <1>a, <1>b, <1>c DEF OpInv, ByteInv, Idle, TypeOK
  <1>4. (Mounted(m)' <=> Mounted(m)) /\ (Mounted(m) => PermNow(m)' = PermNow(m))
    <2>1. ~Done(m) /\ ~Done(m)'
      BY <1>c DEF Done
    <2>2. Present(m)' = Present(m) /\ Mounted(m) = Present(m) /\ PermNow(m) = perm[m]
      BY <1>b, <1>c, <2>1, Zenon DEF Present, Mounted, PermNow, Remounts
    <2>3. CASE o = "add"
      BY <1>b, <1>c, <2>1, <2>2, <2>3 DEF Mounted, Present
    <2>4. CASE o \in {"remove", "drop"}
      BY <1>b, <1>c, <2>1, <2>2, <2>4 DEF Mounted, PermNow, Present, Remounts
    <2>5. CASE o \in Remounts
      BY <1>b, <1>c, <2>1, <2>2, <2>5 DEF Mounted, PermNow, Present, Remounts
    <2> QED
      BY <2>3, <2>4, <2>5 DEF Operations
  <1>5. Accounted(m) /\ AloneInv(m)'
    BY <1>a, <1>b, <1>4 DEF Accounted, AloneInv
  <1> QED
    BY <1>b, <1>1, <1>2, <1>3, <1>5, Locality

(* A drop that needs no helper had no mount, or spoils the target.         *)
LEMMA DropEarlyKeeps ==
  ASSUME MountsInv, NEW m \in users, DropEarly(m)
  PROVE  MountsInv'
  <1>a. m \in Slots /\ TypeOK /\ OpInv(m) /\ ByteInv(m) /\ AloneInv(m)
    BY DEF MountsInv, TypeOK
  <1>b. /\ handle' = [handle EXCEPT ![m] = "none"] /\ perm' = [perm EXCEPT ![m] = m \in ReadOnly]
        /\ op' = op /\ helper' = helper /\ byte' = byte /\ cause' = cause
        /\ users' = users /\ stack' = stack /\ leaked' = leaked /\ reaped' = reaped
        /\ op[m] = "none"
        /\ spoiled' = (spoiled \/ handle[m] = "held")
        /\ handle[m] \in {"held", "removed"}
    BY DEF DropEarly, helperVars, Idle
  <1>1. TypeOK'
    BY <1>a, <1>b DEF TypeOK, Idle
  <1>2. OthersKept(m)
    BY <1>a, <1>b DEF OthersKept, TypeOK
  <1>3. OpInv(m)' /\ ByteInv(m)'
    BY <1>a, <1>b DEF OpInv, ByteInv, Idle, TypeOK
  <1>4. ~spoiled' => ~Mounted(m)' /\ ~Mounted(m) /\ ~spoiled
    BY <1>a, <1>b DEF Mounted, Done, Present, TypeOK
  <1>5. Accounted(m) /\ AloneInv(m)'
    BY <1>a, <1>b, <1>4 DEF Accounted, AloneInv
  <1> QED
    BY <1>b, <1>1, <1>2, <1>3, <1>5, Locality

(* detach keeps the mount.                                                 *)
LEMMA DetachKeeps ==
  ASSUME MountsInv, NEW m \in users, Detach(m)
  PROVE  MountsInv'
  <1>a. m \in Slots /\ TypeOK /\ OpInv(m) /\ ByteInv(m) /\ AloneInv(m)
    BY DEF MountsInv, TypeOK
  <1>b. /\ handle' = [handle EXCEPT ![m] = "detached"] /\ perm' = perm
        /\ op' = op /\ helper' = helper /\ byte' = byte /\ cause' = cause
        /\ users' = users /\ stack' = stack /\ leaked' = leaked /\ reaped' = reaped
        /\ spoiled' = spoiled /\ op[m] = "none" /\ handle[m] = "held"
    BY DEF Detach, helperVars, Idle
  <1>1. TypeOK'
    BY <1>a, <1>b DEF TypeOK, Idle
  <1>2. OthersKept(m)
    BY <1>a, <1>b DEF OthersKept, TypeOK
  <1>3. OpInv(m)' /\ ByteInv(m)'
    BY <1>a, <1>b DEF OpInv, ByteInv, Idle, TypeOK
  <1>4. Mounted(m)' /\ Mounted(m) /\ PermNow(m)' = PermNow(m)
    BY <1>a, <1>b DEF Mounted, PermNow, Done, Present, TypeOK, Remounts
  <1>5. Accounted(m) /\ AloneInv(m)'
    BY <1>a, <1>b, <1>4 DEF Accounted, AloneInv
  <1> QED
    BY <1>b, <1>1, <1>2, <1>3, <1>5, Locality

-----------------------------------------------------------------------------
(* A step of the helper, which leaves the handle and the operation alone.  *)
HelperOnly(m) ==
  /\ handle' = handle /\ perm' = perm /\ op' = op /\ users' = users /\ reaped' = reaped

(* A system call of the helper succeeds: the stack changes by what the     *)
(* slot accounts for.                                                      *)
LEMMA HelperSucceedsKeeps ==
  ASSUME MountsInv, NEW m \in users, HelperSucceeds(m)
  PROVE  MountsInv'
  <1>a. m \in Slots /\ TypeOK /\ OpInv(m) /\ ByteInv(m) /\ AloneInv(m)
    BY DEF MountsInv, TypeOK
  <1>b. /\ HelperOnly(m) /\ byte' = byte /\ cause' = cause /\ leaked' = leaked
        /\ spoiled' = spoiled
        /\ helper' = [helper EXCEPT ![m] = StepAfter(m)] /\ stack' = Effect(m, stack)
        /\ ~NothingThere(m)
    BY DEF HelperSucceeds, HelperOnly, handleVars
  <1>c. helper[m] \in {"enter", "move", "setperm", "umount", "protect"}
    BY DEF HelperSucceeds, Running
  <1>d. byte[m] = NoByte /\ ~leaked[m] /\ op[m] # "none" /\ cause[m] = Success
    BY <1>a, <1>c DEF TypeOK, Idle, ByteInv
  <1>e. stack \in Seq(MountRecord) /\ op[m] \in Operations
    BY <1>a, <1>d DEF TypeOK, MountRecord
  <1>f. ~Done(m) /\ helper'[m] = StepAfter(m)
    BY <1>a, <1>b, <1>c DEF Done, TypeOK
  <1>g. StepAfter(m) \in {"move", "setperm", "umount", "protect", "report"}
    BY DEF StepAfter, MainStep
  <1>1. OthersKept(m)
    BY <1>a, <1>b DEF OthersKept, TypeOK, HelperOnly
  <1>2. ASSUME stack' \in Seq(MountRecord)
        PROVE  TypeOK'
    BY <1>a, <1>b, <1>c, <1>d, <1>g, <1>2 DEF TypeOK, HelperOnly, Idle, MountRecord
  <1>3. ASSUME TypeOK', OpInv(m)', Accounted(m), AloneInv(m)'
        PROVE  MountsInv'
    <2>1. ByteInv(m)'
      BY <1>a, <1>b, <1>d, <1>f, <1>g DEF ByteInv, TypeOK
    <2> QED
      BY <1>b, <1>1, <1>3, <2>1, Locality DEF HelperOnly
  <1>4. CASE helper[m] = "enter"
    <2>1. StepAfter(m) = MainStep(m) /\ stack' = stack
      BY <1>b, <1>4 DEF StepAfter, Effect
    <2>2. /\ op[m] = "add" => MainStep(m) = "move"
          /\ op[m] \in Remounts => MainStep(m) = "setperm"
          /\ op[m] \in {"remove", "drop"} => MainStep(m) = "umount"
      BY DEF MainStep, Remounts
    <2>3. op[m] \in {"add", "remove", "drop"} \cup Remounts
      BY <1>e DEF Operations
    <2>4. TypeOK'
      BY <1>2, <1>e, <2>1
    <2>5. OpInv(m)'
      BY <1>a, <1>b, <1>f, <2>1, <2>2, <2>3 DEF OpInv, HelperOnly, Idle, Remounts
    <2>6. ~Done(m)' /\ helper[m] \notin {"protect", "rollback"}
          /\ helper'[m] \notin {"protect", "rollback"}
      BY <1>4, <1>f, <2>1, <2>2, <2>3 DEF Done
    <2>7. (Mounted(m)' <=> Mounted(m)) /\ PermNow(m)' = PermNow(m)
      BY <1>b, <1>f, <2>6 DEF Mounted, PermNow, HelperOnly, Present
    <2>8. Accounted(m) /\ AloneInv(m)'
      BY <1>a, <1>b, <2>1, <2>7 DEF Accounted, AloneInv, HelperOnly
    <2> QED
      BY <1>3, <2>4, <2>5, <2>8
  <1>5. CASE helper[m] = "move"
    <2>1. op[m] = "add" /\ stack' = Append(stack, [of |-> m, ro |-> FALSE])
      BY <1>a, <1>b, <1>5 DEF OpInv, Effect
    <2>2. StepAfter(m) = IF m \in ReadOnly THEN "protect" ELSE "report"
      BY <1>5 DEF StepAfter
    <2>3. stack' \in Seq(MountRecord) /\ Len(stack') = Len(stack) + 1
      BY <1>a, <1>e, <2>1, Pushed
    <2>4. TypeOK'
      BY <1>2, <2>3
    <2>5. OpInv(m)'
      BY <1>a, <1>b, <1>f, <2>1, <2>2 DEF OpInv, HelperOnly, Idle
    <2>6. ~Mounted(m) /\ Mounted(m)' /\ PermNow(m)' = FALSE
      BY <1>5, <1>b, <1>f, <2>1, <2>2 DEF Mounted, PermNow, HelperOnly, Done
    <2>7. Accounted(m)
      BY <1>b, <2>3, <2>6 DEF Accounted
    <2>8. AloneInv(m)'
      <3>1. Append(<<>>, [of |-> m, ro |-> FALSE]) = <<[of |-> m, ro |-> FALSE]>>
        OBVIOUS
      <3> QED
        BY <1>a, <1>b, <2>1, <2>6, <3>1 DEF AloneInv, HelperOnly
    <2> QED
      BY <1>3, <2>4, <2>5, <2>7, <2>8
  <1>6. CASE helper[m] = "protect"
    <2>1. op[m] = "add" /\ m \in ReadOnly /\ stack # <<>> /\ stack' = SetTop(stack, TRUE)
      BY <1>a, <1>b, <1>6 DEF OpInv, Effect, NothingThere
    <2>2. StepAfter(m) = "report"
      BY <1>6 DEF StepAfter
    <2>3. /\ stack' \in Seq(MountRecord) /\ Len(stack') = Len(stack)
          /\ \A q \in BOOLEAN : stack = <<[of |-> m, ro |-> q]>>
                                  => stack' = <<[of |-> m, ro |-> TRUE]>>
      BY <1>a, <1>e, <2>1, TopSet, ZenonT(60)
    <2>4. TypeOK'
      BY <1>2, <2>3
    <2>5. OpInv(m)'
      BY <1>a, <1>b, <1>f, <2>1, <2>2 DEF OpInv, HelperOnly, Idle
    <2>6. Mounted(m) /\ Mounted(m)' /\ PermNow(m)' = TRUE /\ PermNow(m) \in BOOLEAN
      <3>1. op'[m] = "add" /\ Done(m)'
        BY <1>b, <1>f, <2>1, <2>2 DEF HelperOnly, Done
      <3>2. Mounted(m) /\ Mounted(m)'
        BY <1>6, <2>1, <3>1 DEF Mounted
      <3>3. PermNow(m)' = (Done(m)' /\ m \in ReadOnly)
            /\ PermNow(m) = (Done(m) /\ m \in ReadOnly)
        BY <2>1, <3>1, Zenon DEF PermNow
      <3> QED
        BY <2>1, <3>1, <3>2, <3>3, Zenon
    <2>7. Accounted(m)
      BY <1>b, <2>3, <2>6 DEF Accounted
    <2>8. AloneInv(m)'
      BY <1>a, <1>b, <2>3, <2>6 DEF AloneInv, HelperOnly
    <2> QED
      BY <1>3, <2>4, <2>5, <2>7, <2>8
  <1>7. CASE helper[m] = "setperm"
    <2>1. /\ op[m] \in Remounts /\ stack # <<>>
          /\ stack' = SetTop(stack, op[m] = "remount_ro")
      BY <1>a, <1>b, <1>7 DEF OpInv, Effect, NothingThere
    <2>2. StepAfter(m) = "report"
      BY <1>7 DEF StepAfter
    <2>3. /\ stack' \in Seq(MountRecord) /\ Len(stack') = Len(stack)
          /\ \A q \in BOOLEAN : stack = <<[of |-> m, ro |-> q]>>
                                  => stack' = <<[of |-> m, ro |-> (op[m] = "remount_ro")]>>
      BY <1>a, <1>e, <2>1, TopSet
    <2>4. TypeOK'
      BY <1>2, <2>3
    <2>5. OpInv(m)'
      BY <1>a, <1>b, <1>f, <2>1, <2>2 DEF OpInv, HelperOnly, Idle
    <2>6. /\ Mounted(m)' <=> Mounted(m)
          /\ PermNow(m)' = (op[m] = "remount_ro") /\ PermNow(m) \in BOOLEAN
      BY <1>a, <1>b, <1>f, <2>1, <2>2
         DEF Mounted, Present, PermNow, HelperOnly, Done, Remounts, TypeOK
    <2>7. Accounted(m)
      BY <1>b, <2>3, <2>6 DEF Accounted
    <2>8. AloneInv(m)'
      BY <1>a, <1>b, <2>1, <2>3, <2>6 DEF AloneInv, HelperOnly
    <2> QED
      BY <1>3, <2>4, <2>5, <2>7, <2>8
  <1>8. CASE helper[m] = "umount"
    <2>1. op[m] \in {"remove", "drop"} /\ stack # <<>> /\ stack' = Front(stack)
      BY <1>a, <1>b, <1>8 DEF OpInv, Effect, NothingThere
    <2>2. StepAfter(m) = "report"
      BY <1>8 DEF StepAfter
    <2>3. /\ stack' \in Seq(MountRecord) /\ Len(stack') = Len(stack) - 1
          /\ Len(stack) = 1 => stack' = <<>>
      BY <1>e, <2>1, Popped
    <2>4. TypeOK'
      BY <1>2, <2>3
    <2>5. OpInv(m)'
      BY <1>a, <1>b, <1>f, <2>1, <2>2 DEF OpInv, HelperOnly, Idle
    <2>6. Mounted(m) /\ ~Mounted(m)'
      BY <1>b, <1>f, <2>1, <2>2 DEF Mounted, HelperOnly, Done
    <2>7. Accounted(m)
      BY <1>b, <2>3, <2>6 DEF Accounted
    <2>8. AloneInv(m)'
      BY <1>a, <1>b, <2>3, <2>6 DEF AloneInv, HelperOnly
    <2> QED
      BY <1>3, <2>4, <2>5, <2>7, <2>8
  <1> QED
    BY <1>c, <1>4, <1>5, <1>6, <1>7, <1>8

(* A helper that ends with byte b in the pipe, or with none.               *)
LEMMA HelperEnds ==
  ASSUME MountsInv, NEW m \in users, HelperOnly(m), helper[m] \notin {"none", "exited"},
         helper' = [helper EXCEPT ![m] = "exited"],
         NEW b \in -1..255, byte' = [byte EXCEPT ![m] = b],
         NEW c \in {Success, Outcome("generic", 0)} \cup Errors,
         cause' = [cause EXCEPT ![m] = c], b # NoByte => b = Encode(c),
         leaked' \in {leaked, [leaked EXCEPT ![m] = TRUE]},
         stack' \in Seq(MountRecord), spoiled' \in BOOLEAN,
         Accounted(m), AloneInv(m)'
  PROVE  MountsInv'
  <1>a. m \in Slots /\ TypeOK /\ OpInv(m) /\ ByteInv(m) /\ AloneInv(m)
    BY DEF MountsInv, TypeOK
  <1>1. OthersKept(m)
    BY <1>a DEF OthersKept, TypeOK, HelperOnly
  <1>2. helper'[m] = "exited" /\ byte'[m] = b /\ cause'[m] = c /\ op'[m] # "none"
    BY <1>a DEF TypeOK, HelperOnly, Idle
  <1>3. TypeOK'
    <2>1. cause' \in [Slots -> [kind : {"ok", "generic", "errno"}, errno : Errnos \cup {0}]]
      BY <1>a DEF TypeOK, Success, Outcome, Errors
    <2>2. byte' \in [Slots -> -1..255] /\ leaked' \in [Slots -> BOOLEAN]
      BY <1>a DEF TypeOK
    <2>3. \A n \in Slots : Idle(n)' <=> helper'[n] = "none"
      BY <1>a, <1>1, <1>2 DEF TypeOK, OthersKept, Idle
    <2>4. \A n \in Slots : byte'[n] # NoByte \/ leaked'[n] => helper'[n] = "exited"
      BY <1>a, <1>1, <1>2 DEF TypeOK, OthersKept
    <2> QED
      BY <1>a, <2>1, <2>2, <2>3, <2>4 DEF TypeOK, HelperOnly, MountRecord
  <1>4. OpInv(m)' /\ ByteInv(m)'
    BY <1>a, <1>2 DEF OpInv, ByteInv, HelperOnly, Idle
  <1> QED
    BY <1>1, <1>3, <1>4, Locality DEF HelperOnly

(* A system call of the helper fails: the mounts stay as they are, and the *)
(* failure is reported or, after the mount was made, rolled back first.    *)
LEMMA HelperFailsKeeps ==
  ASSUME MountsInv, NEW m \in users, HelperFails(m)
  PROVE  MountsInv'
  <1>a. m \in Slots /\ TypeOK /\ OpInv(m) /\ ByteInv(m) /\ AloneInv(m)
    BY DEF MountsInv, TypeOK
  <1>b. HelperOnly(m) /\ stack' = stack /\ leaked' = leaked /\ spoiled' = spoiled
    BY DEF HelperFails, HelperOnly, handleVars
  <1>c. helper[m] \in {"enter", "move", "setperm", "umount", "protect"}
    BY DEF HelperFails, Running
  <1>d. PICK c \in Failures(m) :
          /\ cause' = [cause EXCEPT ![m] = c]
          /\ IF helper[m] = "protect"
             THEN helper' = [helper EXCEPT ![m] = "rollback"] /\ byte' = byte
             ELSE Report(m, c)
    BY DEF HelperFails
  <1>e. c \in {Outcome("generic", 0)} \cup Errors /\ (helper[m] = "protect" => c \in Errors)
    BY <1>d, MountAssumption DEF Failures, Errors
  <1>f. Encode(c) \in 1..255
    <2>1. c # Success
      BY <1>e DEF Errors, Outcome, Success
    <2> QED
      BY <1>e, <2>1, Coding
  <1>g. byte[m] = NoByte /\ ~leaked[m] /\ op[m] # "none" /\ ~Done(m)
    BY <1>a, <1>c DEF TypeOK, Idle, Done
  <1>1. ASSUME ~Done(m)',
               helper'[m] \in {"protect", "rollback"}
                 <=> helper[m] \in {"protect", "rollback"}
        PROVE  Accounted(m) /\ AloneInv(m)'
    <2>1. (Mounted(m)' <=> Mounted(m)) /\ PermNow(m)' = PermNow(m)
      BY <1>b, <1>g, <1>1 DEF Mounted, PermNow, Present, HelperOnly
    <2> QED
      BY <1>a, <1>b, <2>1 DEF Accounted, AloneInv, HelperOnly
  <1>2. CASE helper[m] = "protect"
    <2>1. helper' = [helper EXCEPT ![m] = "rollback"] /\ byte' = byte /\ c \in Errors
      BY <1>2, <1>d, <1>e
    <2>2. helper'[m] = "rollback" /\ cause'[m] = c /\ ~Done(m)'
      BY <1>a, <1>d, <2>1 DEF TypeOK, Done
    <2>3. OthersKept(m)
      BY <1>a, <1>b, <1>d, <2>1 DEF OthersKept, TypeOK, HelperOnly
    <2>4. TypeOK'
      <3>1. cause' \in [Slots -> [kind : {"ok", "generic", "errno"},
          errno : Errnos \cup {0}]]
        BY <1>a, <1>d, <2>1 DEF TypeOK, Errors, Outcome
      <3> QED
        BY <1>a, <1>b, <1>g, <2>1, <3>1 DEF TypeOK, HelperOnly, Idle
    <2>5. OpInv(m)' /\ ByteInv(m)'
      BY <1>2, <1>a, <1>b, <1>g, <2>1, <2>2 DEF OpInv, ByteInv, HelperOnly, Idle
    <2>6. Accounted(m) /\ AloneInv(m)'
      BY <1>1, <1>2, <2>2
    <2> QED
      BY <1>b, <2>3, <2>4, <2>5, <2>6, Locality DEF HelperOnly
  <1>3. CASE helper[m] # "protect"
    <2>1. byte' = [byte EXCEPT ![m] = Encode(c)] /\ helper' = [helper EXCEPT ![m] = "exited"]
      BY <1>3, <1>d DEF Report
    <2>2. byte'[m] = Encode(c) /\ helper'[m] = "exited"
      BY <1>a, <2>1 DEF TypeOK
    <2>3. ~Done(m)'
      BY <1>f, <2>2 DEF Done
    <2>4. Accounted(m) /\ AloneInv(m)'
      BY <1>1, <1>3, <1>c, <2>2, <2>3
    <2>5. stack' \in Seq(MountRecord) /\ spoiled' \in BOOLEAN /\ Encode(c) \in -1..255
          /\ c \in {Success, Outcome("generic", 0)} \cup Errors
          /\ helper[m] \notin {"none", "exited"}
          /\ leaked' \in {leaked, [leaked EXCEPT ![m] = TRUE]}
      BY <1>a, <1>b, <1>c, <1>e, <1>f DEF TypeOK, MountRecord
    <2> QED
      BY <1>b, <1>d, <2>1, <2>4, <2>5, HelperEnds
  <1> QED
    BY <1>2, <1>3

(* The rollback takes the mount back, and the failure is still the one of  *)
(* the remount.                                                            *)
LEMMA RollbackKeeps ==
  ASSUME MountsInv, NEW m \in users, Rollback(m) \/ RollbackFails(m)
  PROVE  MountsInv'
  <1>a. m \in Slots /\ TypeOK /\ OpInv(m) /\ ByteInv(m) /\ AloneInv(m)
    BY DEF MountsInv, TypeOK
  <1>b. /\ HelperOnly(m) /\ cause' = cause /\ leaked' = leaked /\ helper[m] = "rollback"
        /\ byte' = [byte EXCEPT ![m] = Encode(cause[m])]
        /\ helper' = [helper EXCEPT ![m] = "exited"]
    BY DEF Rollback, RollbackFails, Report, HelperOnly, handleVars
  <1>c. cause[m] \in Errors /\ op[m] = "add"
    BY <1>a, <1>b DEF ByteInv, OpInv
  <1>d. Encode(cause[m]) \in 1..255
    <2>1. cause[m] # Success
      BY <1>c DEF Errors, Outcome, Success
    <2> QED
      BY <1>c, <2>1, Coding
  <1>e. byte'[m] = Encode(cause[m]) /\ helper'[m] = "exited"
    BY <1>a, <1>b DEF TypeOK
  <1>1. Mounted(m) /\ ~Mounted(m)'
    BY <1>b, <1>c, <1>d, <1>e DEF Mounted, Done, HelperOnly
  <1>2. stack' \in Seq(MountRecord) /\ spoiled' \in BOOLEAN /\ Accounted(m) /\ AloneInv(m)'
    <2>1. CASE Rollback(m)
      <3>1. stack # <<>> /\ stack' = Front(stack) /\ spoiled' = spoiled
        BY <2>1 DEF Rollback
      <3>2. /\ stack' \in Seq(MountRecord) /\ Len(stack') = Len(stack) - 1
            /\ Len(stack) = 1 => stack' = <<>>
        BY <1>a, <3>1, Popped DEF TypeOK, MountRecord
      <3> QED
        BY <1>a, <1>b, <1>1, <3>1, <3>2 DEF Accounted, AloneInv, HelperOnly, TypeOK
    <2>2. CASE RollbackFails(m)
      BY <1>a, <2>2 DEF RollbackFails, Accounted, AloneInv, TypeOK, MountRecord
    <2> QED
      BY <2>1, <2>2
  <1>3. /\ cause' = [cause EXCEPT ![m] = cause[m]] /\ Encode(cause[m]) \in -1..255
        /\ cause[m] \in {Success, Outcome("generic", 0)} \cup Errors
        /\ helper[m] \notin {"none", "exited"}
        /\ leaked' \in {leaked, [leaked EXCEPT ![m] = TRUE]}
    BY <1>a, <1>b, <1>c, <1>d DEF TypeOK
  <1> QED
    BY <1>b, <1>2, <1>3, HelperEnds

(* The helper reports that its operation is done.                          *)
LEMMA HelperReportsKeeps ==
  ASSUME MountsInv, NEW m \in users, HelperReports(m)
  PROVE  MountsInv'
  <1>a. m \in Slots /\ TypeOK /\ OpInv(m) /\ ByteInv(m) /\ AloneInv(m)
    BY DEF MountsInv, TypeOK
  <1>b. /\ HelperOnly(m) /\ cause' = cause /\ leaked' = leaked /\ helper[m] = "report"
        /\ byte' = [byte EXCEPT ![m] = Encode(Success)] /\ stack' = stack /\ spoiled' = spoiled
        /\ helper' = [helper EXCEPT ![m] = "exited"]
    BY DEF HelperReports, Report, HelperOnly, handleVars
  <1>c. cause[m] = Success /\ Encode(Success) = 0
    BY <1>a, <1>b, Coding DEF ByteInv
  <1>d. byte'[m] = 0 /\ helper'[m] = "exited"
    BY <1>a, <1>b, <1>c DEF TypeOK
  <1>1. Done(m) /\ Done(m)'
    BY <1>b, <1>d DEF Done
  <1>2. (Mounted(m)' <=> Mounted(m)) /\ PermNow(m)' = PermNow(m)
    BY <1>b, <1>1 DEF Mounted, PermNow, Present, HelperOnly
  <1>3. Accounted(m) /\ AloneInv(m)'
    BY <1>a, <1>b, <1>2 DEF Accounted, AloneInv, HelperOnly
  <1>4. /\ cause' = [cause EXCEPT ![m] = Success] /\ Encode(Success) \in -1..255
        /\ helper[m] \notin {"none", "exited"} /\ spoiled' \in BOOLEAN
        /\ leaked' \in {leaked, [leaked EXCEPT ![m] = TRUE]} /\ stack' \in Seq(MountRecord)
    BY <1>a, <1>b, <1>c DEF TypeOK, MountRecord
  <1> QED
    BY <1>b, <1>3, <1>4, HelperEnds

(* A helper that is killed has changed nothing, or the target is spoiled.  *)
LEMMA HelperKilledKeeps ==
  ASSUME MountsInv, NEW m \in users, HelperKilled(m)
  PROVE  MountsInv'
  <1>a. m \in Slots /\ TypeOK /\ OpInv(m) /\ ByteInv(m) /\ AloneInv(m)
    BY DEF MountsInv, TypeOK
  <1>b. /\ HelperOnly(m) /\ cause' = [cause EXCEPT ![m] = Success] /\ byte' = byte
        /\ helper' = [helper EXCEPT ![m] = "exited"] /\ stack' = stack
        /\ leaked' \in {leaked, [leaked EXCEPT ![m] = TRUE]}
        /\ spoiled' = (spoiled \/ Touched(m))
    BY DEF HelperKilled, HelperOnly, handleVars
  <1>c. helper[m] \notin {"none", "exited"}
    BY DEF HelperKilled, Running
  <1>d. byte[m] = NoByte /\ byte'[m] = NoByte /\ helper'[m] = "exited"
    BY <1>a, <1>b, <1>c DEF TypeOK
  <1>1. ASSUME ~spoiled'
        PROVE ~spoiled /\ (Mounted(m)' <=> Mounted(m)) /\ PermNow(m)' = PermNow(m)
    <2>1. ~spoiled /\ helper[m] \notin {"protect", "rollback", "report"}
      BY <1>1, <1>b DEF Touched
    <2>2. ~Done(m) /\ ~Done(m)'
      BY <1>c, <1>d, <2>1 DEF Done, NoByte
    <2> QED
      BY <1>b, <1>d, <2>1, <2>2 DEF Mounted, PermNow, Present, HelperOnly
  <1>2. Accounted(m) /\ AloneInv(m)'
    BY <1>a, <1>b, <1>1 DEF Accounted, AloneInv, HelperOnly
  <1>3. spoiled' \in BOOLEAN
    BY <1>a, <1>b, Zenon DEF Touched
  <1>4. byte' = [byte EXCEPT ![m] = NoByte] /\ NoByte \in -1..255 /\ stack' \in Seq(MountRecord)
    BY <1>a, <1>b, <1>d DEF TypeOK, MountRecord, NoByte
  <1> QED
    BY <1>b, <1>c, <1>2, <1>3, <1>4, HelperEnds

-----------------------------------------------------------------------------
(* The host takes the result: the handle stands for a mount exactly if the *)
(* operation had its effect.                                               *)
LEMMA FinishKeeps ==
  ASSUME MountsInv, NEW m \in users, NEW ok \in BOOLEAN, helper[m] = "exited",
         Finish(m, ok),
         spoiled' \in BOOLEAN,
         ~spoiled' => ~spoiled /\ (ok <=> Done(m)) /\ (op[m] = "drop" => ok)
  PROVE  MountsInv'
  <1>a. m \in Slots /\ TypeOK /\ OpInv(m) /\ ByteInv(m) /\ AloneInv(m)
    BY DEF MountsInv, TypeOK
  <1>b. /\ handle' = [handle EXCEPT ![m] = HandleAfter(m, ok)]
        /\ perm' = [perm EXCEPT ![m] = PermAfter(m, ok)]
        /\ op' = [op EXCEPT ![m] = "none"] /\ helper' = [helper EXCEPT ![m] = "none"]
        /\ byte' = [byte EXCEPT ![m] = NoByte] /\ cause' = [cause EXCEPT ![m] = Success]
        /\ leaked' = [leaked EXCEPT ![m] = FALSE]
        /\ users' = users /\ reaped' = reaped /\ stack' = stack
    BY DEF Finish
  <1>c. /\ handle'[m] = HandleAfter(m, ok) /\ perm'[m] = PermAfter(m, ok) /\ op'[m] = "none"
        /\ helper'[m] = "none" /\ byte'[m] = NoByte /\ cause'[m] = Success /\ ~leaked'[m]
    BY <1>a, <1>b DEF TypeOK
  <1>d. op[m] \in {"add", "remove", "drop"} \cup Remounts
    BY <1>a DEF TypeOK, Idle, Operations
  <1>e. /\ op[m] = "add" => HandleAfter(m, ok) = IF ok THEN "held" ELSE "none"
        /\ op[m] = "remove" => HandleAfter(m, ok) = IF ok THEN "removed" ELSE "held"
        /\ op[m] = "drop" => HandleAfter(m, ok) = "none"
        /\ op[m] \in Remounts => HandleAfter(m, ok) = handle[m]
    BY DEF HandleAfter, Remounts
  <1>f. HandleAfter(m, ok) \in {"none", "held", "removed", "detached"}
    BY <1>a, <1>d, <1>e DEF TypeOK
  <1>g. PermAfter(m, ok) \in BOOLEAN
    <2>1. perm[m] \in BOOLEAN /\ (m \in ReadOnly) \in BOOLEAN /\ (op[m] = "remount_ro") \in BOOLEAN
      BY <1>a DEF TypeOK
    <2>2. CASE HandleAfter(m, ok) \in {"none", "removed"}
      BY <2>1, <2>2 DEF PermAfter
    <2>3. CASE HandleAfter(m, ok) \notin {"none", "removed"}
      BY <2>1, <2>3 DEF PermAfter
    <2> QED
      BY <2>2, <2>3
  <1>1. OthersKept(m)
    BY <1>a, <1>b DEF OthersKept, TypeOK
  <1>2. TypeOK'
    <2>1. cause' \in [Slots -> [kind : {"ok", "generic", "errno"}, errno : Errnos \cup {0}]]
      BY <1>a, <1>b DEF TypeOK, Success, Outcome
    <2>2. byte' \in [Slots -> -1..255] /\ leaked' \in [Slots -> BOOLEAN]
      BY <1>a, <1>b DEF TypeOK, NoByte
    <2>3. handle' \in [Slots -> {"none", "held", "removed", "detached"}]
          /\ perm' \in [Slots -> BOOLEAN]
      BY <1>a, <1>b, <1>f, <1>g DEF TypeOK
    <2>4. op' \in [Slots -> Operations \cup {"none"}]
      BY <1>a, <1>b DEF TypeOK
    <2>5. \A n \in Slots : Idle(n)' <=> helper'[n] = "none"
      BY <1>a, <1>1, <1>c DEF TypeOK, OthersKept, Idle
    <2>6. \A n \in Slots : byte'[n] # NoByte \/ leaked'[n] => helper'[n] = "exited"
      BY <1>a, <1>b, <1>1, <1>c DEF TypeOK, OthersKept
    <2> QED
      BY <1>a, <1>b, <2>1, <2>2, <2>3, <2>4, <2>5, <2>6 DEF TypeOK
  <1>3. OpInv(m)'
    <2>1. handle'[m] \in {"none", "removed"} => perm'[m] = (m \in ReadOnly)
      BY <1>c, Zenon DEF PermAfter
    <2> QED
      BY <1>b, <1>c, <2>1 DEF OpInv, Idle
  <1>4. ByteInv(m)'
    BY <1>c DEF ByteInv
  <1>5. ASSUME ~spoiled'
        PROVE  (Mounted(m)' <=> Mounted(m)) /\ (Mounted(m) => PermNow(m)' = PermNow(m))
    <2>1. Mounted(m)' = Present(m)' /\ PermNow(m)' = PermAfter(m, ok)
      BY <1>c, Zenon DEF Mounted, PermNow, Remounts
    <2>2. CASE op[m] = "add"
      <3>1. (Mounted(m) <=> ok) /\ (Mounted(m)' <=> ok)
        BY <1>5, <1>c, <1>e, <2>1, <2>2 DEF Mounted, Present
      <3>2. ok => PermAfter(m, ok) = perm[m] /\ perm[m] = (m \in ReadOnly)
        BY <1>a, <1>e, <2>2 DEF PermAfter, Remounts, OpInv
      <3>3. ok => PermNow(m) = (m \in ReadOnly)
        BY <1>5, <2>2 DEF PermNow
      <3> QED
        BY <2>1, <3>1, <3>2, <3>3
    <2>3. CASE op[m] \in {"remove", "drop"}
      <3>1. (Mounted(m) <=> ~ok) /\ (Mounted(m)' <=> ~ok)
        BY <1>5, <1>c, <1>e, <2>1, <2>3 DEF Mounted, Present
      <3>2. ~ok => PermAfter(m, ok) = perm[m] /\ PermNow(m) = perm[m]
        BY <1>5, <1>e, <2>3 DEF PermAfter, PermNow, Remounts
      <3> QED
        BY <2>1, <3>1, <3>2
    <2>4. CASE op[m] \in Remounts
      <3>1. Mounted(m) = Present(m) /\ Present(m)' = Present(m)
        BY <1>c, <1>e, <2>4 DEF Mounted, Present, Remounts
      <3>2. Present(m) => PermAfter(m, ok) = IF ok THEN op[m] = "remount_ro" ELSE perm[m]
        BY <1>e, <2>4 DEF PermAfter, Present
      <3>3. PermNow(m) = IF ok THEN op[m] = "remount_ro" ELSE perm[m]
        BY <1>5, <2>4 DEF PermNow, Remounts
      <3> QED
        BY <2>1, <3>1, <3>2, <3>3
    <2> QED
      BY <1>d, <2>2, <2>3, <2>4
  <1>6. Accounted(m) /\ AloneInv(m)'
    BY <1>a, <1>b, <1>5 DEF Accounted, AloneInv
  <1> QED
    BY <1>b, <1>1, <1>2, <1>3, <1>4, <1>6, Locality

(* waitpid and the status byte, or waitpid failing                         *)
LEMMA ReturnKeeps ==
  ASSUME MountsInv, NEW m \in users, HelperReturns(m) \/ WaitpidFails(m)
  PROVE  MountsInv'
  <1>a. m \in Slots /\ TypeOK /\ ByteInv(m)
    BY DEF MountsInv, TypeOK
  <1>b. helper[m] = "exited"
    BY DEF HelperReturns, WaitpidFails
  <1>c. (byte[m] # NoByte /\ Decode(byte[m]) = Success) <=> byte[m] = 0
    <2>1. byte[m] = NoByte => byte[m] # 0
      BY DEF NoByte
    <2>2. byte[m] # NoByte => (Decode(byte[m]) = cause[m] /\ (byte[m] = 0 <=> cause[m] = Success))
      BY <1>a, Coding DEF ByteInv
    <2> QED
      BY <2>1, <2>2
  <1>1. CASE HelperReturns(m)
    <2> DEFINE ok == byte[m] # NoByte /\ Decode(byte[m]) = Success
    <2>1. Finish(m, ok) /\ spoiled' = (spoiled \/ (op[m] = "drop" /\ byte[m] # 0))
      BY <1>1 DEF HelperReturns
    <2>2. ok \in BOOLEAN /\ (ok <=> Done(m)) /\ (ok <=> byte[m] = 0)
      BY <1>b, <1>c DEF Done
    <2> HIDE DEF ok
    <2>3. spoiled' \in BOOLEAN
      BY <2>1, Zenon
    <2>4. ~spoiled' => ~spoiled /\ (op[m] = "drop" => ok)
      BY <2>1, <2>2
    <2> QED
      BY <1>b, <2>1, <2>2, <2>3, <2>4, FinishKeeps
  <1>2. CASE WaitpidFails(m)
    <2>1. Finish(m, FALSE) /\ spoiled' = (spoiled \/ (op[m] = "drop" \/ byte[m] = 0))
      BY <1>2 DEF WaitpidFails
    <2>2. spoiled' \in BOOLEAN
      BY <2>1, Zenon
    <2>3. ~spoiled' => ~spoiled /\ ~Done(m) /\ op[m] # "drop"
      BY <1>b, <2>1 DEF Done
    <2> QED
      BY <1>b, <2>1, <2>2, <2>3, FinishKeeps
  <1> QED
    BY <1>1, <1>2

(* The end of a process that has the write end, or of the child itself     *)
LEMMA BystanderKeeps ==
  ASSUME MountsInv, (\E m \in Slots : HolderExits(m)) \/ ChildReaped
  PROVE  MountsInv'
  <1>1. /\ users' = users /\ stack' = stack /\ handle' = handle /\ perm' = perm /\ op' = op
        /\ helper' = helper /\ byte' = byte /\ cause' = cause /\ spoiled' = spoiled
    BY DEF HolderExits, ChildReaped, handleVars, helperVars
  <1>2. TypeOK'
    <2>1. CASE ChildReaped
      BY <1>1, <2>1 DEF MountsInv, TypeOK, ChildReaped, Idle
    <2>2. ASSUME NEW m \in Slots, HolderExits(m) PROVE TypeOK'
      BY <1>1, <2>2 DEF MountsInv, TypeOK, HolderExits, Idle
    <2> QED
      BY <2>1, <2>2
  <1>3. \A m \in Slots : OpInv(m)' /\ ByteInv(m)' /\ AloneInv(m)'
    BY <1>1 DEF MountsInv, OpInv, ByteInv, AloneInv, Mounted, PermNow, Present, Done, Idle
  <1>4. CountInv'
    BY <1>1 DEF MountsInv, CountInv, Mounted, Present, Done
  <1> QED
    BY <1>2, <1>3, <1>4 DEF MountsInv

(* Only the slots that work on the target take steps.                      *)
LEMMA OnlyUsers ==
  ASSUME MountsInv, NEW m \in Slots, ~Idle(m) \/ handle[m] # "none" \/ MayStart(m)
  PROVE  m \in users
  BY DEF MountsInv, OpInv, MayStart

(* Every step keeps the invariant.                                         *)
LEMMA MountsStep == ASSUME MountsInv, Next PROVE MountsInv'
  <1>1. ASSUME NEW m \in Slots, Add(m) PROVE MountsInv'
    <2>1. m \in users /\ Idle(m) /\ Start(m,
        "add") /\ "add" \in Operations /\ handle[m] = "none"
      BY <1>1, OnlyUsers DEF Add, MayStart, Operations
    <2> QED
      BY <2>1, StartKeeps
  <1>2. ASSUME NEW m \in Slots, NEW o \in Remounts, Remount(m, o) PROVE MountsInv'
    <2>1. m \in users /\ Idle(m) /\ Start(m, o) /\ o \in Operations
          /\ o \notin {"add", "remove", "drop"}
      BY <1>2, OnlyUsers DEF Remount, MayStart, Operations, Remounts
    <2> QED
      BY <2>1, StartKeeps
  <1>3. ASSUME NEW m \in Slots, RemoveMount(m) PROVE MountsInv'
    <2>1. m \in users /\ Idle(m) /\ Start(m, "remove") /\ "remove" \in Operations
          /\ handle[m] = "held"
      BY <1>3, OnlyUsers DEF RemoveMount, Operations
    <2> QED
      BY <2>1, StartKeeps
  <1>4. ASSUME NEW m \in Slots, Drop(m) PROVE MountsInv'
    <2>1. m \in users /\ Idle(m) /\ Start(m, "drop") /\ "drop" \in Operations
          /\ handle[m] = "held"
      BY <1>4, OnlyUsers DEF Drop, Operations
    <2> QED
      BY <2>1, StartKeeps
  <1>5. ASSUME NEW m \in Slots, DropEarly(m) \/ Detach(m) PROVE MountsInv'
    <2>1. m \in users
      BY <1>5, OnlyUsers DEF DropEarly, Detach
    <2> QED
      BY <1>5, <2>1, DropEarlyKeeps, DetachKeeps
  <1>6. ASSUME NEW m \in Slots,
               HelperStep(m) \/ HelperKilled(m) \/ HelperReturns(m) \/ WaitpidFails(m)
        PROVE  MountsInv'
    <2>1. helper[m] # "none"
      BY <1>6
         DEF HelperStep, HelperSucceeds, HelperReports, Rollback, RollbackFails,
             HelperFails, HelperKilled, HelperReturns, WaitpidFails, Running
    <2>2. m \in users
      BY <2>1, OnlyUsers DEF MountsInv, TypeOK
    <2> QED
      BY <1>6, <2>2, HelperSucceedsKeeps, HelperReportsKeeps, RollbackKeeps,
         HelperFailsKeeps, HelperKilledKeeps, ReturnKeeps
         DEF HelperStep
  <1> QED
    BY <1>1, <1>2, <1>3, <1>4, <1>5, <1>6, BystanderKeeps DEF Next

(* Before the first operation nothing is mounted.                          *)
LEMMA MountsInit == Init => MountsInv
  <1> SUFFICES ASSUME Init PROVE MountsInv
    OBVIOUS
  <1>1. TypeOK
    <2>1. perm \in [Slots -> BOOLEAN]
      <3>1. \A m \in Slots : (m \in ReadOnly) \in BOOLEAN
        OBVIOUS
      <3> QED
        BY <3>1 DEF Init
    <2>2. cause \in [Slots -> [kind : {"ok", "generic", "errno"}, errno : Errnos \cup {0}]]
      BY DEF Init, Success, Outcome
    <2>3. byte \in [Slots -> -1..255] /\ \A m \in Slots : byte[m] = NoByte
      BY DEF Init, NoByte
    <2>4. \A m \in Slots : op[m] = "none" /\ helper[m] = "none" /\ ~leaked[m]
      BY DEF Init
    <2>5. users \subseteq Slots /\ reaped \in BOOLEAN /\ spoiled \in BOOLEAN
      BY DEF Init
    <2>7. stack \in Seq([of : Slots, ro : BOOLEAN])
      BY EmptySeq DEF Init
    <2>6. /\ handle \in [Slots -> {"none", "held", "removed", "detached"}]
          /\ op \in [Slots -> Operations \cup {"none"}] /\ leaked \in [Slots -> BOOLEAN]
          /\ helper \in [Slots -> {"none", "enter", "move", "setperm", "umount", "protect",
                                   "rollback", "report", "exited"}]
      BY DEF Init
    <2> QED
      BY <2>1, <2>2, <2>3, <2>4, <2>5, <2>6, <2>7, Zenon DEF TypeOK, Idle
  <1>2. ASSUME NEW m \in Slots PROVE OpInv(m) /\ ByteInv(m) /\ AloneInv(m) /\ ~Mounted(m)
    <2>1. /\ handle[m] = "none" /\ perm[m] = (m \in ReadOnly) /\ op[m] = "none"
          /\ helper[m] = "none" /\ byte[m] = NoByte /\ cause[m] = Success
      BY <1>2 DEF Init
    <2>2. ~Mounted(m)
      BY <2>1 DEF Mounted, Present
    <2>3. OpInv(m)
      BY <2>1, Zenon DEF OpInv, Idle
    <2> QED
      BY <2>1, <2>2, <2>3 DEF ByteInv, AloneInv, Init
  <1>3. CountInv
    <2>1. {m \in Slots : Mounted(m)} = {}
      BY <1>2
    <2> QED
      BY <2>1, FS_EmptySet DEF CountInv, Init
  <1> QED
    BY <1>1, <1>2, <1>3 DEF MountsInv

(* The invariant of dynamic mounts holds in every reachable state.         *)
THEOREM MountsKeepInv == Spec => []MountsInv
  <1>1. MountsInv /\ UNCHANGED vars => MountsInv'
    BY
       DEF MountsInv, vars, handleVars, helperVars, TypeOK, OpInv, ByteInv, AloneInv,
           CountInv, Mounted, PermNow, Present, Done, Idle
  <1>2. MountsInv /\ [Next]_vars => MountsInv'
    BY <1>1, MountsStep
  <1> QED
    BY MountsInit, <1>2, PTL DEF Spec

(* Whenever no helper is at work and no operation has lost its effect, the *)
(* target has one mount for every DynamicMount that stands for one, with   *)
(* any number of threads that add, remove, drop and detach at once.        *)
THEOREM OneMountPerHandle == Spec => []MountsBalanced
  <1>1. MountsInv => MountsBalanced
    <2> SUFFICES ASSUME MountsInv, Quiet
                 PROVE  Len(stack) = Cardinality({m \in Slots : Present(m)})
      BY DEF MountsBalanced
    <2>1. \A m \in Slots : Mounted(m) <=> Present(m)
      BY DEF Quiet, Idle, Mounted
    <2>2. {m \in Slots : Mounted(m)} = {m \in Slots : Present(m)}
      BY <2>1
    <2> QED
      BY <2>2 DEF MountsInv, CountInv, Quiet
  <1> QED
    BY <1>1, MountsKeepInv, PTL

(* A slot that has the target to itself finds its mount there with the     *)
(* permission that was asked last: a read-only mount is never writable.    *)
THEOREM PermissionHolds == Spec => []PermissionApplied
  <1>1. MountsInv => PermissionApplied
    <2> SUFFICES ASSUME MountsInv, NEW m \in Slots, users = {m}, Quiet, Present(m)
                 PROVE  stack = <<[of |-> m, ro |-> perm[m]]>>
      BY DEF PermissionApplied
    <2>1. Mounted(m) /\ PermNow(m) = perm[m]
      BY DEF Quiet, Idle, Mounted, PermNow, Remounts
    <2> QED
      BY <2>1 DEF MountsInv, AloneInv, Quiet
  <1> QED
    BY <1>1, MountsKeepInv, PTL

(* The error that the caller reads from the status byte is the failure     *)
(* that the helper met, for every errno that encode_errno accepts; Ok is   *)
(* read only where there was none.                                         *)
THEOREM ErrorIsCause == Spec => []ErrorNamesCause
  <1>1. MountsInv => ErrorNamesCause
    BY Coding DEF MountsInv, ByteInv, ErrorNamesCause
  <1> QED
    BY <1>1, MountsKeepInv, PTL
=============================================================================
