---------------------------- MODULE SeccompFilter ----------------------------
(***************************************************************************)
(* Seccomp filters: the SeccompFilterBuilder and its presets               *)
(* (seccomp/builder.rs), the compiler to classic BPF and the loading of the*)
(* program (seccomp/bpf.rs, filter.rs), and the kernel that runs it on     *)
(* every system call of the child.                                         *)
(***************************************************************************)
EXTENDS Integers, FiniteSets, SequencesExt

CONSTANTS
  Standard,     \* syscall numbers the presets allow
  Blocked,      \* numbers the permissive preset denies
  Exit,         \* SYS_exit and
  ExitGroup,    \* SYS_exit_group
  Numbers,      \* all numbers, of calls and of rules
  MaxJump,      \* the largest conditional jump, 255 in BPF
  MaxInsns,     \* BPF_MAXINSNS
  MaxOps        \* bound on the builder calls

(* Errno stands for every errno; KillThread and Trap differ from it in name*)
(* only.                                                                   *)
Actions == {"KillProcess", "Errno", "Log", "Allow"}

ASSUME SeccompAssumption ==
  /\ Numbers \subseteq Nat /\ IsFiniteSet(Numbers)
  /\ Standard \cup Blocked \cup {Exit, ExitGroup} \subseteq Numbers
  /\ MaxJump \in Nat \ {0} /\ MaxOps \in Nat
  \* a program whose jumps all fit is never too long
  /\ MaxInsns \in Nat /\ 2 * MaxJump + 6 <= MaxInsns

VARIABLES
  default,  \* SeccompFilterBuilder::default_action
  rules,    \* SeccompFilterBuilder::rules, in insertion order
  wanted,   \* what the calls so far ask for each number, "none" if nothing
  ops,      \* builder calls made
  phase,    \* "building", "refused", "built", "nnp", "loaded", "failed"
  program,  \* SeccompFilter::program
  call,     \* the system call being filtered: its architecture and number
  pc,       \* the next instruction; 0 outside an evaluation
  acc,      \* BPF accumulator
  verdict   \* the action of the last evaluation

vars == <<default, rules, wanted, ops, phase, program, call, pc, acc, verdict>>

evalVars == <<call, pc, acc, verdict>>

Rule(nr, action) == [nr |-> nr, action |-> action]

-----------------------------------------------------------------------------
(* The builder                                                             *)

(* The elements of S, each at its rank in the strict order before.         *)
InOrder(S, before) ==
  [k \in 1..Cardinality(S) |->
     CHOOSE x \in S : Cardinality({y \in S : <<y, x>> \in before}) = k - 1]

Ascending(S) == InOrder(S, {p \in S \X S : p[1] < p[2]})

At(rs, positions) == [k \in DOMAIN positions |-> rs[positions[k]]]

RulesFor(S, action) == [i \in 1..Cardinality(S) |-> Rule(Ascending(S)[i], action)]

(* Mutant: the denials come first, and the allowances win.                 *)
PermissiveDeniesFirst == RulesFor(Blocked, "KillProcess") \o RulesFor(Standard, "Allow")

(* permissive: denials after the allowances they overlap with.             *)
Permissive == RulesFor(Standard, "Allow") \o RulesFor(Blocked, "KillProcess")

(* new, strict or standard, permissive                                     *)
Init ==
  /\ \/ /\ default \in Actions /\ rules = <<>>
        /\ wanted = [n \in Numbers |-> "none"]
     \/ /\ default = "KillProcess" /\ rules = RulesFor(Standard, "Allow")
        /\ wanted = [n \in Numbers |-> IF n \in Standard THEN "Allow" ELSE "none"]
     \/ /\ default = "Allow" /\ rules = Permissive
        /\ wanted = [n \in Numbers |-> IF n \in Blocked THEN "KillProcess"
                                       ELSE IF n \in Standard THEN "Allow" ELSE "none"]
  /\ ops = 0 /\ phase = "building" /\ program = <<>>
  /\ call = [native |-> TRUE, nr |-> 0]
  /\ pc = 0 /\ acc = 0 /\ verdict = "none"

Building == phase = "building" /\ ops < MaxOps /\ ops' = ops + 1

(* add_rule: allow, deny, deny_with_errno, log; also each step of allow_all*)
(* and deny_all.                                                           *)
AddRule(n, action) ==
  /\ Building
  /\ rules' = Append(rules, Rule(n, action))
  /\ wanted' = [wanted EXCEPT ![n] = action]
  /\ UNCHANGED <<default, phase, program, evalVars>>

RemoveRules(n) ==
  /\ Building
  /\ rules' = At(rules, Ascending({i \in DOMAIN rules : rules[i].nr # n}))
  /\ wanted' = [wanted EXCEPT ![n] = "none"]
  /\ UNCHANGED <<default, phase, program, evalVars>>

DefaultAction(action) ==
  /\ Building
  /\ default' = action
  /\ UNCHANGED <<rules, wanted, phase, program, evalVars>>

-----------------------------------------------------------------------------
(* build                                                                   *)

(* sort_by_key, a stable sort                                              *)
Stably(rs) ==
  {p \in (DOMAIN rs) \X (DOMAIN rs) :
     \/ rs[p[1]].nr < rs[p[2]].nr
     \/ rs[p[1]].nr = rs[p[2]].nr /\ p[1] < p[2]}

Sorted(rs) == At(rs, InOrder(DOMAIN rs, Stably(rs)))

(* dedup_by: of adjacent rules with the same number the first stays.       *)
Dedup(rs) ==
  At(rs, Ascending({i \in DOMAIN rs : i = 1 \/ rs[i].nr # rs[i - 1].nr}))

(* Mutant: without the reversals the first rule of a number wins.          *)
DedupFirst(rs) == Dedup(Sorted(rs))

DedupRules(rs) == Reverse(Dedup(Reverse(Sorted(rs))))

Callable(action) == action \in {"Allow", "Log"}

(* Mutant: every rule counts, also one that a later rule overrides.        *)
CallableByAllRules(rs, n) ==
  /\ \A i \in DOMAIN rules : rules[i].nr = n => Callable(rules[i].action)
  /\ Callable(default) \/ \E i \in DOMAIN rules : rules[i].nr = n

(* exit_blocked, exit_has_allow and the same for exit_group                *)
StaysCallable(rs, n) ==
  /\ ~\E i \in DOMAIN rs : rs[i].nr = n /\ ~Callable(rs[i].action)
  /\ Callable(default) \/ \E i \in DOMAIN rs : rs[i].nr = n /\ Callable(rs[i].action)

Load(field) == [op |-> "LD", k |-> field, jt |-> 0]
JumpEq(k, jt) == [op |-> "JEQ", k |-> k, jt |-> jt]
Jump(k) == [op |-> "JA", k |-> k, jt |-> 0]
Return(action) == [op |-> "RET", k |-> action, jt |-> 0]

(* emit_table_node and patch_jump_node walk the rules lo..hi-1 (counted    *)
(* from 0) in the inorder of a balanced tree.                              *)
Walk(n) ==
  LET walk[range \in (0..n) \X (0..n)] ==
        LET lo == range[1]
            hi == range[2]
            mid == lo + (hi - lo) \div 2
        IN  IF lo >= hi THEN <<>>
            ELSE walk[<<lo, mid>>] \o <<mid>> \o walk[<<mid + 1, hi>>]
  IN  walk[<<0, n>>]

Header == <<Load("arch"), JumpEq("native", 1), Return("KillProcess"), Load("nr")>>

(* Distance from the node at index i of the table (counted from 0) to the  *)
(* return of rule mid: over the other nodes and the JA.                    *)
JumpTo(n, i, mid) == (Len(Header) + n + 1 + mid) - (Len(Header) + i) - 1

(* Mutant: the jump on a miss skips one return too many.                   *)
JumpTableOvershoots(rs) ==
  LET n == Len(rs)
      at == Walk(n)
  IN  [i \in 1..n |-> JumpEq(rs[at[i] + 1].nr, JumpTo(n, i - 1, at[i]))]
      \o <<Jump(n + 1)>> \o [i \in 1..n |-> Return(rs[i].action)]

(* emit_sorted_jump_table: nodes, the jump over the returns, returns.      *)
JumpTable(rs) ==
  LET n == Len(rs)
      at == Walk(n)
  IN  [i \in 1..n |-> JumpEq(rs[at[i] + 1].nr, JumpTo(n, i - 1, at[i]))]
      \o <<Jump(n)>> \o [i \in 1..n |-> Return(rs[i].action)]

(* compile_bpf                                                             *)
Compile(rs) ==
  Header \o (IF rs = <<>> THEN <<>> ELSE JumpTable(rs)) \o <<Return(default)>>

(* Mutant: the distance is cut to the width of the field.                  *)
FitsTruncated(prog) == Len(prog) <= MaxInsns

(* patch_jump_node and compile_bpf refuse what BPF cannot express.         *)
Fits(prog) ==
  /\ \A i \in DOMAIN prog : prog[i].jt <= MaxJump
  /\ Len(prog) <= MaxInsns

(* The field jt is as wide as MaxJump.                                     *)
Encode(prog) == [i \in DOMAIN prog |-> [prog[i] EXCEPT !.jt = @ % (MaxJump + 1)]]

Build ==
  /\ phase = "building"
  /\ LET rs == DedupRules(rules)
     IN  IF StaysCallable(rs, Exit) /\ StaysCallable(rs, ExitGroup) /\ Fits(Compile(rs))
         THEN phase' = "built" /\ program' = Encode(Compile(rs))
         ELSE phase' = "refused" /\ UNCHANGED program
  /\ UNCHANGED <<default, rules, wanted, ops, evalVars>>

-----------------------------------------------------------------------------
(* install                                                                 *)

SetNoNewPrivs ==
  /\ phase = "built"
  /\ phase' \in {"nnp", "failed"}
  /\ UNCHANGED <<default, rules, wanted, ops, program, evalVars>>

(* load_filter: seccomp(2), or prctl where that does not exist.            *)
LoadFilter ==
  /\ phase = "nnp"
  /\ phase' \in {"loaded", "failed"}
  /\ UNCHANGED <<default, rules, wanted, ops, program, evalVars>>

-----------------------------------------------------------------------------
(* The kernel                                                              *)

Syscall(native, n) ==
  /\ phase = "loaded" /\ pc = 0
  /\ call' = [native |-> native, nr |-> n]
  /\ pc' = 1 /\ verdict' = "none"
  /\ UNCHANGED <<default, rules, wanted, ops, phase, program, acc>>

Execute ==
  /\ pc \in DOMAIN program
  /\ LET insn == program[pc]
     IN  \/ /\ insn.op = "LD"
            /\ acc' = IF insn.k = "nr" THEN call.nr
                      ELSE IF call.native THEN "native" ELSE "foreign"
            /\ pc' = pc + 1 /\ UNCHANGED verdict
         \/ /\ insn.op = "JEQ"
            /\ pc' = IF acc = insn.k THEN pc + 1 + insn.jt ELSE pc + 1
            /\ UNCHANGED <<acc, verdict>>
         \/ /\ insn.op = "JA"
            /\ pc' = pc + 1 + insn.k /\ UNCHANGED <<acc, verdict>>
         \/ /\ insn.op = "RET"
            /\ verdict' = insn.k /\ pc' = 0 /\ acc' = 0
  /\ UNCHANGED <<default, rules, wanted, ops, phase, program, call>>

Next ==
  \/ \E n \in Numbers : RemoveRules(n) \/ \E a \in Actions : AddRule(n, a)
  \/ \E a \in Actions : DefaultAction(a)
  \/ Build \/ SetNoNewPrivs \/ LoadFilter \/ Execute
  \/ \E n \in Numbers : \E native \in BOOLEAN : Syscall(native, n)

Spec == Init /\ [][Next]_vars

-----------------------------------------------------------------------------
(* Properties                                                              *)

Asked(n) == IF wanted[n] = "none" THEN default ELSE wanted[n]

(* The type invariant                                                      *)
TypeOK ==
  /\ default \in Actions /\ rules \in Seq([nr : Numbers, action : Actions])
  /\ wanted \in [Numbers -> Actions \cup {"none"}] /\ ops \in 0..MaxOps
  /\ phase \in {"building", "refused", "built", "nnp", "loaded", "failed"}
  /\ pc \in 0..Len(program) /\ verdict \in Actions \cup {"none"}

(* The program decides every call of the native architecture as the last   *)
(* builder call about it asked, or by the default, and kills every other:  *)
(* stable sort, reversals, deduplication, the tree walk and the relative   *)
(* jumps cancel out, and no evaluation leaves the program.                 *)
FilterMeansRules ==
  /\ pc \in 0..Len(program)
  /\ verdict # "none" =>
       verdict = IF call.native THEN Asked(call.nr) ELSE "KillProcess"

(* build refuses a filter only when it would take exit or exit_group from  *)
(* the child, or has more rules than a jump can span.                      *)
RefusedWithReason ==
  phase = "refused" =>
    \/ \E n \in {Exit, ExitGroup} : ~Callable(Asked(n))
    \/ Cardinality({n \in Numbers : wanted[n] # "none"}) > MaxJump
=============================================================================
