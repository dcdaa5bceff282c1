---------------------------- MODULE LandlockRules ----------------------------
(***************************************************************************)
(* landlock/mod.rs: the ruleset that the parent builds from an             *)
(* AccessDecision.  A rule names the object that its path led to in the    *)
(* parent (PathFd), that is a host path here, and carries an access mask.  *)
(***************************************************************************)
EXTENDS MountView

CONSTANTS
  Missing,      \* paths a decision may name that do not exist on the host
  KernelABIs    \* landlock versions of the kernels looked at, 0 without it

ASSUME LandlockAssumption ==
  Missing \cap Paths = {} /\ KernelABIs \subseteq Nat

REQUIRED_ABI == 3

-----------------------------------------------------------------------------
(* Access rights of the landlock crate, external.  One stands for those    *)
(* that behave alike: "read" for ReadFile and Execute, "make" for Make*    *)
(* and Remove*.                                                            *)

DirectoryOnly == {"readdir", "make", "refer"}

FromRead == {"read", "readdir"}

FromAll(abi) ==
  {"read", "readdir", "write", "make"}
    \cup (IF abi >= 2 THEN {"refer"} ELSE {})
    \cup (IF abi >= 3 THEN {"truncate"} ELSE {})
    \cup (IF abi >= 5 THEN {"ioctl"} ELSE {})

FromFile(abi) == FromAll(abi) \ DirectoryOnly

(* add_rule refuses rights the ruleset does not handle, no rights at all,  *)
(* and rights of directories on anything else.                             *)
AddRuleAccepts(abi, path, mask) ==
  /\ mask # {} /\ mask \subseteq FromAll(abi)
  /\ path \in Files => mask \cap DirectoryOnly = {}

-----------------------------------------------------------------------------

(* Mutant: files keep the rights of directories.                           *)
LegalMaskAsAsked(desired, path, abi) == desired

legal_mask(desired, path, abi) ==
  IF path \notin Files THEN desired ELSE desired \cap FromFile(abi)

(* The rules that build_ruleset adds: those whose path exists and that no  *)
(* earlier rule named.                                                     *)
Added(rules) ==
  LET kept == {i \in DOMAIN rules :
                 /\ rules[i].path \notin Missing
                 /\ \A j \in 1..(i - 1) : rules[j].path # rules[i].path}
  IN  {rules[i] : i \in kept}

NoRuleset(why) == [ok |-> FALSE, why |-> why, rules |-> {}]

(* ensure_supported and create, with HardRequirement, refuse a kernel      *)
(* without landlock or of an older version.                                *)
build_ruleset(abi, rules, kernel) ==
  IF kernel = 0 THEN NoRuleset("unavailable")
  ELSE IF kernel < abi THEN NoRuleset("abi")
  ELSE LET legal == {[path |-> r.path, mask |-> legal_mask(r.mask, r.path, abi)] :
                       r \in Added(rules)}
       IN  IF \A r \in legal : AddRuleAccepts(abi, r.path, r.mask)
           THEN [ok |-> TRUE, why |-> "", rules |-> legal]
           ELSE NoRuleset("rule")

(* baseline_writable and baseline_readable keep the paths that exist.      *)
Baseline(paths) == SelectSeq(paths, LAMBDA p : p \notin Missing)

Rules(paths, mask) == [i \in DOMAIN paths |-> [path |-> paths[i], mask |-> mask]]

ReadRules(read) ==
  IF read.kind = "Broad" THEN Rules(<< <<>> >>, FromRead) ELSE Rules(read.paths, FromRead)

(* Mutant: the read rules come first.                                      *)
PrepareReadFirst(decision, kernel) ==
  build_ruleset(REQUIRED_ABI,
                ReadRules(decision.read) \o Rules(decision.writable, FromAll(REQUIRED_ABI)),
                kernel)

prepare_landlock(decision, kernel) ==
  build_ruleset(REQUIRED_ABI,
                Rules(decision.writable, FromAll(REQUIRED_ABI)) \o ReadRules(decision.read),
                kernel)
=============================================================================
