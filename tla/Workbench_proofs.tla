---------------------------- MODULE Workbench_proofs ----------------------------
(***************************************************************************)
(* Proofs about Gate and Workbench: what the gate lets through is what the *)
(* policy permits, and every step of the bench keeps the invariant from    *)
(* which OnlyTheJudgedLeaves follows.  Conversations_proofs puts them      *)
(* together with the steps of the requests.                                *)
(***************************************************************************)
EXTENDS Workbench, FiniteSetTheorems, SequenceTheorems, TLAPS

-------------------------------------------------------------------------------
(* The gate *)

\* A change set is finite and counts no more lines than two binary files for each path.
LEMMA SizesAreNumbers ==
  ASSUME NEW base \in Trees, NEW after \in Trees
  PROVE  /\ Cardinality(ChangeSet(base, after)) \in Nat
         /\ TotalDiffLines(base, after) \in Nat
  <1>1. IsFiniteSet(ChangeSet(base, after))
    BY PathClasses, FS_Subset DEF ChangeSet
  <1>2. \A p \in Paths : DiffLines(base, after, p) \in 0 .. 40
    BY DEF DiffLines, CostOf, BinaryCost, Trees, Content
  <1> DEFINE lines == UNION {{p} \X (1 .. DiffLines(base, after, p)) : p \in ChangeSet(base, after)}
  <1>3. lines \subseteq Paths \X (1 .. 40)
    <2> SUFFICES ASSUME NEW p \in ChangeSet(base, after), NEW l \in {p} \X (1 .. DiffLines(base, after, p))
                 PROVE  l \in Paths \X (1 .. 40)
      OBVIOUS
    <2>1. p \in Paths
      BY DEF ChangeSet
    <2>2. 1 .. DiffLines(base, after, p) \subseteq 1 .. 40
      BY <1>2, <2>1
    <2> QED
      BY <2>1, <2>2
  <1>4. IsFiniteSet(Paths \X (1 .. 40))
    <2> DEFINE most == 40
    <2>1. \A n \in Int : IsFiniteSet(1 .. n)
      BY FS_Interval
    <2>2. most \in Int
      OBVIOUS
    <2> HIDE DEF most
    <2>3. IsFiniteSet(1 .. most)
      BY <2>1, <2>2
    <2> QED
      BY <2>3, PathClasses, FS_Product DEF most
  <1>5. IsFiniteSet(lines)
    BY <1>3, <1>4, FS_Subset
  <1> QED
    BY <1>1, <1>5, FS_CardinalityType DEF TotalDiffLines

\* The rules, one by one: each names a violation, blames paths of the repository, and is
\* broken when it says it is.
LEMMA RulesAreTyped ==
  ASSUME NEW base, NEW after, NEW policy, NEW attached,
         NEW i \in DOMAIN Rules(base, after, policy, attached)
  PROVE  /\ Rules(base, after, policy, attached)[i].violation \in Violations \ {"none"}
         /\ Rules(base, after, policy, attached)[i].paths \subseteq Paths
  <1> DEFINE rules == Rules(base, after, policy, attached)
             Typed(k) == rules[k].violation \in Violations \ {"none"} /\ rules[k].paths \subseteq Paths
  <1>1. ChangeSet(base, after) \subseteq Paths /\ Markup \subseteq Paths
    BY DEF ChangeSet, Markup, Matching
  <1>2. i \in 1 .. 9
    BY DEF Rules
  <1>3. Typed(1)  BY <1>1 DEF Rules, Violations
  <1>4. Typed(2)  BY <1>1 DEF Rules, Violations
  <1>5. Typed(3)  BY <1>1 DEF Rules, Violations
  <1>6. Typed(4)  BY <1>1 DEF Rules, Violations
  <1>7. Typed(5)  BY <1>1 DEF Rules, Violations
  <1>8. Typed(6)  BY <1>1 DEF Rules, Violations
  <1>9. Typed(7)  BY <1>1 DEF Rules, Violations
  <1>10. Typed(8) BY <1>1 DEF Rules, Violations
  <1>11. Typed(9) BY <1>1 DEF Rules, Violations
  <1> HIDE DEF Typed
  <1>12. Typed(i)
    BY <1>2, <1>3, <1>4, <1>5, <1>6, <1>7, <1>8, <1>9, <1>10, <1>11
  <1> QED
    BY <1>12 DEF Typed

LEMMA WhenRulesBreak ==
  ASSUME NEW base, NEW after, NEW policy, NEW attached
  PROVE  LET files == ChangeSet(base, after)
             Broken(i) == Rules(base, after, policy, attached)[i].broken
         IN  /\ Broken(1) <=> files \cap Malformed # {}
             /\ Broken(2) <=> {p \in files : after[p] = "link"} # {}
             /\ Broken(3) <=> files \cap Protected # {}
             /\ Broken(4) <=> files \cap policy.deny # {}
             /\ Broken(5) <=> files \ (attached \cup policy.allow) # {}
             /\ Broken(6) <=> Cardinality(files) > policy.maxFilesChanged
             /\ Broken(7) <=> TotalDiffLines(base, after) > policy.maxDiffLines
             /\ Broken(8) <=> (policy.forbidNewDependencies /\ files \cap Vendored # {})
             /\ Broken(9) <=> (\E p \in Markup : policy.forbidExternalCode
                                                  /\ AddsForeignCode(base, after, p))
  BY DEF Rules

\* A verdict that refuses is that of a rule that is broken.
LEMMA RefusalsAreRules ==
  ASSUME NEW base, NEW after, NEW policy, NEW attached,
         Verdict(base, after, policy, attached).broken
  PROVE  \E i \in 1 .. 9 :
            /\ Rules(base, after, policy, attached)[i].broken
            /\ Verdict(base, after, policy, attached) = Rules(base, after, policy, attached)[i]
  <1> DEFINE rules == Rules(base, after, policy, attached)
             First(i) == rules[i].broken /\ \A j \in 1 .. (i - 1) : ~rules[j].broken
  <1>1. DOMAIN rules = 1 .. 9
    BY DEF Rules
  <1>2. PICK i \in DOMAIN rules : rules[i].broken
    BY DEF Verdict, Passed
  <1>3. \E k \in DOMAIN rules : First(k)
    BY <1>1, <1>2
  <1>4. /\ First(CHOOSE k \in DOMAIN rules : First(k))
        /\ (CHOOSE k \in DOMAIN rules : First(k)) \in DOMAIN rules
    BY <1>3
  <1> HIDE DEF rules
  <1>5. Verdict(base, after, policy, attached) = rules[CHOOSE k \in DOMAIN rules : First(k)]
    BY <1>2, Zenon DEF Verdict, rules
  <1>6. /\ rules[CHOOSE k \in DOMAIN rules : First(k)].broken
        /\ (CHOOSE k \in DOMAIN rules : First(k)) \in 1 .. 9
    BY <1>1, <1>4, Zenon
  <1> QED
    BY <1>5, <1>6, Zenon DEF rules

\* It names a violation, and paths of the repository only.
LEMMA RefusalsNameTheirRule ==
  ASSUME NEW base, NEW after, NEW policy, NEW attached,
         Verdict(base, after, policy, attached).broken
  PROVE  /\ Verdict(base, after, policy, attached).violation \in Violations \ {"none"}
         /\ Verdict(base, after, policy, attached).paths \subseteq Paths
  <1>1. 1 .. 9 = DOMAIN Rules(base, after, policy, attached)
    BY DEF Rules
  <1> QED
    BY <1>1, RefusalsAreRules, RulesAreTyped

\* A verdict that does not refuse has found no rule broken.
LEMMA PassedBreaksNoRule ==
  ASSUME NEW base, NEW after, NEW policy, NEW attached,
         ~Verdict(base, after, policy, attached).broken,
         NEW i \in 1 .. 9
  PROVE  ~Rules(base, after, policy, attached)[i].broken
  <1> DEFINE rules == Rules(base, after, policy, attached)
             First(k) == rules[k].broken /\ \A j \in 1 .. (k - 1) : ~rules[j].broken
  <1>1. DOMAIN rules = 1 .. 9
    BY DEF Rules
  <1> SUFFICES ASSUME rules[i].broken
               PROVE  FALSE
    OBVIOUS
  <1>2. \E k \in DOMAIN rules : First(k)
    BY <1>1
  <1> HIDE DEF rules
  <1>3. First(CHOOSE k \in DOMAIN rules : First(k))
    BY <1>2
  <1>4. Verdict(base, after, policy, attached) = rules[CHOOSE k \in DOMAIN rules : First(k)]
    BY <1>1 DEF Verdict, rules
  <1> QED
    BY <1>3, <1>4

\* What is committed of a tree, its judged paths over its head, changes these paths as
\* the tree did and no other (changeset.ts commitPermittedPaths).
LEMMA CommittedIsTheChangeSet ==
  ASSUME NEW base \in Trees, NEW work \in Trees,
         NEW after, after = [p \in Paths |-> IF p \in ChangeSet(base, work) THEN work[p] ELSE base[p]]
  PROVE  /\ after \in Trees
         /\ {p \in Paths : base[p] # after[p]} = ChangeSet(base, work)
         /\ \A p \in ChangeSet(base, work) : after[p] = work[p]
         /\ TotalDiffLines(base, after) = TotalDiffLines(base, work)
  <1> DEFINE changed == ChangeSet(base, work)
  <1>1. changed \subseteq Paths
    BY DEF ChangeSet
  <1>2. \A p \in changed : work[p] # base[p] /\ after[p] = work[p]
    BY DEF ChangeSet, KindOf
  <1>3. \A p \in Paths \ changed : after[p] = base[p]
    OBVIOUS
  <1>4. changed = {p \in Paths : base[p] # after[p]}
    BY <1>1, <1>2, <1>3
  <1>5. after \in Trees
    BY DEF Trees
  <1>6. ChangeSet(base, after) = changed
    BY <1>1, <1>2, <1>3 DEF ChangeSet, KindOf
  <1>7. \A p \in changed : DiffLines(base, after, p) = DiffLines(base, work, p)
    BY <1>2 DEF DiffLines
  <1>8. {{p} \X (1 .. DiffLines(base, after, p)) : p \in changed}
          = {{p} \X (1 .. DiffLines(base, work, p)) : p \in changed}
    BY <1>7
  <1>9. TotalDiffLines(base, after) = TotalDiffLines(base, work)
    BY <1>6, <1>8 DEF TotalDiffLines
  <1> QED
    BY <1>2, <1>4, <1>5, <1>9

\* What is committed of a tree that passed the gate, its judged paths over its head,
\* is what the policy permits, however the rules are ordered (gate.ts gate;
\* changeset.ts commitPermittedPaths).
THEOREM PassedIsPermitted ==
  ASSUME NEW base \in Trees, NEW work \in Trees, NEW policy \in Policies,
         NEW after, after = [p \in Paths |-> IF p \in ChangeSet(base, work) THEN work[p] ELSE base[p]],
         NEW attached, ~Verdict(base, work, policy, attached).broken,
         NEW untouched, ChangeSet(base, work) \cap attached \subseteq untouched
  PROVE  Permitted(base, after, policy, untouched)
  <1> DEFINE changed == ChangeSet(base, work)
             Broken(i) == Rules(base, work, policy, attached)[i].broken
  <1>1. /\ {p \in Paths : base[p] # after[p]} = changed
        /\ \A p \in changed : after[p] = work[p]
        /\ TotalDiffLines(base, after) = TotalDiffLines(base, work)
        /\ after \in Trees
    BY CommittedIsTheChangeSet
  <1>2. \A i \in 1 .. 9 : ~Broken(i)
    BY PassedBreaksNoRule
  <1> HIDE DEF changed
  <1>a. changed \cap Malformed = {}
    BY <1>2, WhenRulesBreak DEF changed
  <1>b. {p \in changed : work[p] = "link"} = {}
    BY <1>2, WhenRulesBreak DEF changed
  <1>c. changed \cap Protected = {} /\ changed \cap policy.deny = {}
    BY <1>2, WhenRulesBreak DEF changed
  <1>d. changed \subseteq attached \cup policy.allow
    <2>1. changed \ (attached \cup policy.allow) = {}
      BY <1>2, WhenRulesBreak DEF changed
    <2> QED
      BY <2>1
  <1>e. Cardinality(changed) <= policy.maxFilesChanged
    <2>1. ~(Cardinality(changed) > policy.maxFilesChanged)
      BY <1>2, WhenRulesBreak DEF changed
    <2> QED
      BY <2>1, SizesAreNumbers DEF Policies, changed
  <1>f. TotalDiffLines(base, after) <= policy.maxDiffLines
    <2>1. ~(TotalDiffLines(base, work) > policy.maxDiffLines)
      BY <1>2, WhenRulesBreak
    <2> QED
      BY <2>1, <1>1, SizesAreNumbers DEF Policies
  <1>g. policy.forbidNewDependencies => changed \cap Vendored = {}
    BY <1>2, WhenRulesBreak DEF changed
  <1>h. \A p \in changed : p \in Markup /\ policy.forbidExternalCode => after[p] # "frame"
    <2>1. \A p \in Markup : ~(policy.forbidExternalCode /\ AddsForeignCode(base, work, p))
      BY <1>2, WhenRulesBreak
    <2> QED
      BY <2>1, <1>1 DEF AddsForeignCode, changed
  <1>j. \A p \in changed : after[p] # "link"
    BY <1>b, <1>1
  <1>k. /\ changed \cap (Malformed \cup Protected \cup policy.deny) = {}
        /\ changed \subseteq policy.allow \cup untouched
    BY <1>a, <1>c, <1>d DEF changed
  <1> HIDE DEF Broken
  <1> QED
    BY <1>1, <1>k, <1>e, <1>f, <1>g, <1>h, <1>j DEF Permitted

\* The gate refuses nothing else: a change set that breaks a rule is one the policy does
\* not permit to be committed.  Thus the nine rules and their order, which govern what a
\* refusal says, say together what Permitted does, of any tree, policy and attachments
\* (gate.ts gate; changeset.ts commitPermittedPaths).
THEOREM GateIsThePolicy ==
  ASSUME NEW base \in Trees, NEW work \in Trees, NEW policy \in Policies,
         NEW after, after = [p \in Paths |-> IF p \in ChangeSet(base, work) THEN work[p] ELSE base[p]],
         NEW attached
  PROVE  Permitted(base, after, policy, ChangeSet(base, work) \cap attached)
           <=> ~Verdict(base, work, policy, attached).broken
  <1> DEFINE changed == ChangeSet(base, work)
             rules == Rules(base, work, policy, attached)
  <1>1. ASSUME ~Verdict(base, work, policy, attached).broken
        PROVE  Permitted(base, after, policy, changed \cap attached)
    BY <1>1, PassedIsPermitted
  <1>2. ASSUME Permitted(base, after, policy, changed \cap attached),
               Verdict(base, work, policy, attached).broken
        PROVE  FALSE
    <2>1. PICK i \in 1 .. 9 : rules[i].broken
      BY <1>2, RefusalsAreRules
    <2>2. /\ {p \in Paths : base[p] # after[p]} = changed
          /\ \A p \in changed : after[p] = work[p]
          /\ TotalDiffLines(base, after) = TotalDiffLines(base, work)
      BY CommittedIsTheChangeSet
    <2> HIDE DEF changed
    <2>3. /\ changed \cap (Malformed \cup Protected \cup policy.deny) = {}
          /\ changed \subseteq policy.allow \cup (changed \cap attached)
          /\ Cardinality(changed) <= policy.maxFilesChanged
          /\ TotalDiffLines(base, after) <= policy.maxDiffLines
          /\ policy.forbidNewDependencies => changed \cap Vendored = {}
          /\ \A p \in changed :
              /\ after[p] # "link"
              /\ p \in Markup /\ policy.forbidExternalCode => after[p] # "frame"
      BY <1>2, <2>2 DEF Permitted
    <2>4. /\ Cardinality(changed) \in Nat /\ TotalDiffLines(base, work) \in Nat
          /\ policy.maxFilesChanged \in Nat /\ policy.maxDiffLines \in Nat
      BY SizesAreNumbers DEF changed, Policies
    <2> HIDE DEF rules
    <2>5. /\ rules[1].broken <=> changed \cap Malformed # {}
          /\ rules[2].broken <=> {p \in changed : work[p] = "link"} # {}
          /\ rules[3].broken <=> changed \cap Protected # {}
          /\ rules[4].broken <=> changed \cap policy.deny # {}
          /\ rules[5].broken <=> changed \ (attached \cup policy.allow) # {}
          /\ rules[6].broken <=> Cardinality(changed) > policy.maxFilesChanged
          /\ rules[7].broken <=> TotalDiffLines(base, work) > policy.maxDiffLines
          /\ rules[8].broken <=> (policy.forbidNewDependencies /\ changed \cap Vendored # {})
          /\ rules[9].broken <=> (\E p \in Markup : policy.forbidExternalCode
                                                     /\ AddsForeignCode(base, work, p))
      BY WhenRulesBreak DEF rules, changed
    <2>6. ~rules[1].broken /\ ~rules[3].broken /\ ~rules[4].broken
      BY <2>3, <2>5
    <2>7. ~rules[2].broken
      BY <2>2, <2>3, <2>5
    <2>8. ~rules[5].broken
      BY <2>3, <2>5
    <2>9. ~rules[6].broken /\ ~rules[7].broken
      BY <2>2, <2>3, <2>4, <2>5
    <2>10. ~rules[8].broken
      BY <2>3, <2>5
    <2>11. ~rules[9].broken
      <3> SUFFICES ASSUME NEW p \in Markup, policy.forbidExternalCode,
                          AddsForeignCode(base, work, p)
                   PROVE  FALSE
        BY <2>5
      <3>1. p \in changed /\ work[p] = "frame"
        BY DEF AddsForeignCode, changed
      <3> QED
        BY <3>1, <2>2, <2>3
    <2> DEFINE Broken(k) == rules[k].broken
    <2>12. i \in {1, 2, 3, 4, 5, 6, 7, 8, 9}
      BY <2>1
    <2>13. Broken(i)
      BY <2>1
    <2>14. /\ ~Broken(1) /\ ~Broken(2) /\ ~Broken(3) /\ ~Broken(4) /\ ~Broken(5)
           /\ ~Broken(6) /\ ~Broken(7) /\ ~Broken(8) /\ ~Broken(9)
      BY <2>6, <2>7, <2>8, <2>9, <2>10, <2>11
    <2> HIDE DEF Broken
    <2> QED
      BY <2>12, <2>13, <2>14
  <1> QED
    BY <1>1, <1>2

\* What a path must be for a refusal to blame it under this name.
Offends(p, violation, work, policy, attached) ==
    CASE violation = "protected_path"   -> p \in Malformed \cup Protected
      [] violation = "symlink"          -> work[p] = "link"
      [] violation = "denied_path"      -> p \in policy.deny
      [] violation = "not_allowed_path" -> p \notin attached \cup policy.allow
      [] violation = "new_dependency"   -> policy.forbidNewDependencies /\ p \in Vendored
      [] violation = "external_code"    -> policy.forbidExternalCode /\ work[p] = "frame"
      [] OTHER                          -> FALSE

\* What the client and the agent are told of a refusal is true: the paths blamed were
\* changed, and each of them alone breaks the rule named, whatever else the change holds;
\* where no path is blamed, a count is over its ceiling (gate.ts gate, GateViolation).
THEOREM BlameIsDeserved ==
  ASSUME NEW base, NEW work, NEW policy, NEW attached,
         Verdict(base, work, policy, attached).broken
  PROVE  LET v == Verdict(base, work, policy, attached)
             files == ChangeSet(base, work)
         IN  /\ v.paths \subseteq files
             /\ \A p \in v.paths : Offends(p, v.violation, work, policy, attached)
             /\ v.paths = {} =>
                  \/ v.violation = "too_many_files" /\ Cardinality(files) > policy.maxFilesChanged
                  \/ v.violation = "too_many_lines" /\ TotalDiffLines(base, work) > policy.maxDiffLines
  <1> DEFINE rules == Rules(base, work, policy, attached)
             files == ChangeSet(base, work)
             Deserved(r) ==
                 /\ r.paths \subseteq files
                 /\ \A p \in r.paths : Offends(p, r.violation, work, policy, attached)
                 /\ r.paths = {} =>
                      \/ r.violation = "too_many_files" /\ Cardinality(files) > policy.maxFilesChanged
                      \/ r.violation = "too_many_lines" /\ TotalDiffLines(base, work) > policy.maxDiffLines
  <1>1. PICK i \in 1 .. 9 : rules[i].broken /\ Verdict(base, work, policy, attached) = rules[i]
    BY RefusalsAreRules
  <1>2. rules[1].broken => Deserved(rules[1])
    BY DEF Rules, Offends
  <1>3. rules[2].broken => Deserved(rules[2])
    BY DEF Rules, Offends
  <1>4. rules[3].broken => Deserved(rules[3])
    BY DEF Rules, Offends
  <1>5. rules[4].broken => Deserved(rules[4])
    BY DEF Rules, Offends
  <1>6. rules[5].broken => Deserved(rules[5])
    BY DEF Rules, Offends
  <1>7. rules[6].broken => Deserved(rules[6])
    BY DEF Rules, Offends
  <1>8. rules[7].broken => Deserved(rules[7])
    BY DEF Rules, Offends
  <1>9. rules[8].broken => Deserved(rules[8])
    BY DEF Rules, Offends
  <1>10. rules[9].broken => Deserved(rules[9])
    BY DEF Rules, Offends, AddsForeignCode
  <1> HIDE DEF rules, Deserved
  <1>11. i \in {1, 2, 3, 4, 5, 6, 7, 8, 9}
    BY <1>1
  <1>12. Deserved(rules[i])
    BY <1>1, <1>2, <1>3, <1>4, <1>5, <1>6, <1>7, <1>8, <1>9, <1>10, <1>11
  <1> QED
    BY <1>1, <1>12 DEF Deserved
-------------------------------------------------------------------------------
(* The bench *)

\* What is asked of the bench exists: the conversation, its branch, a policy.
OrderFits ==
    order # None =>
        /\ order.conversation \in Conversations /\ order.branch \in Branches
        /\ order.policy \in Policies

\* Until it pushes, a request's tree is over the commit its branch is at.
TreeIsOfBranch ==
    step \in {"equip", "slot", "agent", "keep", "keepCommit", "ceiling", "judge", "push"}
        => head = branch[order.branch]

Judged ==
    /\ judged = ChangeSet(head, tree)
    /\ ~Verdict(head, tree, order.policy, VerifyPlaced).broken

\* A verdict holds until what it was given on has left: nobody edits the tree of a
\* container that is gone.
VerdictStands ==
    /\ step \in {"ceiling", "judge", "push"} => box = "gone"
    /\ step = "push" \/ (step = "keepCommit" /\ box = "gone") => Judged

PromptIsOfOrder ==
    prompt # None => order # None /\ prompt.told.refused = order.refused

\* An ending says what a record of it must carry, but for the path of a refusal.
EndingIsTold ==
    /\ step \in {"keep", "keepCommit"} => ending.outcome = "failed"
    /\ step \in {"keep", "keepCommit", "finish"} =>
        /\ ending.outcome # "none"
        /\ ending.outcome = "failed" => ending.errorCode # "none"
        /\ ending.outcome = "blocked" => ending.violation # "none"

BenchInv ==
    /\ BenchTypeOK /\ OrderFits
    /\ TreeIsOfBranch /\ VerdictStands /\ PromptIsOfOrder /\ EndingIsTold

LEMMA TreesAreTrees ==
  /\ NoTree \in Trees
  /\ BenchTypeOK => Committed \in Trees
  BY DEF NoTree, Committed, BenchTypeOK, Trees, Content

LEMMA ChangesArePaths ==
  ASSUME NEW base, NEW after
  PROVE  ChangeSet(base, after) \subseteq Paths
  BY Zenon DEF ChangeSet

\* The endings, by what a record needs to know of them.
LEMMA EndingsAreTyped ==
  /\ \A code \in ErrorCodes :
        Failed(code) \in Endings /\ Failed(code).outcome = "failed" /\ Failed(code).errorCode = code
  /\ \A violation \in Violations, path \in Paths \cup {"none"} :
        /\ Blocked(violation, path) \in Endings
        /\ Blocked(violation, path).outcome = "blocked"
        /\ Blocked(violation, path).violation = violation
  /\ Succeeded \in Endings /\ Succeeded.outcome = "succeeded"
  /\ NoEnding \in Endings
  <1>a. "none" \in Violations /\ {"none", "blocked_by_policy"} \subseteq ErrorCodes
    BY DEF Violations, ErrorCodes
  <1>1. ASSUME NEW code \in ErrorCodes
        PROVE  Failed(code) \in Endings /\ Failed(code).outcome = "failed" /\ Failed(code).errorCode = code
    BY <1>a DEF Failed, NoEnding, Endings
  <1>2. ASSUME NEW violation \in Violations, NEW path \in Paths \cup {"none"}
        PROVE  /\ Blocked(violation, path) \in Endings
               /\ Blocked(violation, path).outcome = "blocked"
               /\ Blocked(violation, path).violation = violation
    BY <1>a DEF Blocked, NoEnding, Endings
  <1>3. Succeeded \in Endings /\ Succeeded.outcome = "succeeded"
    BY <1>a DEF Succeeded, NoEnding, Endings
  <1>4. NoEnding \in Endings
    BY <1>a DEF NoEnding, Endings
  <1> QED
    BY <1>1, <1>2, <1>3, <1>4

\* A path a refusal may report.
LEMMA RefusalsAreEndings ==
  ASSUME NEW verdict, verdict = Verdict(head, tree, order.policy, VerifyPlaced),
         verdict.broken,
         NEW path \in IF verdict.paths = {} THEN {"none"} ELSE verdict.paths
  PROVE  /\ Blocked(verdict.violation, path) \in Endings
         /\ Blocked(verdict.violation, path).outcome = "blocked"
         /\ Blocked(verdict.violation, path).violation # "none"
  <1>1. verdict.violation \in Violations \ {"none"} /\ verdict.paths \subseteq Paths
    BY RefusalsNameTheirRule
  <1>2. path \in Paths \cup {"none"}
    BY <1>1
  <1> QED
    BY <1>1, <1>2, EndingsAreTyped

\* What a run that was cut short leaves: an ending, and edits worth keeping or none.
LEMMA InterruptionsFit ==
  ASSUME NEW code \in ErrorCodes \ {"none"}, Interrupted(code)
  PROVE  /\ ending' \in Endings /\ ending'.outcome = "failed" /\ ending'.errorCode # "none"
         /\ step' \in {"keep", "finish"}
  BY EndingsAreTyped DEF Interrupted

LEMMA FailuresAreClassified ==
  ASSUME NEW refusal
  PROVE  ClassifyModelFailure(refusal) \in ErrorCodes \ {"none"}
  BY DEF ClassifyModelFailure, ErrorCodes

LEMMA KeptIsTyped ==
  ASSUME BenchTypeOK, OrderFits, order # None
  PROVE  /\ \A k \in Cleared(kept) : k \in [Conversations -> {None} \cup [base : Trees, tree : Trees]]
         /\ [kept EXCEPT ![Here] = [base |-> head, tree |-> Committed]]
                \in [Conversations -> {None} \cup [base : Trees, tree : Trees]]
         /\ Spend => kept' \in [Conversations -> {None} \cup [base : Trees, tree : Trees]]
  BY TreesAreTrees DEF BenchTypeOK, OrderFits, Cleared, Spend, Here

LEMMA AppliedIsTree ==
  ASSUME NEW onto \in Trees, NEW work \in [base : Trees, tree : Trees]
  PROVE  Applied(work, onto) \in Trees
  BY DEF Applied, Trees

LEMMA WorkKeepsTypes ==
  BenchTypeOK /\ OrderFits /\ Work => BenchTypeOK'
  <1> SUFFICES ASSUME BenchTypeOK, OrderFits, Work
               PROVE  BenchTypeOK'
    OBVIOUS
  <1> USE DEF BenchTypeOK, onDisk, agent, remote, EndWith, Steps
  <1>1. CASE Prepare
    <2>1. branch[order.branch] \in Trees /\ Here \in Conversations
      BY <1>1 DEF Prepare, OrderFits, Here
    <2>2. head' \in Trees /\ tree' \in Trees /\ resumed' \subseteq Paths
      BY <1>1, <2>1, AppliedIsTree, ChangesArePaths DEF Prepare, WorkingTreeOf
    <2>3. kept' \in [Conversations -> {None} \cup [base : Trees, tree : Trees]]
      BY <1>1, KeptIsTyped DEF Prepare
    <2> QED
      BY <1>1, <2>2, <2>3 DEF Prepare
  <1>2. CASE Equip
    <2>1. placed' \subseteq Paths
      <3>1. \A i \in DOMAIN UploadNames : UploadNames[i] \in Paths
        BY BenchConstants, LenProperties
      <3> QED
        BY <1>2, <3>1 DEF Equip, FirstFree, FreeNames
    <2>2. tree' \in Trees
      BY <1>2 DEF Equip, Trees, Content
    <2> QED
      BY <1>2, <2>1, <2>2 DEF Equip, WriteControlDir
  <1>3. CASE PrepareFails
    BY <1>3, EndingsAreTyped DEF PrepareFails, ErrorCodes
  <1>4. CASE TooBusy
    BY <1>4, EndingsAreTyped DEF TooBusy, ErrorCodes
  <1>5. CASE Launch
    BY <1>5, ChangesArePaths DEF Launch
  <1>6. CASE LaunchFails
    BY <1>6, EndingsAreTyped DEF LaunchFails, ErrorCodes
  <1>7. CASE AgentEdits
    <2>1. tree' \in Trees /\ edits' \in 0 .. MaxEdits
      BY <1>7, BenchConstants DEF AgentEdits, Trees
    <2> QED
      BY <1>7, <2>1 DEF AgentEdits
  <1>8. CASE AgentSucceeds
    BY <1>8, ChangesArePaths DEF AgentSucceeds
  <1>9. CASE AgentFails
    <2>1. PICK code \in ErrorCodes \ {"none"} : Interrupted(code)
      BY <1>9, FailuresAreClassified DEF AgentFails, ErrorCodes
    <2> QED
      BY <1>9, <2>1, InterruptionsFit DEF AgentFails
  <1>10. CASE TimesOut
    <2>1. Interrupted("agent_timeout")
      BY <1>10 DEF TimesOut
    <2> QED
      BY <1>10, <2>1, InterruptionsFit DEF TimesOut, Killed, ErrorCodes
  <1>11. CASE WaitFails
    <2>1. Interrupted("internal_error")
      BY <1>11 DEF WaitFails
    <2> QED
      BY <1>11, <2>1, InterruptionsFit DEF WaitFails, Killed, ErrorCodes
  <1>12. CASE KeepJudged
    BY <1>12, ChangesArePaths DEF KeepJudged
  <1>13. CASE Keep
    <2>1. [ending EXCEPT !.wipSaved = TRUE] \in Endings
      BY DEF Endings
    <2>2. kept' \in [Conversations -> {None} \cup [base : Trees, tree : Trees]]
      BY <1>13, KeptIsTyped DEF Keep
    <2>3. ending' \in Endings /\ step' = "finish"
      BY <1>13, <2>1 DEF Keep
    <2> QED
      BY <1>13, <2>2, <2>3 DEF Keep
  <1>14. CASE Dismiss
    <2>1. ending' \in Endings /\ step' = "finish"
      BY <1>14, EndingsAreTyped DEF Dismiss, ErrorCodes
    <2> QED
      BY <1>14, <2>1, KeptIsTyped DEF Dismiss
  <1>15. CASE Block
    <2>1. ending' \in Endings /\ step' = "finish"
      <3> DEFINE verdict == Verdict(head, tree, order.policy, VerifyPlaced)
      <3>1. PICK path \in IF verdict.paths = {} THEN {"none"} ELSE verdict.paths :
                EndWith(Blocked(verdict.violation, path))
        BY <1>15 DEF Block
      <3>2. verdict.broken
        BY <1>15 DEF Block
      <3> QED
        BY <3>1, <3>2, RefusalsAreEndings
    <2> QED
      BY <1>15, <2>1, KeptIsTyped DEF Block
  <1>16. CASE Pass
    BY <1>16, ChangesArePaths DEF Pass
  <1>17. CASE Publish
    <2>1. branch' \in [Branches -> Trees]
      BY <1>17, TreesAreTrees DEF Publish
    <2> QED
      BY <1>17, <2>1, KeptIsTyped DEF Publish
  <1>18. CASE PublishFails
    BY <1>18, EndingsAreTyped DEF PublishFails, ErrorCodes
  <1>19. CASE Preview
    BY <1>19, EndingsAreTyped DEF Preview, ErrorCodes
  <1> QED
    BY <1>1, <1>2, <1>3, <1>4, <1>5, <1>6, <1>7, <1>8, <1>9, <1>10,
       <1>11, <1>12, <1>13, <1>14, <1>15, <1>16, <1>17, <1>18, <1>19 DEF Work

LEMMA WorkKeepsBase ==
  BenchInv /\ Work => TreeIsOfBranch'
  <1> SUFFICES ASSUME BenchInv, Work
               PROVE  TreeIsOfBranch'
    OBVIOUS
  <1> USE DEF BenchInv, BenchTypeOK, TreeIsOfBranch, onDisk, agent, remote, EndWith
  <1>1. CASE Prepare
    BY <1>1 DEF Prepare, WorkingTreeOf
  <1>2. CASE Equip
    BY <1>2 DEF Equip
  <1>3. CASE PrepareFails
    BY <1>3 DEF PrepareFails
  <1>4. CASE TooBusy
    BY <1>4 DEF TooBusy
  <1>5. CASE Launch
    BY <1>5 DEF Launch
  <1>6. CASE LaunchFails
    BY <1>6 DEF LaunchFails
  <1>7. CASE AgentEdits
    BY <1>7 DEF AgentEdits
  <1>8. CASE AgentSucceeds
    BY <1>8 DEF AgentSucceeds
  <1>9. CASE AgentFails
    BY <1>9 DEF AgentFails, Interrupted
  <1>10. CASE TimesOut
    BY <1>10 DEF TimesOut, Interrupted
  <1>11. CASE WaitFails
    BY <1>11 DEF WaitFails, Interrupted
  <1>12. CASE KeepJudged
    BY <1>12 DEF KeepJudged
  <1>13. CASE Keep
    BY <1>13 DEF Keep
  <1>14. CASE Dismiss
    BY <1>14 DEF Dismiss
  <1>15. CASE Block
    BY <1>15 DEF Block
  <1>16. CASE Pass
    BY <1>16 DEF Pass
  <1>17. CASE Publish
    BY <1>17 DEF Publish
  <1>18. CASE PublishFails
    BY <1>18 DEF PublishFails
  <1>19. CASE Preview
    BY <1>19 DEF Preview
  <1> QED
    BY <1>1, <1>2, <1>3, <1>4, <1>5, <1>6, <1>7, <1>8, <1>9, <1>10,
       <1>11, <1>12, <1>13, <1>14, <1>15, <1>16, <1>17, <1>18, <1>19 DEF Work

\* An edit finds a container that runs, and then no verdict has to stand.
LEMMA WorkKeepsVerdict ==
  BenchInv /\ Work => VerdictStands'
  <1> SUFFICES ASSUME BenchInv, Work
               PROVE  VerdictStands'
    OBVIOUS
  <1> USE DEF BenchInv, VerdictStands, Judged, VerifyPlaced, onDisk, agent, remote, EndWith
  <1>1. CASE Prepare
    BY <1>1 DEF Prepare
  <1>2. CASE Equip
    BY <1>2 DEF Equip
  <1>3. CASE PrepareFails
    BY <1>3 DEF PrepareFails
  <1>4. CASE TooBusy
    BY <1>4 DEF TooBusy
  <1>5. CASE Launch
    BY <1>5 DEF Launch
  <1>6. CASE LaunchFails
    BY <1>6 DEF LaunchFails
  <1>7. CASE AgentEdits
    BY <1>7 DEF AgentEdits
  <1>8. CASE AgentSucceeds
    BY <1>8 DEF AgentSucceeds
  <1>9. CASE AgentFails
    BY <1>9 DEF AgentFails, Interrupted
  <1>10. CASE TimesOut
    BY <1>10 DEF TimesOut, Interrupted
  <1>11. CASE WaitFails
    BY <1>11 DEF WaitFails, Interrupted
  <1>12. CASE KeepJudged
    BY <1>12 DEF KeepJudged
  <1>13. CASE Keep
    BY <1>13 DEF Keep
  <1>14. CASE Dismiss
    BY <1>14 DEF Dismiss
  <1>15. CASE Block
    BY <1>15 DEF Block
  <1>16. CASE Pass
    BY <1>16 DEF Pass
  <1>17. CASE Publish
    BY <1>17 DEF Publish
  <1>18. CASE PublishFails
    BY <1>18 DEF PublishFails
  <1>19. CASE Preview
    BY <1>19 DEF Preview
  <1> QED
    BY <1>1, <1>2, <1>3, <1>4, <1>5, <1>6, <1>7, <1>8, <1>9, <1>10,
       <1>11, <1>12, <1>13, <1>14, <1>15, <1>16, <1>17, <1>18, <1>19 DEF Work

LEMMA WorkKeepsPrompt ==
  BenchInv /\ Work => PromptIsOfOrder'
  <1> SUFFICES ASSUME BenchInv, Work
               PROVE  PromptIsOfOrder'
    OBVIOUS
  <1> USE DEF BenchInv, BenchTypeOK, PromptIsOfOrder, onDisk, agent, remote
  <1>1. CASE Prepare
    BY <1>1 DEF Prepare
  <1>2. CASE Equip
    BY <1>2 DEF Equip, WriteControlDir, AssemblePrompt, Sections
  <1>3. CASE PrepareFails
    BY <1>3 DEF PrepareFails
  <1>4. CASE TooBusy
    BY <1>4 DEF TooBusy
  <1>5. CASE Launch
    BY <1>5 DEF Launch
  <1>6. CASE LaunchFails
    BY <1>6 DEF LaunchFails
  <1>7. CASE AgentEdits
    BY <1>7 DEF AgentEdits
  <1>8. CASE AgentSucceeds
    BY <1>8 DEF AgentSucceeds
  <1>9. CASE AgentFails
    BY <1>9 DEF AgentFails
  <1>10. CASE TimesOut
    BY <1>10 DEF TimesOut
  <1>11. CASE WaitFails
    BY <1>11 DEF WaitFails
  <1>12. CASE KeepJudged
    BY <1>12 DEF KeepJudged
  <1>13. CASE Keep
    BY <1>13 DEF Keep
  <1>14. CASE Dismiss
    BY <1>14 DEF Dismiss
  <1>15. CASE Block
    BY <1>15 DEF Block
  <1>16. CASE Pass
    BY <1>16 DEF Pass
  <1>17. CASE Publish
    BY <1>17 DEF Publish
  <1>18. CASE PublishFails
    BY <1>18 DEF PublishFails
  <1>19. CASE Preview
    BY <1>19 DEF Preview
  <1> QED
    BY <1>1, <1>2, <1>3, <1>4, <1>5, <1>6, <1>7, <1>8, <1>9, <1>10,
       <1>11, <1>12, <1>13, <1>14, <1>15, <1>16, <1>17, <1>18, <1>19 DEF Work

LEMMA WorkKeepsEnding ==
  BenchInv /\ Work => EndingIsTold'
  <1> SUFFICES ASSUME BenchInv, Work
               PROVE  EndingIsTold'
    OBVIOUS
  <1> USE DEF BenchInv, EndingIsTold, onDisk, agent, remote, EndWith
  <1>1. CASE Prepare
    BY <1>1, EndingsAreTyped DEF Prepare, ErrorCodes
  <1>2. CASE Equip
    BY <1>2, EndingsAreTyped DEF Equip, ErrorCodes
  <1>3. CASE PrepareFails
    BY <1>3, EndingsAreTyped DEF PrepareFails, ErrorCodes
  <1>4. CASE TooBusy
    BY <1>4, EndingsAreTyped DEF TooBusy, ErrorCodes
  <1>5. CASE Launch
    BY <1>5, EndingsAreTyped DEF Launch, ErrorCodes
  <1>6. CASE LaunchFails
    BY <1>6, EndingsAreTyped DEF LaunchFails, ErrorCodes
  <1>7. CASE AgentEdits
    BY <1>7, EndingsAreTyped DEF AgentEdits, ErrorCodes
  <1>8. CASE AgentSucceeds
    BY <1>8, EndingsAreTyped DEF AgentSucceeds, ErrorCodes
  <1>9. CASE AgentFails
    <2>1. PICK code \in ErrorCodes \ {"none"} : Interrupted(code)
      BY <1>9, FailuresAreClassified DEF AgentFails, ErrorCodes
    <2> QED
      BY <1>9, <2>1, InterruptionsFit DEF AgentFails
  <1>10. CASE TimesOut
    <2>1. Interrupted("agent_timeout")
      BY <1>10 DEF TimesOut
    <2> QED
      BY <1>10, <2>1, InterruptionsFit DEF TimesOut, ErrorCodes
  <1>11. CASE WaitFails
    <2>1. Interrupted("internal_error")
      BY <1>11 DEF WaitFails
    <2> QED
      BY <1>11, <2>1, InterruptionsFit DEF WaitFails, ErrorCodes
  <1>12. CASE KeepJudged
    BY <1>12, EndingsAreTyped DEF KeepJudged, ErrorCodes
  <1>13. CASE Keep
    <2>1. /\ step' = "finish" /\ ending'.outcome = ending.outcome
          /\ ending'.errorCode = ending.errorCode /\ ending'.violation = ending.violation
      BY <1>13 DEF Keep, Endings, BenchTypeOK
    <2> QED
      BY <1>13, <2>1 DEF Keep
  <1>14. CASE Dismiss
    BY <1>14, EndingsAreTyped DEF Dismiss, ErrorCodes
  <1>15. CASE Block
    <2> DEFINE verdict == Verdict(head, tree, order.policy, VerifyPlaced)
    <2>1. PICK path \in IF verdict.paths = {} THEN {"none"} ELSE verdict.paths :
              EndWith(Blocked(verdict.violation, path))
      BY <1>15 DEF Block
    <2>2. verdict.broken
      BY <1>15 DEF Block
    <2>3. ending'.outcome = "blocked" /\ ending'.violation # "none"
      BY <2>1, <2>2, RefusalsAreEndings
    <2> QED
      BY <1>15, <2>3 DEF Block
  <1>16. CASE Pass
    BY <1>16, EndingsAreTyped DEF Pass, ErrorCodes
  <1>17. CASE Publish
    BY <1>17, EndingsAreTyped DEF Publish, ErrorCodes
  <1>18. CASE PublishFails
    BY <1>18, EndingsAreTyped DEF PublishFails, ErrorCodes
  <1>19. CASE Preview
    BY <1>19, EndingsAreTyped DEF Preview, ErrorCodes
  <1> QED
    BY <1>1, <1>2, <1>3, <1>4, <1>5, <1>6, <1>7, <1>8, <1>9, <1>10,
       <1>11, <1>12, <1>13, <1>14, <1>15, <1>16, <1>17, <1>18, <1>19 DEF Work

LEMMA WorkKeepsBench ==
  BenchInv /\ Work => BenchInv' /\ order' = order
  <1> SUFFICES ASSUME BenchInv, Work
               PROVE  BenchInv' /\ order' = order
    OBVIOUS
  <1>1. order' = order
    BY DEF Work, Prepare, Equip, PrepareFails, TooBusy, Launch, LaunchFails, AgentEdits, AgentSucceeds, AgentFails, TimesOut,
           WaitFails, KeepJudged, Keep, Dismiss, Block, Pass, Publish, PublishFails, Preview
  <1>2. OrderFits'
    BY <1>1 DEF BenchInv, OrderFits
  <1> QED
    BY <1>1, <1>2, WorkKeepsTypes, WorkKeepsBase, WorkKeepsVerdict, WorkKeepsPrompt,
       WorkKeepsEnding DEF BenchInv

\* A step of the bench publishes, and keeps, what the policy permits.
LEMMA WorkLeavesJudged ==
  BenchInv /\ Work => JudgedLeaves
  <1> SUFFICES ASSUME BenchInv, Work
               PROVE  JudgedLeaves
    OBVIOUS
  <1> DEFINE permitted == Permitted(head, Committed, order.policy, Untouched(Committed))
  <1>1. Judged /\ order # None => permitted
    <2> SUFFICES ASSUME Judged, order # None
                 PROVE  permitted
      OBVIOUS
    <2>1. head \in Trees /\ tree \in Trees /\ placed \subseteq Paths
      BY DEF BenchInv, BenchTypeOK
    <2>2. order.policy \in Policies
      BY DEF BenchInv, OrderFits
    <2>3. Committed = [p \in Paths |-> IF p \in ChangeSet(head, tree) THEN tree[p] ELSE head[p]]
      BY DEF Committed, Judged
    <2>4. ~Verdict(head, tree, order.policy, VerifyPlaced).broken
      BY DEF Judged
    <2>5. ChangeSet(head, tree) \cap VerifyPlaced \subseteq Untouched(Committed)
      BY <2>1, <2>3 DEF VerifyPlaced, Untouched
    <2> QED
      BY <2>1, <2>2, <2>3, <2>4, <2>5, PassedIsPermitted
  <1>2. CASE Publish
    <2>1. order # None /\ head = branch[order.branch] /\ permitted
      BY <1>1, <1>2 DEF Publish, BenchInv, BenchTypeOK, TreeIsOfBranch, VerdictStands
    <2>2. \A n \in Branches : branch'[n] # branch[n] => n = order.branch /\ branch'[n] = Committed
      BY <1>2 DEF Publish, BenchInv, BenchTypeOK
    <2>3. \A c \in Conversations : kept'[c] \in {None, kept[c]}
      BY <1>2 DEF Publish, Spend, Cleared, BenchInv, BenchTypeOK
    <2> QED
      BY <2>1, <2>2, <2>3 DEF JudgedLeaves
  <1>3. CASE Keep
    <2>1. order # None /\ (box = "gone" => permitted)
      BY <1>1, <1>3 DEF Keep, BenchInv, BenchTypeOK, VerdictStands
    <2>2. branch' = branch
      BY <1>3 DEF Keep
    <2>3. \A c \in Conversations : kept'[c] # kept[c] =>
            /\ c = order.conversation
            /\ kept'[c].base = head /\ kept'[c].tree = Committed
      BY <1>3 DEF Keep, Here, BenchInv, BenchTypeOK
    <2> QED
      BY <2>1, <2>2, <2>3 DEF JudgedLeaves
  <1>4. CASE Prepare \/ Dismiss \/ Block
    <2>1. branch' = branch
      BY <1>4 DEF Prepare, Dismiss, Block
    <2>2. \A c \in Conversations : kept'[c] \in {None, kept[c]}
      BY <1>4 DEF Prepare, Dismiss, Block, Spend, Cleared, BenchInv, BenchTypeOK
    <2> QED
      BY <2>1, <2>2 DEF JudgedLeaves
  <1>5. CASE ~(Publish \/ Keep \/ Prepare \/ Dismiss \/ Block)
    <2>1. UNCHANGED remote
      BY <1>5 DEF Work, remote, Equip, PrepareFails, TooBusy, Launch, LaunchFails, AgentEdits,
         AgentSucceeds, AgentFails, TimesOut, WaitFails, KeepJudged, Pass, PublishFails, Preview
    <2> QED
      BY <2>1 DEF JudgedLeaves, remote
  <1> QED
    BY <1>2, <1>3, <1>4, <1>5

\* The work neither begins nor ends the wait for the tree to be discarded.
LEMMA WorkDiscardsNothing ==
  Work => (step' = "discard" <=> step = "discard")
  BY DEF Work, Prepare, Equip, PrepareFails, TooBusy, Launch, LaunchFails, AgentEdits,
     AgentSucceeds, AgentFails, TimesOut, WaitFails, Interrupted, KeepJudged, Keep, Dismiss, Block,
     Pass, Publish, PublishFails, Preview, EndWith

\* The steps around the work: nothing of them reaches a branch or the kept work.
LEMMA BeginKeepsBench ==
  ASSUME BenchInv, NEW request, Begin(request), request # None,
         request.conversation \in Conversations, request.branch \in Branches,
         request.policy \in Policies
  PROVE  BenchInv' /\ JudgedLeaves
  <1> USE DEF BenchInv, Begin, onDisk, agent, remote
  <1>1. BenchTypeOK'
    BY DEF BenchTypeOK, Steps
  <1>2. OrderFits'
    BY DEF OrderFits
  <1>3. prompt = None
    BY DEF PromptIsOfOrder, BenchTypeOK
  <1>4. TreeIsOfBranch' /\ VerdictStands' /\ PromptIsOfOrder' /\ EndingIsTold'
    BY <1>3 DEF TreeIsOfBranch, VerdictStands, PromptIsOfOrder, EndingIsTold
  <1>5. JudgedLeaves
    BY DEF JudgedLeaves
  <1> QED
    BY <1>1, <1>2, <1>4, <1>5

LEMMA FinishKeepsBench ==
  BenchInv /\ Finish => BenchInv' /\ JudgedLeaves
  <1> SUFFICES ASSUME BenchInv, Finish
               PROVE  BenchInv' /\ JudgedLeaves
    OBVIOUS
  <1> USE DEF BenchInv, Finish, onDisk, agent, remote
  <1>1. BenchTypeOK'
    BY EndingsAreTyped DEF BenchTypeOK, Steps
  <1>2. OrderFits'
    BY DEF OrderFits
  <1>3. TreeIsOfBranch' /\ VerdictStands' /\ PromptIsOfOrder' /\ EndingIsTold'
    BY DEF TreeIsOfBranch, VerdictStands, PromptIsOfOrder, EndingIsTold
  <1>4. JudgedLeaves
    BY DEF JudgedLeaves
  <1> QED
    BY <1>1, <1>2, <1>3, <1>4

LEMMA CleanUpKeepsBench ==
  BenchInv /\ CleanUp => BenchInv' /\ JudgedLeaves
  <1> SUFFICES ASSUME BenchInv, CleanUp
               PROVE  BenchInv' /\ JudgedLeaves
    OBVIOUS
  <1> USE DEF BenchInv, CleanUp, remote
  <1>1. BenchTypeOK'
    BY TreesAreTrees, BenchConstants DEF BenchTypeOK, Steps
  <1>2. OrderFits' /\ TreeIsOfBranch' /\ VerdictStands' /\ PromptIsOfOrder' /\ EndingIsTold'
    BY DEF OrderFits, TreeIsOfBranch, VerdictStands, PromptIsOfOrder, EndingIsTold
  <1>3. JudgedLeaves
    BY DEF JudgedLeaves
  <1> QED
    BY <1>1, <1>2, <1>3

LEMMA RestKeepsBench ==
  BenchInv /\ UNCHANGED benchVars => BenchInv' /\ JudgedLeaves
  <1> SUFFICES ASSUME BenchInv, UNCHANGED benchVars
               PROVE  BenchInv' /\ JudgedLeaves
    OBVIOUS
  <1> USE DEF BenchInv, benchVars, bench, remote
  <1>1. BenchTypeOK' /\ OrderFits'
    BY DEF BenchTypeOK, OrderFits
  <1>2. TreeIsOfBranch' /\ PromptIsOfOrder' /\ EndingIsTold'
    BY DEF TreeIsOfBranch, PromptIsOfOrder, EndingIsTold
  <1>3. VerdictStands'
    BY DEF VerdictStands, Judged, VerifyPlaced
  <1>4. JudgedLeaves
    BY DEF JudgedLeaves
  <1> QED
    BY <1>1, <1>2, <1>3, <1>4

\* The bench before the first request.
LEMMA BenchAtFirst ==
  ASSUME InitBench, branch \in [Branches -> Trees], kept = [c \in Conversations |-> None]
  PROVE  BenchInv
  <1> USE DEF InitBench
  <1>1. BenchTypeOK
    BY TreesAreTrees, BenchConstants, EndingsAreTyped DEF BenchTypeOK, Steps
  <1>2. OrderFits /\ TreeIsOfBranch /\ VerdictStands /\ PromptIsOfOrder /\ EndingIsTold
    BY DEF OrderFits, TreeIsOfBranch, VerdictStands, PromptIsOfOrder, EndingIsTold
  <1> QED
    BY <1>1, <1>2 DEF BenchInv
=================================================================================
