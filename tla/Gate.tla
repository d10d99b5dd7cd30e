--------------------------------- MODULE Gate ---------------------------------
(* What a change is, and whether it may be committed: the change set git's   *)
(* status shows (lib/mirror/changeset.ts), the policy a site declares        *)
(* (lib/policy/parse.ts) and the rules that judge the one by the other       *)
(* (lib/policy/gate.ts).                                                     *)
(*                                                                           *)
(* A glob stands for the set of paths it matches, a file for what the rules  *)
(* can tell of it: whether it is there, is text or binary, is a symbolic     *)
(* link, or embeds something of another origin.                              *)
EXTENDS Integers, FiniteSets

CONSTANTS
    Paths,          \* the paths a change may touch
    ClassesOf       \* what the product's own patterns say of each of them

Classes == {"malformed", "protected", "vendored", "markup", "ignored"}

ASSUME PathClasses ==
    IsFiniteSet(Paths) /\ ClassesOf \in [Paths -> SUBSET Classes]

Matching(class) == {p \in Paths : class \in ClassesOf[p]}

\* Those no rule can be trusted with: empty, absolute, with a `..` or odd blanks.
Malformed == Matching("malformed")
\* UNCONDITIONAL_DENIES: what runs, builds, deploys or configures the site.
Protected == Matching("protected")
\* A vendor directory, at any depth.
Vendored == Matching("vendored")
\* The extensions of markup and script.
Markup == Matching("markup")
\* What the site's .gitignore covers.
Ignored == Matching("ignored")

\* none: no file.  page: the site's text.  edit: the agent's text.  frame: the agent's
\* text with an <iframe> where the rules look for one.  photo: an image.  link: a
\* symbolic link.
Content == {"none", "page", "edit", "frame", "photo", "link"}
Trees   == [Paths -> Content]

------------------------------------------------------------------------------
\* The change set

\* What the status of a tree over its HEAD says of a path.  An ignored file that
\* is not tracked is not listed; a tracked file replaced by a link, or a link by
\* a file, is listed as a change of type, a combination classifyStatus drops.
KindOf(base, tree, p) ==
    IF tree[p] = base[p] THEN "unchanged"
    ELSE IF base[p] = "none" THEN IF p \in Ignored THEN "ignored" ELSE "added"
    ELSE IF tree[p] = "none" THEN "deleted"
    ELSE IF "link" \in {base[p], tree[p]} THEN "retyped" ELSE "modified"

ChangeSet(base, tree) ==
    {p \in Paths : KindOf(base, tree, p) \in {"added", "deleted", "modified"}}

\* Every text file is one line; a binary one is charged a fixed number of them,
\* a link one line whatever it points at.
BinaryCost == 20
CostOf(content) ==
    CASE content = "none"  -> 0
      [] content = "photo" -> BinaryCost
      [] OTHER             -> 1

DiffLines(base, tree, p) ==
    IF "photo" \in {base[p], tree[p]} THEN BinaryCost
    ELSE CostOf(base[p]) + CostOf(tree[p])

TotalDiffLines(base, tree) ==
    Cardinality(UNION {{p} \X (1 .. DiffLines(base, tree, p)) :
                           p \in ChangeSet(base, tree)})

\* The added text alone is read for foreign code, and its first 400,000 characters: a new
\* file's content, an edited one's new lines; never a deletion's, a link's or that of a
\* file with a NUL byte.  "frame" is foreign code that is found there.
AddsForeignCode(base, tree, p) ==
    p \in ChangeSet(base, tree) /\ tree[p] = "frame"

------------------------------------------------------------------------------
\* The policy

Policies ==
    [allow : SUBSET Paths, deny : SUBSET Paths, maxFilesChanged : Nat, maxDiffLines : Nat,
     forbidNewDependencies : BOOLEAN, forbidExternalCode : BOOLEAN]

DefaultPolicy ==
    [allow |-> Paths, deny |-> {}, maxFilesChanged |-> 15, maxDiffLines |-> 800,
     forbidNewDependencies |-> TRUE, forbidExternalCode |-> TRUE]

\* A policy file declares some of the fields; the others keep their defaults.  A
\* site without the file has declared none.
ParsePolicy(file) ==
    [field \in DOMAIN DefaultPolicy |->
        IF field \in DOMAIN file THEN file[field] ELSE DefaultPolicy[field]]

------------------------------------------------------------------------------
\* The gate

Violations ==
    {"none", "protected_path", "symlink", "denied_path", "not_allowed_path",
     "too_many_files", "too_many_lines", "new_dependency", "external_code"}

\* The rules in their order, each with the paths that break it; the two rules on
\* size have no path to blame.  `attached` are the files the host placed for the
\* client and found untouched: rule 3, the allow list, excepts them.
Rules(base, tree, policy, attached) ==
    LET files == ChangeSet(base, tree)
        On(name, offenders) ==
            [violation |-> name, broken |-> offenders # {}, paths |-> offenders]
        Size(name, exceeded) ==
            [violation |-> name, broken |-> exceeded, paths |-> {}]
    IN  << On("protected_path", files \cap Malformed),
           On("symlink", {p \in files : tree[p] = "link"}),
           On("protected_path", files \cap Protected),
           On("denied_path", files \cap policy.deny),
           On("not_allowed_path", files \ (attached \cup policy.allow)),
           Size("too_many_files", Cardinality(files) > policy.maxFilesChanged),
           Size("too_many_lines", TotalDiffLines(base, tree) > policy.maxDiffLines),
           On("new_dependency",
              IF policy.forbidNewDependencies THEN files \cap Vendored ELSE {}),
           On("external_code",
              {p \in Markup : policy.forbidExternalCode
                                /\ AddsForeignCode(base, tree, p)}) >>

Passed == [violation |-> "none", broken |-> FALSE, paths |-> {}]

\* The first rule broken governs; the path reported is one of its offenders.
Verdict(base, tree, policy, attached) ==
    LET rules == Rules(base, tree, policy, attached)
    IN  IF \A i \in DOMAIN rules : ~rules[i].broken
        THEN Passed
        ELSE rules[CHOOSE i \in DOMAIN rules :
                       rules[i].broken /\ \A j \in 1 .. (i - 1) : ~rules[j].broken]
===============================================================================
