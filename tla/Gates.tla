--------------------------------- MODULE Gates ---------------------------------
(***************************************************************************)
(* The gates: ci/verify-gates.sh, and ci/negative-gate.sh as its last step *)
(* (CI runs the same script).  Gates run tools over the repository; the    *)
(* negative gate runs them over planted faults, to prove that they fire.   *)
(*                                                                         *)
(* The repository may be at fault in several ways at once, and so may the  *)
(* tools: a rule that never fires, or fires outside the core; a tool that  *)
(* fails for a reason of its own, at any run.  Green must still mean what  *)
(* it says.  Both scripts run under set -e: the first failing step ends    *)
(* them, unless what fails is the condition of an if.                      *)
(***************************************************************************)
EXTENDS Integers, Sequences, FiniteSets

CONSTANT MaxWrong   \* bound: how many things are wrong at once

(* The imports that are banned: of the repository by its own configuration, *)
(* of the planted faults by the template for repositories with a core.      *)
RepositoryImports == {"canonical-core"}
TemplateImports   == {"deterministic-core"}

(* The analyzer's rules; the range over a map is banned in the core only.   *)
VetRules == {"marshal", "range"}

(* What the annex checker looks for in a vector, then over all of the annex. *)
(* It reports the first thing that fails and stops.                          *)
VectorChecks == <<"decode", "validate", "fields", "reencode", "sha256", "purpose",
                  "signature", "forgeries">>
AnnexChecks  == <<"merkle", "coverage", "binding">>
EachOf(seq)  == {seq[i] : i \in DOMAIN seq}

Rules == RepositoryImports \union TemplateImports \union VetRules
           \union EachOf(VectorChecks) \union EachOf(AnnexChecks)

(* The rules with a scope.  Without -detpath the analyzer takes the scope   *)
(* that is its default, in which this repository is not.                    *)
Scoped == {"deterministic-core", "range"}

(* The annex: the two vectors the negative gate changes, and one that stands *)
(* for all others, in their order.  Only the blobs have a key.               *)
Vectors     == <<"header/v1/zero-root", "signed/v1/commit", "blob/v1/signed-by-test-key">>
Unkeyed     == {"signed/v1/commit"}
ChecksOf(v) == EachOf(VectorChecks) \ (IF v \in Unkeyed THEN {"purpose", "signature"} ELSE {})

(* What else a repository can be refused for. *)
Refusals == {"go.work", "replace", "tests", "analyzer-tests", "build",
             "lint-config", "other-lint", "drift", "dirty"}

Faults == Refusals \union RepositoryImports \union VetRules \union EachOf(AnnexChecks)

VARIABLES tree,     \* what is wrong with the repository: rules it breaks, refusals
          annex,    \* of each vector in it, the checks that it fails
          health,   \* of each rule, and -detpath: "works", "dead" or "unscoped"
          git,      \* whether git works here
          pc,       \* the step of the scripts
          rc, out,  \* the exit code and the findings of the negative gate's last run
          failed,   \* history: the steps at which a command could not do its
                    \* work, with what it had found and printed
          status    \* "running", "failed" or "green"

world == <<annex, health, git>>
vars  == <<tree, world, pc, rc, out, failed, status>>

-----------------------------------------------------------------------------
(* The scripts, a step a line. *)
Refuse(fault)     == [do |-> "refuse", fault |-> fault]
Inspect(tool)     == [do |-> "inspect", tool |-> tool]
RunTool(tool, on) == [do |-> "run", tool |-> tool, on |-> on]
Expect(code)      == [do |-> "expect", code |-> code]
Fired(rule)       == [do |-> "fired", rule |-> rule]
Silent(rule)      == [do |-> "silent", rule |-> rule]

VerifyGates ==
  << Refuse("go.work"), Refuse("replace"), Refuse("tests"), Refuse("analyzer-tests"),
     Refuse("build"), Inspect("go-vet"), Refuse("lint-config"), Refuse("other-lint"),
     Inspect("golangci-lint"), [do |-> "format"], [do |-> "diff"],
     Inspect("verify_vectors.py") >>

NegativeGate ==
  << Refuse("build"),
     RunTool("golangci-lint", "det"), Expect(1), Fired("deterministic-core"),
     RunTool("go-vet", "det"), Expect(1), Fired("marshal"), Fired("range"),
     RunTool("golangci-lint", "edge"), Expect(0), Silent("deterministic-core"),
     RunTool("go-vet", "edge"), Expect(0), Silent("range"),
     RunTool("verify_vectors.py", "der"), Expect(1), Fired("fields"),
     RunTool("verify_vectors.py", "value"), Expect(1), Fired("signature") >>

Script == VerifyGates \o NegativeGate
step   == Script[pc]

-----------------------------------------------------------------------------
(* mutate copies the annex with one fault; value sets sha256 right, so that  *)
(* nothing but the signature is wrong.  A vector that is not there is left.  *)
mutate(case) ==
  [v \in DOMAIN annex |->
     CASE case = "der" /\ v = "signed/v1/commit" -> annex[v] \union {"fields", "sha256"}
       [] case = "value" /\ v = "blob/v1/signed-by-test-key"
            -> (annex[v] \ {"sha256"}) \union {"signature"}
       [] OTHER -> annex[v]]

\* Mutant: the negative control holds nothing that is banned in the core.
plantedInCoreOnly(on) == CASE on = "det"  -> TemplateImports \union VetRules
                           [] on = "edge" -> {}
                           [] OTHER       -> tree \ Refusals

(* The rules that are broken by what a tool is run on: edge is not in the    *)
(* core, and has its imports and a range over a map, but feeds no hash.      *)
planted(on) == CASE on = "det"  -> TemplateImports \union VetRules
                 [] on = "edge" -> TemplateImports \union {"range"}
                 [] OTHER       -> tree \ Refusals

(* det is in the core and edge is not; all of the repository is, for the     *)
(* analyzer by -detpath only.                                                *)
InScope(r, on) == /\ on = "edge" => r \notin Scoped
                  /\ on = "repository" /\ r = "range" => health["detpath"] = "works"

FiresOn(r, on) == /\ r \in planted(on)
                  /\ health[r] # "dead"
                  /\ health[r] = "unscoped" \/ InScope(r, on)

(* The checks that a vector of the annex is seen to fail. *)
FailsOn(v, on) == {c \in mutate(on)[v] : health[c] # "dead"}

FirstIn(seq, S) == {seq[i] : i \in {j \in DOMAIN seq :
                      seq[j] \in S /\ \A k \in 1 .. j - 1 : seq[k] \notin S}}

(* check_vector on each, then what main looks at. *)
AnnexFindings(on) ==
  LET bad == {v \in DOMAIN annex : FailsOn(v, on) # {}}
  IN  IF bad # {}
        THEN UNION {FirstIn(VectorChecks, FailsOn(v, on)) : v \in FirstIn(Vectors, bad)}
        ELSE FirstIn(AnnexChecks, {c \in EachOf(AnnexChecks) : FiresOn(c, on)})

Findings(tool, on) ==
  CASE tool = "golangci-lint" ->
         {r \in IF on = "repository" THEN RepositoryImports ELSE TemplateImports : FiresOn(r, on)}
    [] tool = "go-vet" -> {r \in VetRules : FiresOn(r, on)}
    [] OTHER           -> AnnexFindings(on)

(* How a tool ends that could not do its work: golangci-lint 3, on a config *)
(* error; go vet 1 or 2, on code that does not build or on its flags; a     *)
(* Python traceback 1.  It may have printed some of its findings before.    *)
CrashCodes(tool) == CASE tool = "golangci-lint" -> {3}
                      [] tool = "go-vet"        -> {1, 2}
                      [] OTHER                  -> {1}

-----------------------------------------------------------------------------
(* One thing that may be wrong, and "nothing" for none. *)
Troubles == {<<"nothing">>, <<"no git">>}
              \union ({"broken"} \X Faults)
              \union ({"dead"} \X (Rules \union {"detpath"})) \union ({"unscoped"} \X Scoped)
              \union ({"missing"} \X {"signed/v1/commit", "blob/v1/signed-by-test-key"})
              \union UNION {{v} \X ChecksOf(v) : v \in EachOf(Vectors)}

Init == /\ \E wrong \in [1 .. MaxWrong -> Troubles] :
             LET W == {wrong[i] : i \in 1 .. MaxWrong}
             IN  /\ tree = {f \in Faults : <<"broken", f>> \in W}
                 /\ annex = [v \in {w \in EachOf(Vectors) : <<"missing", w>> \notin W} |->
                               {c \in ChecksOf(v) : <<v, c>> \in W}]
                 /\ health = [r \in Rules \union {"detpath"} |->
                                IF <<"dead", r>> \in W THEN "dead"
                                ELSE IF <<"unscoped", r>> \in W THEN "unscoped" ELSE "works"]
                 /\ git = (<<"no git">> \notin W)
        /\ pc = 1 /\ rc = 0 /\ out = {} /\ failed = {} /\ status = "running"

Continue == /\ pc' = IF pc = Len(Script) THEN pc ELSE pc + 1
            /\ status' = IF pc = Len(Script) THEN "green" ELSE "running"

Fail == status' = "failed" /\ UNCHANGED pc

PassIf(ok) == IF ok THEN Continue ELSE Fail

(* A command of this step, which may have printed findings, fails.           *)
Failing(printed) == failed' = failed \union {[at |-> pc, printed |-> printed]}

(* Tracked files are git's to list: it has to work here to answer.           *)
RefuseStep == /\ step.do = "refuse"
              /\ step.fault = "go.work" => git
              /\ PassIf(step.fault \notin tree)
              /\ UNCHANGED <<tree, rc, out, failed>>

InspectStep == /\ step.do = "inspect"
               /\ PassIf(Findings(step.tool, "repository") = {})
               /\ UNCHANGED <<tree, rc, out, failed>>

(* golangci-lint fmt rewrites what has drifted and exits 0. *)
FormatStep == /\ step.do = "format" /\ Continue
              /\ tree' = IF "drift" \in tree THEN (tree \ {"drift"}) \union {"dirty"} ELSE tree
              /\ UNCHANGED <<rc, out, failed>>

DiffStep == /\ step.do = "diff"
            /\ PassIf(git /\ "dirty" \notin tree)
            /\ UNCHANGED <<tree, rc, out, failed>>

\* Mutant: rc is not set back before a run.
exitKept(code) == IF code = 0 THEN rc ELSE code

(* rc=0; out="$(...)" || rc=$? *)
exit(code) == code

Ran(code, found) == /\ rc' = exit(code) /\ out' = found
                    /\ Continue /\ UNCHANGED tree

RunStep == /\ step.do = "run"
           /\ LET found == Findings(step.tool, step.on)
              IN  \/ Ran(IF found = {} THEN 0 ELSE 1, found) /\ UNCHANGED failed
                  \/ \E code \in CrashCodes(step.tool), S \in SUBSET found :
                       Ran(code, S) /\ Failing(S)

\* Mutant: any failure of a tool is taken for its findings.
expectAny(code) == IF code = 0 THEN rc = 0 ELSE rc # 0

expect(code) == rc = code

\* Mutant: some finding will do.
grepAny(rule) == out # {}

grep(rule) == rule \in out

CheckStep == /\ \/ step.do = "expect" /\ PassIf(expect(step.code))
                \/ step.do = "fired"  /\ PassIf(grep(step.rule))
                \/ step.do = "silent" /\ PassIf(~grep(step.rule))
             /\ UNCHANGED <<tree, rc, out, failed>>

(* if git ls-files ...; if grep -q ...: a command that is a condition and    *)
(* fails, this once or always, says no.                                      *)
asCondition == step.do = "silent" \/ step = Refuse("go.work")

Unanswered == /\ asCondition
              /\ Failing({}) /\ Continue
              /\ UNCHANGED <<tree, rc, out>>

(* Any other command of a step fails: set -e, or fail, ends the script.  In  *)
(* a run that is mutate.                                                     *)
Abort == /\ \/ step.do \in {"refuse", "inspect", "format", "diff", "fired"} /\ ~asCondition
            \/ step.do = "run" /\ step.tool = "verify_vectors.py"
         /\ Failing({}) /\ Fail
         /\ UNCHANGED <<tree, rc, out>>

Next == /\ status = "running" /\ UNCHANGED world
        /\ \/ RefuseStep \/ InspectStep \/ FormatStep \/ DiffStep
           \/ RunStep \/ CheckStep \/ Unanswered \/ Abort

(* A script does not stop between two commands. *)
Spec == Init /\ [][Next]_vars /\ WF_vars(Next)

-----------------------------------------------------------------------------
(* The rules the negative gate plants a fault for. *)
Tried == {"deterministic-core", "marshal", "range", "fields", "signature"}

(* A rule that lets by a fault of the repository in a green run. *)
LetBy(r) == \/ r \notin Tried /\ health[r] = "dead"
            \/ r = "range" /\ health["detpath"] # "works"

FailedAt(fault) == \E x \in failed : Script[x.at] = Refuse(fault)

(* A green run means that nothing is wrong with the repository, whatever is  *)
(* wrong with the tools, but for these: a rule that no fault is planted for  *)
(* passes unseen when it is dead (the imports that .golangci.yml bans, six   *)
(* checks of a vector, the three of the whole annex), and so does -detpath;  *)
(* and a go.work is passed by a git that fails at just that step             *)
(* (verify-gates.sh:12, :46, :52; negative-gate.sh).                         *)
GreenMeansClean ==
  status = "green" =>
    /\ git
    /\ \A f \in tree : (f \in Rules /\ LetBy(f)) \/ (f = "go.work" /\ FailedAt("go.work"))
    /\ \A v \in DOMAIN annex : \A c \in annex[v] : LetBy(c)

(* A green run means that every rule tried fires, the scoped ones only in    *)
(* the core, and that the vectors the checker is tried on are in the annex   *)
(* (negative-gate.sh:2, :150).                                               *)
GreenMeansFired ==
  status = "green" => /\ \A r \in Tried : health[r] # "dead"
                      /\ \A r \in Scoped : health[r] = "works"
                      /\ DOMAIN annex = EachOf(Vectors)

(* What the negative gate looks for after a run. *)
LookedFor(run) == CASE run.on = "det" /\ run.tool = "golangci-lint" -> {"deterministic-core"}
                    [] run.on = "det" /\ run.tool = "go-vet"        -> {"marshal", "range"}
                    [] run.on = "der"                               -> {"fields"}
                    [] run.on = "value"                             -> {"signature"}
                    [] OTHER                                        -> {}

(* No failure of a tool passes for its answer: the linter's never does, and  *)
(* the others', whose codes are those of findings, only when all that the    *)
(* gate looks for had been found and printed.  Where nothing is to be found, *)
(* no tool may fail (negative-gate.sh:75-76, :82, :90, :96).                  *)
GreenMeansVerdicts ==
  status = "green" =>
    \A x \in failed : Script[x.at].do = "run" =>
      /\ Script[x.at].tool # "golangci-lint" /\ Script[x.at].on # "edge"
      /\ LookedFor(Script[x.at]) \subseteq x.printed

(* The gates are no obstacle: with nothing wrong and every tool doing its    *)
(* work, the scripts end green.                                              *)
Healthy == /\ tree = {} /\ git /\ annex = [v \in EachOf(Vectors) |-> {}]
           /\ health = [r \in Rules \union {"detpath"} |-> "works"]

HealthyEndsGreen == Healthy => <>(status = "green" \/ failed # {})
=============================================================================
