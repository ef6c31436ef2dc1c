------------------------------ MODULE GatesProofs ------------------------------
(***************************************************************************)
(* What a green run of the gates means, for any number of things that are  *)
(* wrong at once and any tools that fail: the bound plays no part.         *)
(*                                                                         *)
(* The invariant says of each step that has passed what its passing has    *)
(* shown.  What it has shown stays shown: the tools are what they are, and *)
(* the one step that repairs the tree repairs its format only.             *)
(***************************************************************************)
EXTENDS Gates, TLAPS

Ons == {"repository", "det", "edge", "der", "value"}

TypeOK == /\ tree \subseteq Faults
          /\ DOMAIN annex \subseteq EachOf(Vectors) /\ "header/v1/zero-root" \in DOMAIN annex
          /\ \A v \in DOMAIN annex : annex[v] \subseteq EachOf(VectorChecks)
          /\ health \in [Rules \union {"detpath"} -> {"works", "dead", "unscoped"}]
          /\ pc \in 1 .. 32
          /\ status = "green" => pc = 32

(* The run whose exit code and findings step i looks at. *)
RunBefore(i) == CASE i \in 15 .. 17 -> 14
                  [] i \in 18 .. 21 -> 17
                  [] i \in 22 .. 24 -> 21
                  [] i \in 25 .. 27 -> 24
                  [] i \in 28 .. 30 -> 27
                  [] i \in 31 .. 32 -> 30

Found(i) == LET run == Script[RunBefore(i)] IN Findings(run.tool, run.on)

(* What it shows that step i has passed: of the repository and the tools,   *)
(* and of a failure of the tool that the step looks at.                     *)
Shown(i) ==
  LET s == Script[i]
  IN  /\ s.do = "refuse"  => s.fault \notin tree \/ (s.fault = "go.work" /\ FailedAt("go.work"))
      /\ s.do = "inspect" => Findings(s.tool, "repository") = {}
      /\ s.do = "format"  => "drift" \notin tree
      /\ s.do = "diff"    => git /\ "dirty" \notin tree
      /\ s.do = "fired"   => s.rule \in Found(i)
      /\ s.do = "silent"  => Found(i) = {}

Judged(i) ==
  LET s == Script[i]
  IN  \A x \in failed : x.at = RunBefore(i) =>
        /\ s.do = "expect" => s.code # 0 /\ Script[x.at].tool # "golangci-lint"
        /\ s.do = "fired"  => s.rule \in x.printed

Passed == IF status = "green" THEN 1 .. 32 ELSE 1 .. pc - 1

(* What the last run of the negative gate has left, whether its tool failed or not. *)
LastRun == /\ pc > 14 => out \subseteq Found(pc) /\ (rc = 0 => Found(pc) = {})
           /\ pc \in {23, 26} => rc = 0
           /\ \A x \in failed :
                /\ x.at \in 1 .. 32 /\ (status = "running" => x.at < pc)
                /\ pc > 14 /\ x.at = RunBefore(pc) =>
                     /\ x.printed = out /\ rc # 0
                     /\ Script[x.at].tool = "golangci-lint" => rc # 1

IInv == /\ TypeOK
        /\ status # "failed" =>
             LastRun /\ \A i \in Passed : Shown(i) /\ (i > 14 => Judged(i))

-----------------------------------------------------------------------------
(* The steps of each kind. *)
LEMMA ScriptLength == Len(Script) = 32
BY DEF Script, VerifyGates, NegativeGate

LEMMA StepsByKind ==
  ASSUME NEW i \in 1 .. 32
  PROVE  /\ Script[i].do = "refuse"  => /\ i \in {1, 2, 3, 4, 5, 7, 8, 13}
                                        /\ (Script[i].fault = "go.work" => i = 1)
                                        /\ Script[i].fault \notin {"dirty", "drift"}
                                        /\ Script[i].fault \in Refusals
         /\ Script[i].do = "inspect" => i \in {6, 9, 12}
         /\ Script[i].do = "format"  => i = 10
         /\ Script[i].do = "diff"    => i = 11
         /\ Script[i].do = "run"     => /\ i \in {14, 17, 21, 24, 27, 30}
                                        /\ Script[i].on \in Ons
                                        /\ Script[i + 1].do = "expect"
         /\ Script[i].do = "expect"  => /\ i \in {15, 18, 22, 25, 28, 31}
                                        /\ Script[i].code \in {0, 1}
                                        /\ i \in {22, 25} => Script[i].code = 0
         /\ Script[i].do = "fired"   => i \in {16, 19, 20, 29, 32}
         /\ Script[i].do = "silent"  => i \in {23, 26}
BY DEF Script, VerifyGates, NegativeGate, Refuse, Inspect, RunTool, Expect, Fired, Silent,
       Refusals, Ons

LEMMA RunIsBefore ==
  ASSUME NEW i \in 15 .. 32
  PROVE  /\ RunBefore(i) \in 1 .. 32 /\ Script[RunBefore(i)].do = "run"
         /\ Script[RunBefore(i)].on \in Ons
         /\ i - 1 = RunBefore(i) \/ (i > 15 /\ RunBefore(i) = RunBefore(i - 1))
BY DEF Script, VerifyGates, NegativeGate, Refuse, Inspect, RunTool, Expect, Fired, Silent,
       RunBefore, Ons

(* What the steps that matter look at. *)
LEMMA Script1To12 ==
  /\ Script[6].do = "inspect" /\ Script[6].tool = "go-vet"
  /\ Script[9].do = "inspect" /\ Script[9].tool = "golangci-lint"
  /\ Script[12].do = "inspect" /\ Script[12].tool = "verify_vectors.py"
  /\ Script[10].do = "format" /\ Script[11].do = "diff"
  /\ \A f \in Refusals \ {"dirty", "drift"} :
       \E i \in 1 .. 8 : Script[i].do = "refuse" /\ Script[i].fault = f
BY DEF Script, VerifyGates, NegativeGate, Refuse, Inspect, RunTool, Expect, Fired, Silent,
       Refusals

LEMMA Script13To32 ==
  /\ Script[16].do = "fired" /\ Script[16].rule = "deterministic-core"
  /\ Script[19].do = "fired" /\ Script[19].rule = "marshal"
  /\ Script[20].do = "fired" /\ Script[20].rule = "range"
  /\ Script[22].do = "expect" /\ Script[25].do = "expect"
  /\ Script[23].do = "silent" /\ Script[26].do = "silent"
  /\ Script[29].do = "fired" /\ Script[29].rule = "fields"
  /\ Script[32].do = "fired" /\ Script[32].rule = "signature"
  /\ Script[14].do = "run"
  /\ Script[14].tool = "golangci-lint" /\ Script[14].on = "det"
  /\ Script[17].tool = "go-vet" /\ Script[17].on = "det"
  /\ Script[21].tool = "golangci-lint" /\ Script[21].on = "edge"
  /\ Script[24].tool = "go-vet" /\ Script[24].on = "edge"
  /\ Script[27].tool = "verify_vectors.py" /\ Script[27].on = "der"
  /\ Script[30].tool = "verify_vectors.py" /\ Script[30].on = "value"
BY DEF Script, VerifyGates, NegativeGate, Refuse, Inspect, RunTool, Expect, Fired, Silent

-----------------------------------------------------------------------------
(* The checks of the annex end the run at the first that fails, but do fail. *)
LEMMA FirstVectorCheck ==
  ASSUME NEW S, S \subseteq EachOf(VectorChecks)
  PROVE  FirstIn(VectorChecks, S) \subseteq S /\ (FirstIn(VectorChecks, S) = {} => S = {})
BY DEF FirstIn, VectorChecks, EachOf

LEMMA FirstAnnexCheck ==
  ASSUME NEW S, S \subseteq EachOf(AnnexChecks)
  PROVE  FirstIn(AnnexChecks, S) \subseteq S /\ (FirstIn(AnnexChecks, S) = {} => S = {})
BY DEF FirstIn, AnnexChecks, EachOf

LEMMA FirstVector ==
  ASSUME NEW S, S \subseteq EachOf(Vectors)
  PROVE  FirstIn(Vectors, S) \subseteq S /\ (FirstIn(Vectors, S) = {} => S = {})
BY DEF FirstIn, Vectors, EachOf

LEMMA RulesAre ==
  /\ EachOf(VectorChecks) = {"decode", "validate", "fields", "reencode", "sha256", "purpose",
                             "signature", "forgeries"}
  /\ EachOf(AnnexChecks) = {"merkle", "coverage", "binding"}
  /\ EachOf(Vectors) = {"header/v1/zero-root", "signed/v1/commit", "blob/v1/signed-by-test-key"}
  /\ Rules = {"canonical-core", "deterministic-core", "marshal", "range"}
               \union EachOf(VectorChecks) \union EachOf(AnnexChecks)
  /\ Faults = {"canonical-core", "marshal", "range"} \union EachOf(AnnexChecks) \union Refusals
  /\ Rules \intersect Refusals = {} /\ Faults \ Refusals \subseteq Rules
<1>1. /\ EachOf(VectorChecks) = {"decode", "validate", "fields", "reencode", "sha256", "purpose",
                                 "signature", "forgeries"}
      /\ EachOf(AnnexChecks) = {"merkle", "coverage", "binding"}
      /\ EachOf(Vectors) = {"header/v1/zero-root", "signed/v1/commit", "blob/v1/signed-by-test-key"}
  BY DEF EachOf, VectorChecks, AnnexChecks, Vectors
<1> QED
  BY <1>1 DEF Rules, Faults, RepositoryImports, TemplateImports, VetRules, Refusals

(* mutate plants its fault at the one vector, and repairs sha256 at most.   *)
LEMMA MutateIs ==
  ASSUME TypeOK, NEW on, NEW v \in DOMAIN annex
  PROVE  /\ mutate(on)[v] \subseteq EachOf(VectorChecks)
         /\ on = "repository" => mutate(on)[v] = annex[v]
         /\ on = "der" /\ v # "signed/v1/commit" => mutate(on)[v] = annex[v]
         /\ on = "value" /\ v # "blob/v1/signed-by-test-key" => mutate(on)[v] = annex[v]
BY RulesAre DEF mutate, TypeOK

(* A finding is of a check that works, on a vector that fails it or over    *)
(* all of the annex; no finding, and no check that works fails.             *)
LEMMA AnnexFindingsAre ==
  ASSUME TypeOK, NEW on
  PROVE  /\ \A c \in AnnexFindings(on) :
              \/ c \in EachOf(AnnexChecks)
              \/ \E v \in DOMAIN annex : c \in mutate(on)[v] /\ health[c] # "dead"
         /\ AnnexFindings(on) = {} =>
              /\ \A v \in DOMAIN annex : \A c \in mutate(on)[v] : health[c] = "dead"
              /\ \A c \in EachOf(AnnexChecks) : ~FiresOn(c, on)
<1> DEFINE bad  == {v \in DOMAIN annex : FailsOn(v, on) # {}}
           main == {c \in EachOf(AnnexChecks) : FiresOn(c, on)}
<1>1. ASSUME NEW v \in DOMAIN annex
      PROVE  /\ FirstIn(VectorChecks, FailsOn(v, on)) \subseteq FailsOn(v, on)
             /\ FirstIn(VectorChecks, FailsOn(v, on)) = {} => FailsOn(v, on) = {}
  <2>1. FailsOn(v, on) \subseteq EachOf(VectorChecks)
    BY MutateIs DEF FailsOn
  <2> QED
    BY <2>1, FirstVectorCheck
<1>2. FirstIn(Vectors, bad) \subseteq bad /\ (FirstIn(Vectors, bad) = {} => bad = {})
  <2>1. bad \subseteq EachOf(Vectors)
    BY DEF TypeOK
  <2> HIDE DEF bad
  <2> QED
    BY <2>1, FirstVector
<1>3. FirstIn(AnnexChecks, main) \subseteq main /\ (FirstIn(AnnexChecks, main) = {} => main = {})
  <2>1. main \subseteq EachOf(AnnexChecks)
    OBVIOUS
  <2> HIDE DEF main
  <2> QED
    BY <2>1, FirstAnnexCheck
<1>4. CASE bad # {}
  <2>1. AnnexFindings(on)
          = UNION {FirstIn(VectorChecks, FailsOn(v, on)) : v \in FirstIn(Vectors, bad)}
    BY <1>4 DEF AnnexFindings
  <2>2. PICK w \in FirstIn(Vectors, bad) : TRUE
    BY <1>2, <1>4
  <2>3. w \in DOMAIN annex /\ FailsOn(w, on) # {}
    BY <1>2, <2>2
  <2>4. FirstIn(VectorChecks, FailsOn(w, on)) # {}
    BY <1>1, <2>3
  <2>5. AnnexFindings(on) # {}
    BY <2>1, <2>2, <2>4
  <2>6. ASSUME NEW c \in AnnexFindings(on)
        PROVE  \E v \in DOMAIN annex : c \in mutate(on)[v] /\ health[c] # "dead"
    <3>1. PICK v \in FirstIn(Vectors, bad) : c \in FirstIn(VectorChecks, FailsOn(v, on))
      BY <2>1
    <3>2. v \in DOMAIN annex
      BY <1>2, <3>1
    <3> QED
      BY <1>1, <3>1, <3>2 DEF FailsOn
  <2> QED
    BY <2>5, <2>6
<1>5. CASE bad = {}
  <2>1. AnnexFindings(on) = FirstIn(AnnexChecks, main)
    BY <1>5 DEF AnnexFindings
  <2>2. \A v \in DOMAIN annex : \A c \in mutate(on)[v] : health[c] = "dead"
    BY <1>5 DEF FailsOn
  <2> QED
    BY <1>3, <2>1, <2>2
<1> QED
  BY <1>4, <1>5

LEMMA FindingsAre ==
  ASSUME NEW on
  PROVE  /\ Findings("golangci-lint", on)
              = {r \in IF on = "repository" THEN RepositoryImports ELSE TemplateImports : FiresOn(r, on)}
         /\ Findings("go-vet", on) = {r \in VetRules : FiresOn(r, on)}
         /\ Findings("verify_vectors.py", on) = AnnexFindings(on)
BY DEF Findings

(* Findings are of the rules a tree breaks, and of nothing that a formatter  *)
(* repairs.                                                                  *)
LEMMA FindingsStay ==
  ASSUME UNCHANGED world, tree' \ Refusals = tree \ Refusals, NEW tool, NEW on
  PROVE  Findings(tool, on)' = Findings(tool, on)
<1>1. ASSUME NEW r PROVE FiresOn(r, on)' = FiresOn(r, on)
  BY DEF FiresOn, planted, InScope, world
<1>2. mutate(on)' = mutate(on)
  BY DEF mutate, world
<1>3. AnnexFindings(on)' = AnnexFindings(on)
  <2>1. ASSUME NEW v PROVE FailsOn(v, on)' = FailsOn(v, on)
    BY <1>2 DEF FailsOn, world
  <2> DEFINE bad  == {v \in DOMAIN annex : FailsOn(v, on) # {}}
             main == {c \in EachOf(AnnexChecks) : FiresOn(c, on)}
             one  == UNION {FirstIn(VectorChecks, FailsOn(v, on)) : v \in FirstIn(Vectors, bad)}
  <2>2. bad' = bad
    BY <2>1 DEF world
  <2>3. main' = main
    BY <1>1
  <2>4. one' = one
    BY <2>1, <2>2
  <2>5. /\ AnnexFindings(on) = IF bad # {} THEN one ELSE FirstIn(AnnexChecks, main)
        /\ AnnexFindings(on)' = IF bad' # {} THEN one' ELSE FirstIn(AnnexChecks, main')
    BY DEF AnnexFindings
  <2> QED
    BY <2>2, <2>3, <2>4, <2>5
<1> QED
  BY <1>1, <1>3 DEF Findings

-----------------------------------------------------------------------------
LEMMA FoundStays ==
  ASSUME UNCHANGED world, tree' \ Refusals = tree \ Refusals, NEW i \in 15 .. 32
  PROVE  Found(i)' = Found(i)
BY RunIsBefore, FindingsStay DEF Found

(* A failure is of the step that is on, and of no run that was looked at. *)
LEMMA FailuresStay ==
  ASSUME failed \subseteq failed', \A x \in failed' : x \in failed \/ x.at = pc,
         NEW i \in 1 .. 32
  PROVE  /\ FailedAt("go.work") => FailedAt("go.work")'
         /\ i \in 15 .. 32 /\ i <= pc /\ Judged(i) => Judged(i)'
<1>1. FailedAt("go.work") => FailedAt("go.work")'
  BY DEF FailedAt
<1>2. ASSUME i \in 15 .. 32, i <= pc, NEW x \in failed', x.at = RunBefore(i)
      PROVE  x \in failed
  <2>1. RunBefore(i) \in Nat /\ RunBefore(i) < i
    BY <1>2 DEF RunBefore
  <2>2. x.at # pc
    BY <1>2, <2>1
  <2> QED
    BY <2>2
<1>3. ASSUME i \in 15 .. 32, i <= pc, Judged(i) PROVE Judged(i)'
  BY <1>2, <1>3 DEF Judged
<1> QED
  BY <1>1, <1>3

(* A step to which the world stays as it is leaves what was shown. *)
LEMMA ShownStays ==
  ASSUME TypeOK, UNCHANGED world, tree' \ Refusals = tree \ Refusals,
         \A f \in tree' : f \in tree \/ f = "dirty",
         FailedAt("go.work") => FailedAt("go.work")',
         NEW i \in 1 .. 32, Shown(i), i = 11 => ("dirty" \in tree' => "dirty" \in tree)
  PROVE  Shown(i)'
<1>1. Found(i)' = Found(i) \/ i < 15
  BY FoundStays
<1>2. Findings(Script[i].tool, "repository")' = Findings(Script[i].tool, "repository")
  BY FindingsStay
<1> DEFINE s == Script[i]
<1>3. s.do = "refuse" => s.fault \notin tree' \/ (s.fault = "go.work" /\ FailedAt("go.work")')
  BY StepsByKind DEF Shown
<1>4. s.do = "inspect" => Findings(s.tool, "repository")' = {}
  BY <1>2 DEF Shown
<1>5. (s.do = "format" => "drift" \notin tree') /\ (s.do = "diff" => git' /\ "dirty" \notin tree')
  BY StepsByKind DEF Shown, world
<1>6. (s.do = "fired" => s.rule \in Found(i)') /\ (s.do = "silent" => Found(i)' = {})
  BY <1>1, StepsByKind DEF Shown
<1> QED
  BY <1>3, <1>4, <1>5, <1>6 DEF Shown

(* Going on: the step has to show what passing it shows, and the last run    *)
(* has to be told of at the next.                                            *)
LEMMA GoingOn ==
  ASSUME IInv, UNCHANGED <<world, rc, out>>, Continue, status = "running",
         step.do # "run", pc \in {22, 25} => rc = 0,
         failed \subseteq failed',
         \A x \in failed' : x \in failed \/ x.at = pc,
         tree' \ Refusals = tree \ Refusals, tree' \subseteq Faults,
         \A f \in tree' : f \in tree \/ (f = "dirty" /\ pc = 10),
         \A i \in 1 .. 32 : i = pc => Shown(i)' /\ (i > 14 => Judged(i))
  PROVE  IInv'
<1>1. TypeOK'
  BY ScriptLength DEF IInv, TypeOK, Continue, world
<1>2. /\ pc \in 1 .. 32 /\ pc' = IF pc = 32 THEN pc ELSE pc + 1
      /\ status' = IF pc = 32 THEN "green" ELSE "running"
  BY ScriptLength DEF IInv, TypeOK, Continue
<1>3. ASSUME NEW i \in Passed' PROVE Shown(i)' /\ (i > 14 => Judged(i)')
  <2>1. i \in 1 .. 32 /\ i <= pc
    BY <1>2 DEF Passed
  <2>2. (FailedAt("go.work") => FailedAt("go.work")') /\ (i > 14 /\ Judged(i) => Judged(i)')
    BY <2>1, FailuresStay
  <2>3. CASE i = pc
    BY <2>1, <2>2, <2>3
  <2>4. CASE i < pc
    <3>1. Shown(i) /\ (i > 14 => Judged(i))
      <4>1. i \in Passed
        BY <1>2, <2>1, <2>4 DEF Passed
      <4> QED
        BY <4>1 DEF IInv
    <3>2. i = 11 => ("dirty" \in tree' => "dirty" \in tree)
      BY <2>4
    <3> QED
      BY <2>1, <2>2, <3>1, <3>2, ShownStays DEF IInv
  <2> QED
    BY <1>2, <2>1, <2>3, <2>4
<1>4. LastRun'
  <2>1. \A x \in failed' : x.at \in 1 .. 32 /\ x.at <= pc
    BY <1>2 DEF IInv, LastRun
  <2>2. \A x \in failed' : status' = "running" => x.at < pc'
    BY <1>2, <2>1
  <2>3. pc # 14
    BY Script13To32 DEF step
  <2>4. CASE pc < 14
    BY <1>2, <2>1, <2>2, <2>3, <2>4 DEF LastRun
  <2>5. CASE pc \in 15 .. 32
    <3>1. pc' \in 15 .. 32
      BY <1>2, <2>5
    <3>2. RunBefore(pc') = RunBefore(pc) /\ RunBefore(pc') # pc
      BY <1>2, <2>5, RunIsBefore DEF step
    <3>3. Found(pc') = Found(pc)
      BY <3>2 DEF Found
    <3>4. Found(pc)' = Found(pc)
      <4>1. \A i \in 15 .. 32 : Found(i)' = Found(i)
        BY FoundStays
      <4> QED
        BY <3>1, <3>3, <4>1
    <3>5. out \subseteq Found(pc) /\ (rc = 0 => Found(pc) = {})
      BY <2>5 DEF IInv, LastRun
    <3>6. \A x \in failed' : x.at = RunBefore(pc') =>
            x.printed = out /\ rc # 0 /\ (Script[x.at].tool = "golangci-lint" => rc # 1)
      BY <2>5, <3>2 DEF IInv, LastRun
    <3>7. pc' \in {23, 26} => rc = 0
      BY <1>2, <2>5
    <3> QED
      BY <2>1, <2>2, <3>1, <3>4, <3>5, <3>6, <3>7, <1>2 DEF LastRun
  <2> QED
    BY <1>2, <2>3, <2>4, <2>5
<1> QED
  BY <1>1, <1>3, <1>4 DEF IInv

(* The scripts end: nothing is said of a run that is not green. *)
LEMMA Stopping ==
  ASSUME IInv, UNCHANGED <<tree, world, pc>>, status' = "failed"
  PROVE  IInv'
BY DEF IInv, TypeOK, world

(* A tool has run: its findings are all there, or its exit code is not 0. *)
LEMMA Running ==
  ASSUME IInv, status = "running", UNCHANGED world, RunStep
  PROVE  IInv'
<1> DEFINE found == Findings(step.tool, step.on)
<1>1. step.do = "run" /\ UNCHANGED tree /\ Continue
  BY DEF RunStep, Ran
<1>2. /\ out' \subseteq found /\ (rc' = 0 => found = {})
      /\ \/ failed' = failed
         \/ /\ failed' = failed \union {[at |-> pc, printed |-> out']} /\ rc' # 0
            /\ step.tool = "golangci-lint" => rc' # 1
  BY DEF RunStep, Ran, exit, CrashCodes, Failing
<1>3. pc \in {14, 17, 21, 24, 27, 30} /\ Script[pc + 1].do = "expect"
  BY <1>1, StepsByKind DEF IInv, TypeOK, step
<1>4. pc' = pc + 1 /\ status' = "running"
  BY <1>1, <1>3, ScriptLength DEF Continue
<1>5. TypeOK'
  BY <1>1, <1>3, <1>4 DEF IInv, TypeOK, world
<1>6. /\ \A x \in failed : x.at \in 1 .. 32 /\ x.at < pc
      /\ \A x \in failed' : x \in failed \/ (x.at = pc /\ x.printed = out' /\ rc' # 0)
      /\ \A x \in failed' : x \in failed \/ step.tool # "golangci-lint" \/ rc' # 1
      /\ failed \subseteq failed'
  BY <1>2 DEF IInv, LastRun
<1>7. Found(pc)' = found
  <2>1. \A i \in 15 .. 32 : Found(i)' = Found(i)
    BY <1>1, FoundStays
  <2>2. pc' \in 15 .. 32 /\ RunBefore(pc') = pc
    BY <1>3, <1>4 DEF RunBefore
  <2>3. Found(pc') = found
    BY <2>2 DEF Found, step
  <2> QED
    BY <2>1, <2>2, <2>3
<1>8. LastRun'
  <2>1. pc' \notin {23, 26} /\ RunBefore(pc') = pc
    BY <1>3, <1>4 DEF RunBefore
  <2>2. \A x \in failed' : x.at \in 1 .. 32 /\ x.at < pc'
    BY <1>3, <1>4, <1>6
  <2>3. ASSUME NEW x \in failed', x.at = pc
        PROVE  x.printed = out' /\ rc' # 0 /\ (Script[x.at].tool = "golangci-lint" => rc' # 1)
    BY <1>6, <2>3 DEF step
  <2> QED
    BY <1>2, <1>7, <2>1, <2>2, <2>3 DEF LastRun
<1>9. ASSUME NEW i \in Passed' PROVE Shown(i)' /\ (i > 14 => Judged(i)')
  <2>1. i \in 1 .. 32 /\ i <= pc
    BY <1>3, <1>4 DEF Passed
  <2>2. CASE i = pc
    <3>1. Script[i].do = "run"
      BY <1>1, <2>2 DEF step
    <3> QED
      BY <3>1 DEF Shown, Judged
  <2>3. CASE i < pc
    <3>1. i \in Passed
      BY <1>3, <2>1, <2>3 DEF Passed
    <3>2. (FailedAt("go.work") => FailedAt("go.work")') /\ (i > 14 /\ Judged(i) => Judged(i)')
      BY <1>6, <2>1, FailuresStay
    <3> QED
      BY <1>1, <2>1, <3>1, <3>2, ShownStays DEF IInv
  <2> QED
    BY <1>3, <2>1, <2>2, <2>3
<1> QED
  BY <1>5, <1>8, <1>9, <1>4 DEF IInv

-----------------------------------------------------------------------------
LEMMA InvInit == Init => IInv
<1> SUFFICES ASSUME Init PROVE IInv
  OBVIOUS
<1>1. PICK wrong \in [1 .. MaxWrong -> Troubles] :
        LET W == {wrong[i] : i \in 1 .. MaxWrong}
        IN  /\ tree = {f \in Faults : <<"broken", f>> \in W}
            /\ annex = [v \in {w \in EachOf(Vectors) : <<"missing", w>> \notin W} |->
                          {c \in ChecksOf(v) : <<v, c>> \in W}]
            /\ health = [r \in Rules \union {"detpath"} |->
                           IF <<"dead", r>> \in W THEN "dead"
                           ELSE IF <<"unscoped", r>> \in W THEN "unscoped" ELSE "works"]
            /\ git = (<<"no git">> \notin W)
  BY DEF Init
<1> DEFINE W == {wrong[i] : i \in 1 .. MaxWrong}
<1>2. <<"missing", "header/v1/zero-root">> \notin W
  <2> DEFINE t == <<"missing", "header/v1/zero-root">>
  <2>1. t \notin {<<"nothing">>, <<"no git">>}
    OBVIOUS
  <2>2. /\ t \notin {"broken"} \X Faults /\ t \notin {"dead"} \X (Rules \union {"detpath"})
        /\ t \notin {"unscoped"} \X Scoped
        /\ t \notin {"missing"} \X {"signed/v1/commit", "blob/v1/signed-by-test-key"}
    OBVIOUS
  <2>3. \A v \in EachOf(Vectors) : t \notin {v} \X ChecksOf(v)
    BY RulesAre
  <2>4. t \notin Troubles
    BY <2>1, <2>2, <2>3 DEF Troubles
  <2> QED
    BY <1>1, <2>4
<1> HIDE DEF W
<1>3. /\ DOMAIN annex = {w \in EachOf(Vectors) : <<"missing", w>> \notin W}
      /\ \A v \in DOMAIN annex : annex[v] \subseteq ChecksOf(v)
  BY <1>1 DEF W
<1>4. "header/v1/zero-root" \in DOMAIN annex
  BY <1>2, <1>3, RulesAre
<1>5. \A v \in DOMAIN annex : annex[v] \subseteq EachOf(VectorChecks)
  BY <1>3 DEF ChecksOf
<1>6. tree \subseteq Faults
  BY <1>1
<1>7. health \in [Rules \union {"detpath"} -> {"works", "dead", "unscoped"}]
  BY <1>1
<1>8. pc = 1 /\ failed = {} /\ status = "running"
  BY DEF Init
<1>9. LastRun /\ Passed = {}
  BY <1>8 DEF LastRun, Passed
<1>10. TypeOK
  BY <1>3, <1>4, <1>5, <1>6, <1>7, <1>8 DEF TypeOK
<1> QED
  BY <1>9, <1>10 DEF IInv

(* Which step shows what. *)
LEMMA InvStep == IInv /\ [Next]_vars => IInv'
<1> SUFFICES ASSUME IInv, [Next]_vars PROVE IInv'
  OBVIOUS
<1>1. CASE UNCHANGED vars
  <2>1. UNCHANGED <<tree, world, pc, rc, out, failed, status>>
    BY <1>1 DEF vars
  <2>2. TypeOK'
    BY <2>1 DEF IInv, TypeOK, world
  <2>3. ASSUME status # "failed" PROVE LastRun'
    <3>1. \A i \in 15 .. 32 : Found(i)' = Found(i)
      BY <2>1, FoundStays
    <3>2. pc > 14 => Found(pc)' = Found(pc)
      BY <2>1, <3>1 DEF IInv, TypeOK
    <3> QED
      BY <2>1, <2>3, <3>2 DEF IInv, LastRun
  <2>4. ASSUME status # "failed", NEW i \in Passed' PROVE Shown(i)' /\ (i > 14 => Judged(i)')
    <3>1. i \in Passed /\ i \in 1 .. 32
      BY <2>1, <2>4 DEF Passed, IInv, TypeOK
    <3>2. Shown(i) /\ (i > 14 => Judged(i))
      BY <2>4, <3>1 DEF IInv
    <3>3. FailedAt("go.work") => FailedAt("go.work")'
      BY <2>1 DEF FailedAt
    <3>4. Shown(i)'
      BY <2>1, <3>1, <3>2, <3>3, ShownStays DEF IInv
    <3> QED
      BY <2>1, <3>2, <3>4 DEF Judged
  <2> QED
    BY <2>1, <2>2, <2>3, <2>4 DEF IInv
<1>2. CASE Next
  <2> USE <1>2
  <2>1. status = "running" /\ UNCHANGED world /\ pc \in 1 .. 32 /\ tree \subseteq Faults
    BY DEF Next, IInv, TypeOK
  <2>2. CASE status' = "failed" /\ UNCHANGED <<tree, pc>>
    BY <2>1, <2>2, Stopping
  <2>3. pc > 14 => out \subseteq Found(pc) /\ (rc = 0 => Found(pc) = {})
    BY <2>1 DEF IInv, LastRun
  <2>4. pc \in {23, 26} => rc = 0
    BY <2>1 DEF IInv, LastRun
  <2>5. pc \in {22, 25} => step.do = "expect" /\ step.code = 0
    BY Script13To32, StepsByKind DEF step
  <2>6. CASE RefuseStep /\ Continue
    <3>1. step.do = "refuse" /\ UNCHANGED <<tree, rc, out, failed>> /\ step.fault \notin tree
      BY <2>6 DEF RefuseStep, PassIf, Continue, Fail
    <3>2. \A i \in 1 .. 32 : i = pc => Shown(i)' /\ (i > 14 => Judged(i))
      BY <3>1 DEF Shown, Judged, step
    <3> QED
      BY <2>1, <2>5, <2>6, <3>1, <3>2, GoingOn
  <2>7. CASE InspectStep /\ Continue
    <3>1. /\ step.do = "inspect" /\ UNCHANGED <<tree, rc, out, failed>>
          /\ PassIf(Findings(step.tool, "repository") = {})
      BY <2>7 DEF InspectStep
    <3>2. status' # "failed"
      BY <2>7 DEF Continue
    <3>3. Findings(step.tool, "repository") = {}
      BY <3>1, <3>2 DEF PassIf, Fail
    <3>4. \A i \in 1 .. 32 :
            Findings(Script[i].tool, "repository")' = Findings(Script[i].tool, "repository")
      BY <2>1, <3>1, FindingsStay
    <3>5. ASSUME NEW i \in 1 .. 32, i = pc PROVE Shown(i)' /\ (i > 14 => Judged(i))
      <4>1. Script[i].do = "inspect" /\ Findings(Script[i].tool, "repository") = {}
        BY <3>1, <3>3, <3>5 DEF step
      <4>2. Findings(Script[i].tool, "repository")' = {}
        BY <3>4, <4>1
      <4> QED
        BY <4>1, <4>2 DEF Shown, Judged
    <3> QED
      BY <2>1, <2>5, <2>7, <3>1, <3>5, GoingOn
  <2>8. CASE FormatStep
    <3>1. /\ step.do = "format" /\ UNCHANGED <<rc, out, failed>> /\ Continue
          /\ tree' = IF "drift" \in tree THEN (tree \ {"drift"}) \union {"dirty"} ELSE tree
          /\ pc = 10
      BY <2>1, <2>8, StepsByKind DEF FormatStep, step
    <3>2. /\ tree' \ Refusals = tree \ Refusals /\ "drift" \notin tree' /\ tree' \subseteq Faults
          /\ \A f \in tree' : f \in tree \/ (f = "dirty" /\ pc = 10)
      BY <2>1, <3>1, RulesAre DEF Refusals
    <3>3. \A i \in 1 .. 32 : i = pc => Shown(i)' /\ (i > 14 => Judged(i))
      BY <3>1, <3>2 DEF Shown, step
    <3> QED
      BY <2>1, <3>1, <3>2, <3>3, GoingOn
  <2>9. CASE DiffStep /\ Continue
    <3>1. /\ step.do = "diff" /\ UNCHANGED <<tree, rc, out, failed>>
          /\ git /\ "dirty" \notin tree
      BY <2>9 DEF DiffStep, PassIf, Continue, Fail
    <3>2. \A i \in 1 .. 32 : i = pc => Shown(i)' /\ (i > 14 => Judged(i))
      BY <2>1, <3>1 DEF Shown, Judged, step, world
    <3> QED
      BY <2>1, <2>5, <2>9, <3>1, <3>2, GoingOn
  <2>10. CASE RunStep
    BY <2>1, <2>10, Running
  <2>11. CASE CheckStep /\ Continue
    <3>1. /\ UNCHANGED <<tree, rc, out, failed>>
          /\ \/ step.do = "expect" /\ rc = step.code
             \/ step.do = "fired" /\ step.rule \in out
             \/ step.do = "silent" /\ step.rule \notin out
      BY <2>11 DEF CheckStep, PassIf, Continue, Fail, expect, grep
    <3>2. pc \in 15 .. 32 /\ pc \in {22, 25} => rc = 0
      BY <2>1, <2>5, <3>1, StepsByKind DEF step
    <3>3. \A i \in 15 .. 32 : Found(i)' = Found(i)
      BY <2>1, <3>1, FoundStays
    <3>4. ASSUME NEW i \in 1 .. 32, i = pc PROVE Shown(i)' /\ (i > 14 => Judged(i))
      <4>1. i \in 15 .. 32 /\ Found(i)' = Found(i)
        BY <2>1, <3>1, <3>3, <3>4, StepsByKind DEF step
      <4>2. Script[i].do = "fired" => Script[i].rule \in Found(i)
        BY <2>3, <3>1, <3>4, <4>1 DEF step
      <4>3. Script[i].do = "silent" => Found(i) = {}
        BY <2>3, <2>4, <3>4, <4>1, StepsByKind
      <4>4. Shown(i)'
        BY <3>1, <3>4, <4>1, <4>2, <4>3 DEF Shown, step
      <4>5. Judged(i)
        <5>1. ASSUME NEW x \in failed, x.at = RunBefore(i)
              PROVE  /\ x.printed = out /\ rc # 0
                     /\ Script[x.at].tool = "golangci-lint" => rc # 1
          BY <2>1, <3>4, <4>1, <5>1 DEF IInv, LastRun
        <5>2. Script[i].do = "expect" => Script[i].code \in {0, 1} /\ rc = Script[i].code
          BY <3>1, <3>4, StepsByKind DEF step
        <5>3. Script[i].do = "fired" => Script[i].rule \in out
          BY <3>1, <3>4 DEF step
        <5> QED
          BY <5>1, <5>2, <5>3 DEF Judged
      <4> QED
        BY <4>4, <4>5
    <3> QED
      BY <2>1, <2>11, <3>1, <3>2, <3>4, GoingOn, StepsByKind
  <2>12. CASE Unanswered
    <3>1. /\ UNCHANGED <<tree, rc, out>> /\ Continue
          /\ failed' = failed \union {[at |-> pc, printed |-> {}]}
          /\ step.do = "silent" \/ step = Refuse("go.work")
      BY <2>12 DEF Unanswered, asCondition, Failing
    <3>2. step.do = "silent" => pc \in {23, 26}
      BY <2>1, StepsByKind DEF step
    <3>3. step = Refuse("go.work") =>
            pc \in {1, 2, 3, 4, 5, 7, 8, 13} /\ step.do = "refuse" /\ step.fault = "go.work"
      BY <2>1, StepsByKind DEF step, Refuse
    <3>4. step.do # "run" /\ step.do # "expect" /\ step.do # "inspect" /\ step.do # "format"
          /\ step.do # "diff" /\ step.do # "fired"
      BY <3>1, <3>3
    <3>5. ASSUME NEW i \in 1 .. 32, i = pc PROVE Shown(i)' /\ (i > 14 => Judged(i))
      <4>1. step.do = "silent" => Found(i)' = {}
        <5>1. \A j \in 15 .. 32 : Found(j)' = Found(j)
          BY <2>1, <3>1, FoundStays
        <5> QED
          BY <2>3, <2>4, <3>2, <3>5, <5>1
      <4>2. step = Refuse("go.work") => FailedAt("go.work")'
        <5>1. [at |-> pc, printed |-> {}] \in failed'
          BY <3>1
        <5> QED
          BY <5>1 DEF FailedAt, step
      <4> QED
        BY <3>1, <3>3, <3>4, <3>5, <4>1, <4>2 DEF Shown, Judged, step
    <3>6. pc \notin {22, 25}
      BY <2>5, <3>4
    <3> QED
      BY <2>1, <3>1, <3>4, <3>5, <3>6, GoingOn
  <2>13. CASE Abort
    BY <2>2, <2>13 DEF Abort, Fail
  <2> QED
    <3>1. \/ RefuseStep \/ InspectStep \/ FormatStep \/ DiffStep \/ RunStep \/ CheckStep
          \/ Unanswered \/ Abort
      BY DEF Next
    <3>2. RefuseStep \/ InspectStep \/ DiffStep \/ CheckStep
            => Continue \/ (status' = "failed" /\ UNCHANGED <<tree, pc>>)
      BY DEF RefuseStep, InspectStep, DiffStep, CheckStep, PassIf, Fail
    <3> QED
      BY <2>2, <2>6, <2>7, <2>8, <2>9, <2>10, <2>11, <2>12, <2>13, <3>1, <3>2
<1> QED
  BY <1>1, <1>2 DEF vars

(* What the passing of a step has shown is so at every later step.          *)
THEOREM InductiveInvariant == Spec => []IInv
BY InvInit, InvStep, PTL DEF Spec

-----------------------------------------------------------------------------
(* What has passed when the scripts are green: every step. *)
LEMMA AllShown ==
  ASSUME IInv, status = "green", NEW i \in 1 .. 32
  PROVE  Shown(i) /\ (i > 14 => Judged(i))
BY DEF IInv, Passed

(* What the two steps find that look for the same of a run. *)
LEMMA FoundIs ==
  /\ Found(16) = Findings("golangci-lint", "det")
  /\ Found(19) = Findings("go-vet", "det") /\ Found(20) = Findings("go-vet", "det")
  /\ Found(23) = Findings("golangci-lint", "edge") /\ Found(26) = Findings("go-vet", "edge")
  /\ Found(29) = Findings("verify_vectors.py", "der")
  /\ Found(32) = Findings("verify_vectors.py", "value")
BY Script13To32 DEF Found, RunBefore

(* What the negative gate has seen of the linters: they fire on det, and    *)
(* are silent on edge.                                                      *)
LEMMA LintersAreAlive ==
  ASSUME IInv, status = "green"
  PROVE  /\ \A r \in {"deterministic-core", "marshal", "range"} : health[r] # "dead"
         /\ \A r \in Scoped : health[r] = "works"
<1>1. /\ "deterministic-core" \in Found(16) /\ "marshal" \in Found(19) /\ "range" \in Found(20)
      /\ Found(23) = {} /\ Found(26) = {}
  BY AllShown, Script13To32 DEF Shown
<1>2. /\ FiresOn("deterministic-core", "det") /\ FiresOn("marshal", "det")
      /\ FiresOn("range", "det")
  BY <1>1, FoundIs, FindingsAre
<1>3. ~FiresOn("deterministic-core", "edge")
  BY <1>1, FoundIs, FindingsAre DEF TemplateImports
<1>4. ~FiresOn("range", "edge")
  BY <1>1, FoundIs, FindingsAre DEF VetRules
<1>5. \A r \in Scoped : r \in planted("edge") /\ health[r] \in {"works", "dead", "unscoped"}
  BY RulesAre DEF planted, TemplateImports, IInv, TypeOK, Scoped
<1>6. \A r \in {"deterministic-core", "marshal", "range"} : health[r] # "dead"
  BY <1>2 DEF FiresOn
<1>7. ASSUME NEW r \in Scoped PROVE health[r] = "works"
  BY <1>3, <1>4, <1>5, <1>6 DEF FiresOn, Scoped
<1> QED
  BY <1>6, <1>7

(* Nothing that works has found anything in the repository. *)
LEMMA RepositoryIsClean ==
  ASSUME IInv, status = "green"
  PROVE  /\ \A r \in tree \ Refusals : ~FiresOn(r, "repository")
         /\ \A v \in DOMAIN annex : \A c \in annex[v] : health[c] = "dead"
<1>1. /\ Findings("go-vet", "repository") = {} /\ Findings("golangci-lint", "repository") = {}
      /\ Findings("verify_vectors.py", "repository") = {}
  <2>1. 6 \in 1 .. 32 /\ 9 \in 1 .. 32 /\ 12 \in 1 .. 32
    OBVIOUS
  <2>2. Shown(6) /\ Shown(9) /\ Shown(12)
    BY <2>1, AllShown
  <2> QED
    BY <2>2, Script1To12 DEF Shown
<1>2. TypeOK
  BY DEF IInv
<1>3. AnnexFindings("repository") = {}
  BY <1>1, FindingsAre
<1>4. /\ \A v \in DOMAIN annex : \A c \in mutate("repository")[v] : health[c] = "dead"
      /\ \A c \in EachOf(AnnexChecks) : ~FiresOn(c, "repository")
  BY <1>2, <1>3, AnnexFindingsAre
<1>5. \A v \in DOMAIN annex : \A c \in annex[v] : health[c] = "dead"
  BY <1>2, <1>4, MutateIs
<1>6. ~FiresOn("canonical-core", "repository") /\ \A r \in VetRules : ~FiresOn(r, "repository")
  BY <1>1, FindingsAre DEF RepositoryImports
<1>7. tree \ Refusals \subseteq {"canonical-core"} \union VetRules \union EachOf(AnnexChecks)
  BY <1>2 DEF TypeOK, Faults, RepositoryImports
<1> QED
  BY <1>4, <1>5, <1>6, <1>7

(* The checker fires on what mutate has planted, so the vectors are there.  *)
LEMMA CheckerIsAlive ==
  ASSUME IInv, status = "green"
  PROVE  /\ health["fields"] # "dead" /\ health["signature"] # "dead"
         /\ "signed/v1/commit" \in DOMAIN annex
         /\ "blob/v1/signed-by-test-key" \in DOMAIN annex
<1>1. "fields" \in AnnexFindings("der") /\ "signature" \in AnnexFindings("value")
  <2>1. "fields" \in Found(29) /\ "signature" \in Found(32)
    BY AllShown, Script13To32 DEF Shown
  <2> QED
    BY <2>1, FoundIs, FindingsAre
<1>2. TypeOK
  BY DEF IInv
<1>3. PICK v \in DOMAIN annex : "fields" \in mutate("der")[v] /\ health["fields"] # "dead"
  BY <1>1, <1>2, AnnexFindingsAre, RulesAre
<1>4. PICK w \in DOMAIN annex : "signature" \in mutate("value")[w] /\ health["signature"] # "dead"
  BY <1>1, <1>2, AnnexFindingsAre, RulesAre
<1>5. v = "signed/v1/commit"
  BY <1>2, <1>3, MutateIs, RepositoryIsClean
<1>6. w = "blob/v1/signed-by-test-key"
  BY <1>2, <1>4, MutateIs, RepositoryIsClean
<1> QED
  BY <1>3, <1>4, <1>5, <1>6

(* The gates refuse what is wrong with a repository, whatever tools do, but *)
(* for the rules that they do not try, and a git that fails where it is     *)
(* asked for go.work (verify-gates.sh, negative-gate.sh).                   *)
THEOREM GreenAlwaysMeansClean == Spec => []GreenMeansClean
<1>1. ASSUME IInv, status = "green"
      PROVE  /\ git
             /\ \A f \in tree : (f \in Rules /\ LetBy(f)) \/ (f = "go.work" /\ FailedAt("go.work"))
             /\ \A v \in DOMAIN annex : \A c \in annex[v] : LetBy(c)
  <2>1. git /\ "dirty" \notin tree /\ "drift" \notin tree
    BY <1>1, AllShown, Script1To12 DEF Shown
  <2>2. ASSUME NEW f \in tree, f \in Refusals PROVE f = "go.work" /\ FailedAt("go.work")
    <3>1. PICK i \in 1 .. 8 : Script[i].do = "refuse" /\ Script[i].fault = f
      BY <2>1, <2>2, Script1To12
    <3> QED
      BY <1>1, <2>2, <3>1, AllShown DEF Shown
  <2>3. ASSUME NEW f \in tree, f \notin Refusals PROVE f \in Rules /\ LetBy(f)
    <3>1. f \in Rules /\ f \in {"canonical-core", "marshal", "range"} \union EachOf(AnnexChecks)
      BY <1>1, <2>3, RulesAre DEF IInv, TypeOK
    <3>2. ~FiresOn(f, "repository") /\ f \in planted("repository")
      BY <1>1, <2>3, RepositoryIsClean DEF planted
    <3>3. health[f] = "dead" \/ (f = "range" /\ health["detpath"] # "works")
      BY <3>2 DEF FiresOn, InScope
    <3>4. health["marshal"] # "dead" /\ health["range"] # "dead"
      BY <1>1, LintersAreAlive
    <3> QED
      BY <3>1, <3>3, <3>4, RulesAre DEF LetBy, Tried
  <2>4. ASSUME NEW v \in DOMAIN annex, NEW c \in annex[v] PROVE LetBy(c)
    <3>1. health[c] = "dead" /\ c \in EachOf(VectorChecks)
      BY <1>1, <2>4, RepositoryIsClean DEF IInv, TypeOK
    <3>2. c \notin {"fields", "signature"}
      BY <1>1, <3>1, CheckerIsAlive
    <3> QED
      BY <3>1, <3>2, RulesAre DEF LetBy, Tried
  <2> QED
    BY <2>1, <2>2, <2>3, <2>4
<1> QED
  BY <1>1, InductiveInvariant, PTL DEF GreenMeansClean

(* The gates' own rules fire, for their own fault and in their own scope    *)
(* (negative-gate.sh).                                                      *)
THEOREM GreenAlwaysMeansFired == Spec => []GreenMeansFired
<1>1. ASSUME IInv, status = "green"
      PROVE  /\ \A r \in Tried : health[r] # "dead"
             /\ \A r \in Scoped : health[r] = "works"
             /\ DOMAIN annex = EachOf(Vectors)
  <2>1. \A r \in Tried : health[r] # "dead"
    BY <1>1, LintersAreAlive, CheckerIsAlive DEF Tried
  <2>2. DOMAIN annex = EachOf(Vectors)
    BY <1>1, CheckerIsAlive, RulesAre DEF IInv, TypeOK
  <2> QED
    BY <1>1, <2>1, <2>2, LintersAreAlive
<1> QED
  BY <1>1, InductiveInvariant, PTL DEF GreenMeansFired

(* A tool that could not do its work was taken for an answer only where it  *)
(* had given the one looked for (negative-gate.sh:75-76, :82, :90, :96).     *)
THEOREM GreenAlwaysMeansVerdicts == Spec => []GreenMeansVerdicts
<1>1. ASSUME IInv, status = "green"
      PROVE  \A x \in failed : Script[x.at].do = "run" =>
               /\ Script[x.at].tool # "golangci-lint" /\ Script[x.at].on # "edge"
               /\ LookedFor(Script[x.at]) \subseteq x.printed
  <2> SUFFICES ASSUME NEW x \in failed, Script[x.at].do = "run"
               PROVE  /\ Script[x.at].tool # "golangci-lint" /\ Script[x.at].on # "edge"
                      /\ LookedFor(Script[x.at]) \subseteq x.printed
    OBVIOUS
  <2>1. x.at \in {14, 17, 21, 24, 27, 30}
    BY <1>1, StepsByKind DEF IInv, LastRun
  <2>2. \A i \in {15, 16, 18, 19, 20, 22, 25, 28, 29, 31, 32} : Judged(i)
    BY <1>1, AllShown
  <2>3. /\ x.at \notin {14, 21, 24}
        /\ x.at = 17 => {"marshal", "range"} \subseteq x.printed
        /\ x.at = 27 => "fields" \in x.printed
        /\ x.at = 30 => "signature" \in x.printed
    BY <1>1, <2>2, Script13To32, StepsByKind DEF Judged, RunBefore
  <2> QED
    BY <2>1, <2>3, Script13To32 DEF LookedFor
<1> QED
  BY <1>1, InductiveInvariant, PTL DEF GreenMeansVerdicts
=============================================================================
