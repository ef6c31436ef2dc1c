------------------------------ MODULE Determinism ------------------------------
(***************************************************************************)
(* The determinism analyzer of lint/determinism/analyzer.go, run at any    *)
(* time on a package that is being edited: lines and imports come and go   *)
(* in every file, and diagnostics are answered with directives.  A line    *)
(* holds at most one call or range statement, with what the type checker   *)
(* knows of it, and at most one comment: a directive without a reason,     *)
(* one with it, or none.                                                   *)
(***************************************************************************)
EXTENDS Integers, SequencesExt, FiniteSets

CONSTANTS Files,
          Lines,          \* what may stand on a line: [site, comment]
          Packages,       \* the import paths there may be
          bannedCalls,    \* [pkg, name] of the functions that must not feed a hash
          hashPkgs,       \* import paths
          Patterns,       \* the regular expressions given as -detpath
          Compiles(_),    \* regexp.Compile takes it
          MatchesPath(_), \* it matches the package's own import path
          MaxLines        \* bound: the lines of the package

Nothing  == [is |-> "nothing"]
NoFunc   == [is |-> "none", pkg |-> "", name |-> ""]
Comments == {"none", "bare", "reason"}

(* A call names what it calls by an identifier, by a selector, or not at   *)
(* all; uses is the object TypesInfo has for the name, and runs is the     *)
(* function that runs.  The object of a function or of a concrete method   *)
(* ("func") is what runs.  That of a method called through an interface or *)
(* a type parameter ("interface") is the one the interface declares, in    *)
(* its package; any function may run.  So it may for a variable.           *)
IsSite(s) ==
  \/ s = Nothing
  \/ s.is = "range" /\ s.key \in BOOLEAN
  \/ /\ s.is = "call"
     /\ s.uses.is = "func" => s.runs = [pkg |-> s.uses.pkg, name |-> s.uses.name]

ASSUME DeterminismAssumption ==
  /\ Lines \subseteq [site : {l.site : l \in Lines}, comment : Comments]
  /\ \A l \in Lines : IsSite(l.site)
  /\ [pkg |-> NoFunc.pkg, name |-> NoFunc.name] \notin bannedCalls
  /\ \A d \in Patterns : Compiles(d) \in BOOLEAN /\ MatchesPath(d) \in BOOLEAN

VARIABLES code,     \* the lines of each file
          imports,  \* the imports of each file
          detpath   \* the flag

vars == <<code, imports, detpath>>

-----------------------------------------------------------------------------
\* Mutant: a directive is kept by its line only.
keyOfLine(file, line) == <<"any", line>>

key(file, line) == <<file, line>>

Places     == UNION {{f} \X DOMAIN code[f] : f \in Files}
Site(p)    == code[p[1]][p[2]].site
Comment(p) == code[p[1]][p[2]].comment

\* Mutant: a directive covers the line it is on and no other.
allowedInline == {key(p[1], p[2]) : p \in {q \in Places : Comment(q) = "reason"}}

(* The lines of directives that have a reason, and those after them. *)
allowed ==
  UNION {{key(p[1], p[2]), key(p[1], p[2] + 1)} : p \in {q \in Places : Comment(q) = "reason"}}

suppressed(p) == key(p[1], p[2]) \in allowed

\* Mutant: the imports of one file stand for the package's.
packageHashesOneFile == imports[CHOOSE f \in Files : TRUE] \intersect hashPkgs # {}

(* Pkg.Imports: what any file of the package imports. *)
packageHashes == \E f \in Files : imports[f] \intersect hashPkgs # {}

(* A name is asked for its *types.Func, which interfaces' methods are too. *)
calleeFunc(s) == IF s.fun \in {"ident", "selector"} /\ s.uses.is \in {"func", "interface"}
                   THEN s.uses ELSE NoFunc

(* A type parameter's underlying type is its constraint, an interface. *)
Underlying(t) == CASE t = "named map"      -> "map"
                   [] t = "type parameter" -> "interface"
                   [] OTHER                -> t

checkMarshal ==
  {p \in Places : /\ Site(p).is = "call"
                  /\ LET fn == calleeFunc(Site(p))
                     IN  [pkg |-> fn.pkg, name |-> fn.name] \in bannedCalls
                  /\ ~suppressed(p)}

checkMapRange ==
  {p \in Places : /\ Site(p).is = "range" /\ Site(p).key
                  /\ Underlying(Site(p).over) = "map"
                  /\ ~suppressed(p)}

(* The places reported, which are the first two parts of a file:line:column. *)
run == [err   |-> IF Compiles(detpath) THEN "ok" ELSE "bad -detpath regexp",
        diags |-> (IF packageHashes THEN checkMarshal ELSE {})
                    \union (IF Compiles(detpath) /\ MatchesPath(detpath)
                              THEN checkMapRange ELSE {})]

-----------------------------------------------------------------------------
Init == /\ code = [f \in Files |-> <<>>]
        /\ imports = [f \in Files |-> {}]
        /\ detpath \in Patterns

Edit(f, lines) == code' = [code EXCEPT ![f] = lines] /\ UNCHANGED <<imports, detpath>>

InsertLine(f, i, l) == /\ Cardinality(Places) < MaxLines /\ i \in 1 .. Len(code[f]) + 1
                       /\ Edit(f, InsertAt(code[f], i, l))

DeleteLine(f, i) == i \in DOMAIN code[f] /\ Edit(f, RemoveAt(code[f], i))

(* The two ways to answer a diagnostic: AllowedAbove, AllowedInline. *)
Excuse == [site |-> Nothing, comment |-> "reason"]

AnswerAbove(p)  == p \in run.diags /\ InsertLine(p[1], p[2], Excuse)
AnswerInline(p) == /\ p \in run.diags
                   /\ Edit(p[1], [code[p[1]] EXCEPT ![p[2]].comment = "reason"])

SetImports(f, s) == imports' = [imports EXCEPT ![f] = s] /\ UNCHANGED <<code, detpath>>

Next == \/ \E f \in Files : \/ \E i \in 1 .. MaxLines : \/ \E l \in Lines : InsertLine(f, i, l)
                                                       \/ DeleteLine(f, i)
                            \/ \E s \in SUBSET Packages : SetImports(f, s)
        \/ \E p \in Places : AnswerAbove(p) \/ AnswerInline(p)

Spec == Init /\ [][Next]_vars

-----------------------------------------------------------------------------
(* Lines keep to what IsSite says, answered or not.                          *)
TypeOK == /\ code \in [Files -> Seq([site : {l.site : l \in Lines} \union {Nothing},
                                    comment : Comments])]
          /\ imports \in [Files -> SUBSET Packages]
          /\ detpath \in Patterns

Excused(p) == \E q \in Places : q[1] = p[1] /\ p[2] - q[2] \in {0, 1} /\ Comment(q) = "reason"

RunsBanned(s)    == s.is = "call" /\ s.runs \in bannedCalls
Named(s)         == s.fun \in {"ident", "selector"}
NamesBanned(s)   == /\ s.is = "call" /\ Named(s)
                    /\ \/ s.uses.is = "func" /\ RunsBanned(s)
                       \/ /\ s.uses.is = "interface"
                          /\ [pkg |-> s.uses.pkg, name |-> s.uses.name] \in bannedCalls
ImportsHash      == \E f \in Files, h \in hashPkgs : h \in imports[f]
RangesOverMap(s) == s.is = "range" /\ s.key /\ s.over \in {"map", "named map"}

(* Whatever was edited, and in whichever file, the report is of the places   *)
(* that have no reason beside them and hold, in a package that hashes, a     *)
(* call that names the function it runs, a banned one, or in the core a      *)
(* keyed range over a map (analyzer.go:19-26).  A call that does not name    *)
(* what it runs is not followed, whatever runs: through a variable it is     *)
(* not reported, through an interface only if the interface declares the     *)
(* method in a banned function's package, under its name.  Nor is a range    *)
(* over a type parameter that stands for a map (analyzer.go:34).             *)
ReportIsExact ==
  run.err = "ok" =>
    run.diags = {p \in Places : /\ ~Excused(p)
                                /\ \/ NamesBanned(Site(p)) /\ ImportsHash
                                   \/ RangesOverMap(Site(p)) /\ MatchesPath(detpath)}

(* An edit of one file says nothing about the lines of another: directives   *)
(* are kept by file and line (analyzer.go:168, :183).                        *)
ReasonsAreLocal ==
  [][UNCHANGED imports =>
       \A p \in Places : code'[p[1]] = code[p[1]] => (p \in run.diags <=> p \in run.diags')]_vars

(* A false positive costs one comment (analyzer.go:24): a directive put      *)
(* above a diagnostic answers that one and no other, and lines that move     *)
(* down under it keep their diagnostics and their answers.                   *)
Below(p, q) == IF q[1] = p[1] /\ q[2] >= p[2] THEN <<q[1], q[2] + 1>> ELSE q

OneReasonAnswersOne ==
  [][\A p \in Places :
       AnswerAbove(p) => run.diags' = {Below(p, q) : q \in run.diags \ {p}}]_vars

(* Calls are resolved through method values (analyzer.go:127).  They are     *)
(* not: the object of such a name is a variable.                             *)
MethodValuesFollowed ==
  \A p \in Places : RunsBanned(Site(p)) /\ ImportsHash /\ ~Excused(p) => p \in run.diags

(* A justification cannot be skipped (analyzer.go:26): a banned call put in  *)
(* without a reason, on its line or on a line of its own above (:154), is    *)
(* reported.  It is not, on the line after a directive that was written      *)
(* beside another call.                                                      *)
AnsweredAbove(p) == \E q \in Places : /\ q = <<p[1], p[2] - 1>> /\ Site(q) = Nothing
                                      /\ Comment(q) = "reason"

JustificationNotSkipped ==
  [][\A f \in Files, i \in 1 .. MaxLines, l \in Lines :
       InsertLine(f, i, l) =>
         (NamesBanned(l.site) /\ ImportsHash /\ l.comment # "reason" /\ ~AnsweredAbove(<<f, i>>)
            => <<f, i>> \in run.diags')]_vars
=============================================================================
