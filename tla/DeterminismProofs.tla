--------------------------- MODULE DeterminismProofs ---------------------------
(***************************************************************************)
(* What the analyzer reports, for packages of any size and any edits.      *)
(***************************************************************************)
EXTENDS Determinism, SequenceTheorems, TLAPS

LineType == [site : {l.site : l \in Lines} \union {Nothing}, comment : Comments]

-----------------------------------------------------------------------------
(* A line put into a file and a line taken out, place by place.             *)
LEMMA InsertAtPlaces ==
  ASSUME NEW S, NEW s \in Seq(S), NEW x \in S, NEW i \in 1 .. Len(s) + 1
  PROVE  /\ InsertAt(s, i, x) \in Seq(S)
         /\ DOMAIN InsertAt(s, i, x) = 1 .. Len(s) + 1
         /\ \A j \in 1 .. Len(s) + 1 :
              InsertAt(s, i, x)[j] = IF j < i THEN s[j] ELSE IF j = i THEN x ELSE s[j - 1]
<1> DEFINE a == SubSeq(s, 1, i - 1)
           b == SubSeq(s, i, Len(s))
<1>1. /\ a \in Seq(S) /\ Len(a) = i - 1
      /\ \A j \in 1 .. i - 1 : a[j] = s[j]
  OBVIOUS
<1>2. /\ b \in Seq(S) /\ Len(b) = Len(s) - i + 1
      /\ \A j \in 1 .. Len(s) - i + 1 : b[j] = s[j + i - 1]
  OBVIOUS
<1>3. InsertAt(s, i, x) = (a \o <<x>>) \o b
  BY DEF InsertAt
<1> HIDE DEF a, b
<1>4. /\ a \o <<x>> \in Seq(S) /\ Len(a \o <<x>>) = i
      /\ \A j \in 1 .. i - 1 : (a \o <<x>>)[j] = s[j]
      /\ (a \o <<x>>)[i] = x
  BY <1>1
<1> DEFINE c == a \o <<x>>
<1>5. /\ c \in Seq(S) /\ Len(c) = i
      /\ \A j \in 1 .. i - 1 : c[j] = s[j]
      /\ c[i] = x
  BY <1>4
<1>6. InsertAt(s, i, x) = c \o b
  BY <1>3
<1> HIDE DEF c
<1>7. Len(c) + Len(b) = Len(s) + 1
  BY <1>2, <1>5
<1>8. c \o b \in Seq(S) /\ Len(c \o b) = Len(s) + 1
  BY <1>2, <1>5, <1>7, ConcatProperties
<1>9. ASSUME NEW j \in 1 .. Len(s) + 1
      PROVE  (c \o b)[j] = IF j < i THEN s[j] ELSE IF j = i THEN x ELSE s[j - 1]
  <2>1. CASE j <= i
    <3>1. j \in 1 .. Len(c) /\ j \in 1 .. Len(c) + Len(b)
      BY <1>5, <1>7, <2>1
    <3>2. (c \o b)[j] = c[j]
      BY <1>2, <1>5, <3>1, ConcatProperties
    <3>3. j < i => j \in 1 .. i - 1
      BY <2>1
    <3> QED
      BY <1>5, <2>1, <3>2, <3>3
  <2>2. CASE j > i
    <3>1. j - i \in 1 .. Len(s) - i + 1 /\ j - i + i - 1 = j - 1
      BY <2>2
    <3>2. (c \o b)[j] = b[j - i]
      BY <1>2, <1>5, <1>7, <2>2, ConcatProperties
    <3> QED
      BY <1>2, <2>2, <3>1, <3>2
  <2>3. j <= i \/ j > i
    OBVIOUS
  <2> QED
    BY <2>1, <2>2, <2>3
<1> QED
  BY <1>6, <1>8, <1>9

LEMMA RemoveAtIsLines ==
  ASSUME NEW S, NEW s \in Seq(S), NEW i \in DOMAIN s
  PROVE  RemoveAt(s, i) \in Seq(S)
<1>1. SubSeq(s, 1, i - 1) \in Seq(S) /\ SubSeq(s, i + 1, Len(s)) \in Seq(S)
  OBVIOUS
<1> QED
  BY <1>1 DEF RemoveAt

-----------------------------------------------------------------------------
(* The edits keep files files.                                              *)
LEMMA EditKeepsType ==
  ASSUME TypeOK, NEW f \in Files, NEW lines \in Seq(LineType), Edit(f, lines)
  PROVE  TypeOK'
BY DEF TypeOK, LineType, Edit

LEMMA LinesAreTyped == Lines \subseteq LineType
BY DeterminismAssumption DEF LineType

LEMMA ExcuseIsTyped == Excuse \in LineType
BY DEF LineType, Excuse, Comments

LEMMA AnswerIsTyped ==
  ASSUME NEW l \in LineType PROVE [l EXCEPT !.comment = "reason"] \in LineType
<1> DEFINE X == {m.site : m \in Lines} \union {Nothing}
<1>1. LineType = [site : X, comment : Comments] /\ "reason" \in Comments
  BY DEF LineType, Comments
<1> HIDE DEF X
<1> QED
  BY <1>1

LEMMA FilesAreLines == ASSUME TypeOK, NEW f \in Files PROVE code[f] \in Seq(LineType)
BY DEF TypeOK, LineType

LEMMA InsertKeepsType ==
  ASSUME TypeOK, NEW f \in Files, NEW i, NEW l \in LineType, InsertLine(f, i, l)
  PROVE  TypeOK'
<1>1. code[f] \in Seq(LineType) /\ i \in 1 .. Len(code[f]) + 1
  BY FilesAreLines DEF InsertLine
<1>2. InsertAt(code[f], i, l) \in Seq(LineType)
  BY <1>1, InsertAtPlaces
<1> QED
  BY <1>2, EditKeepsType DEF InsertLine

(* Every state is a package: TypeOK is an invariant of any editing.         *)
THEOREM AlwaysTyped == Spec => []TypeOK
<1>1. Init => TypeOK
  BY DEF Init, TypeOK
<1>2. TypeOK /\ [Next]_vars => TypeOK'
  <2> SUFFICES ASSUME TypeOK, [Next]_vars PROVE TypeOK'
    OBVIOUS
  <2>1. ASSUME NEW f \in Files, NEW i \in 1 .. MaxLines, NEW l \in Lines, InsertLine(f, i, l)
        PROVE  TypeOK'
    BY <2>1, LinesAreTyped, InsertKeepsType
  <2>2. ASSUME NEW f \in Files, NEW i \in 1 .. MaxLines, DeleteLine(f, i)
        PROVE  TypeOK'
    BY <2>2, FilesAreLines, RemoveAtIsLines, EditKeepsType DEF DeleteLine
  <2>3. ASSUME NEW f \in Files, NEW s \in SUBSET Packages, SetImports(f, s)
        PROVE  TypeOK'
    BY <2>3 DEF SetImports, TypeOK
  <2>4. ASSUME NEW p \in Places, AnswerAbove(p)
        PROVE  TypeOK'
    <3>1. p[1] \in Files
      BY DEF Places
    <3> QED
      BY <2>4, <3>1, ExcuseIsTyped, InsertKeepsType DEF AnswerAbove
  <2>5. ASSUME NEW p \in Places, AnswerInline(p)
        PROVE  TypeOK'
    <3>1. p[1] \in Files /\ p[2] \in DOMAIN code[p[1]] /\ code[p[1]] \in Seq(LineType)
      BY FilesAreLines DEF Places
    <3>2. [code[p[1]][p[2]] EXCEPT !.comment = "reason"] \in LineType
      BY <3>1, AnswerIsTyped
    <3>3. [code[p[1]] EXCEPT ![p[2]] = [@ EXCEPT !.comment = "reason"]] \in Seq(LineType)
      BY <3>1, <3>2
    <3> QED
      BY <2>5, <3>1, <3>3, EditKeepsType DEF AnswerInline
  <2>6. CASE UNCHANGED vars
    BY <2>6 DEF TypeOK, vars
  <2> QED
    BY <2>1, <2>2, <2>3, <2>4, <2>5, <2>6 DEF Next
<1> QED
  BY <1>1, <1>2, PTL DEF Spec

-----------------------------------------------------------------------------
LEMMA PlaceIsPair ==
  ASSUME TypeOK, NEW p \in Places
  PROVE  /\ p[1] \in Files /\ p[2] \in 1 .. Len(code[p[1]]) /\ p = <<p[1], p[2]>>
         /\ p[2] \in Int /\ Len(code[p[1]]) \in Nat
<1>1. PICK f \in Files : p \in {f} \X DOMAIN code[f]
  BY DEF Places
<1>2. DOMAIN code[f] = 1 .. Len(code[f]) /\ Len(code[f]) \in Nat
  BY FilesAreLines
<1> QED
  BY <1>1, <1>2

LEMMA PairIsPlace ==
  ASSUME TypeOK, NEW f \in Files, NEW i \in 1 .. Len(code[f])
  PROVE  <<f, i>> \in Places
<1>1. DOMAIN code[f] = 1 .. Len(code[f])
  BY FilesAreLines
<1> QED
  BY <1>1 DEF Places

(* The table of allowed lines is what a reader would look for: a reason on  *)
(* the line or on the one above, in that file.                              *)
LEMMA SuppressedIsExcused ==
  ASSUME TypeOK, NEW p \in Places
  PROVE  suppressed(p) <=> Excused(p)
<1>1. p[2] \in Int
  BY PlaceIsPair
<1>2. ASSUME NEW q \in Places
      PROVE  key(p[1], p[2]) \in {key(q[1], q[2]), key(q[1], q[2] + 1)}
               <=> q[1] = p[1] /\ p[2] - q[2] \in {0, 1}
  <2>1. q[2] \in Int
    BY PlaceIsPair
  <2> QED
    BY <1>1, <2>1 DEF key
<1> QED
  BY <1>2 DEF suppressed, allowed, Excused

LEMMA PlaceIsSite ==
  ASSUME TypeOK, NEW p \in Places
  PROVE  IsSite(Site(p))
<1>1. p[1] \in Files /\ p[2] \in 1 .. Len(code[p[1]]) /\ code[p[1]] \in Seq(LineType)
  BY PlaceIsPair, FilesAreLines
<1>2. code[p[1]][p[2]] \in LineType
  BY <1>1
<1>3. Site(p) \in {l.site : l \in Lines} \union {Nothing}
  BY <1>2 DEF LineType, Site
<1> QED
  BY <1>3, DeterminismAssumption DEF IsSite

LEMMA CalleeRuns ==
  ASSUME NEW s, IsSite(s), s.is = "call"
  PROVE  LET fn == calleeFunc(s)
         IN  [pkg |-> fn.pkg, name |-> fn.name] \in bannedCalls
               <=> NamesBanned(s)
<1>1. CASE Named(s) /\ s.uses.is = "func"
  <2>1. calleeFunc(s) = s.uses
    BY <1>1 DEF calleeFunc, Named
  <2>2. s.runs = [pkg |-> s.uses.pkg, name |-> s.uses.name]
    BY <1>1 DEF IsSite, Named, Nothing
  <2> QED
    BY <1>1, <2>1, <2>2 DEF RunsBanned, NamesBanned
<1>2. CASE Named(s) /\ s.uses.is = "interface"
  BY <1>2 DEF calleeFunc, Named, NamesBanned
<1>3. CASE ~(Named(s) /\ s.uses.is \in {"func", "interface"})
  <2>1. calleeFunc(s) = NoFunc
    BY <1>3 DEF calleeFunc, Named
  <2> QED
    BY <1>3, <2>1, DeterminismAssumption DEF NamesBanned
<1> QED
  BY <1>1, <1>2, <1>3

LEMMA UnderlyingMap == \A t : Underlying(t) = "map" <=> t \in {"map", "named map"}
BY DEF Underlying

LEMMA HashesIfImported == packageHashes <=> ImportsHash
BY DEF packageHashes, ImportsHash

(* What a place is reported for.                                            *)
Offends(p) == \/ NamesBanned(Site(p)) /\ ImportsHash
              \/ RangesOverMap(Site(p)) /\ Compiles(detpath) /\ MatchesPath(detpath)

LEMMA Reported ==
  TypeOK => run.diags = {p \in Places : ~Excused(p) /\ Offends(p)}
<1> SUFFICES ASSUME TypeOK PROVE run.diags = {p \in Places : ~Excused(p) /\ Offends(p)}
  OBVIOUS
<1>1. ASSUME NEW p \in Places
      PROVE  p \in checkMarshal <=> ~Excused(p) /\ NamesBanned(Site(p))
  <2>1. CASE Site(p).is = "call"
    BY <2>1, PlaceIsSite, CalleeRuns, SuppressedIsExcused DEF checkMarshal
  <2>2. CASE Site(p).is # "call"
    BY <2>2 DEF checkMarshal, NamesBanned
  <2> QED
    BY <2>1, <2>2
<1>2. ASSUME NEW p \in Places
      PROVE  p \in checkMapRange <=> ~Excused(p) /\ RangesOverMap(Site(p))
  BY UnderlyingMap, SuppressedIsExcused DEF checkMapRange, RangesOverMap
<1>3. checkMarshal \subseteq Places /\ checkMapRange \subseteq Places
  BY DEF checkMarshal, checkMapRange
<1>4. run.diags = (IF packageHashes THEN checkMarshal ELSE {})
                    \union (IF Compiles(detpath) /\ MatchesPath(detpath)
                              THEN checkMapRange ELSE {})
  BY DEF run
<1> QED
  BY <1>1, <1>2, <1>3, <1>4, HashesIfImported DEF Offends

(* The report is of the calls that name a banned function, and of the keyed *)
(* ranges over maps, without a reason: no more and no less.                 *)
THEOREM ReportIsExactAlways == Spec => []ReportIsExact
<1>1. TypeOK => ReportIsExact
  <2> SUFFICES ASSUME TypeOK, run.err = "ok" PROVE ReportIsExact
    BY DEF ReportIsExact
  <2>1. Compiles(detpath)
    BY DEF run
  <2> QED
    BY <2>1, Reported DEF ReportIsExact, Offends
<1> QED
  BY <1>1, AlwaysTyped, PTL

-----------------------------------------------------------------------------
LEMMA StepKeepsFlag == ASSUME [Next]_vars PROVE detpath' = detpath
BY DEF Next, vars, InsertLine, DeleteLine, SetImports, AnswerAbove, AnswerInline, Edit

(* An edit elsewhere, with the imports as they were, changes nothing here.  *)
LEMMA ElsewhereKept ==
  ASSUME TypeOK, TypeOK', UNCHANGED <<imports, detpath>>,
         NEW p \in Places, code'[p[1]] = code[p[1]]
  PROVE  p \in Places' /\ (Offends(p)' <=> Offends(p)) /\ (Excused(p)' <=> Excused(p))
<1>1. p[1] \in Files /\ Site(p)' = Site(p)
  BY PlaceIsPair DEF Site
<1>2. ASSUME NEW q, q[1] = p[1]
      PROVE  (q \in Places' <=> q \in Places) /\ Comment(q)' = Comment(q)
  <2>1. \A f \in Files : q \in {f} \X DOMAIN code[f] => f = q[1]
    OBVIOUS
  <2>2. \A f \in Files : q \in {f} \X DOMAIN code'[f] => f = q[1]
    OBVIOUS
  <2> QED
    BY <1>1, <1>2, <2>1, <2>2 DEF Places, Comment
<1>3. Offends(p)' <=> Offends(p)
  BY <1>1 DEF Offends, ImportsHash
<1> QED
  BY <1>2, <1>3 DEF Excused

(* Directives act on their own file.                                        *)
THEOREM ReasonsAreAlwaysLocal == Spec => ReasonsAreLocal
<1>1. TypeOK /\ TypeOK' /\ [Next]_vars
        /\ (TypeOK => run.diags = {p \in Places : ~Excused(p) /\ Offends(p)})
        /\ (TypeOK => run.diags = {p \in Places : ~Excused(p) /\ Offends(p)})'
        => [UNCHANGED imports =>
              \A p \in Places :
                code'[p[1]] = code[p[1]] => (p \in run.diags <=> p \in run.diags')]_vars
  <2> SUFFICES ASSUME TypeOK, TypeOK', [Next]_vars, UNCHANGED imports,
                      run.diags = {p \in Places : ~Excused(p) /\ Offends(p)},
                      (run.diags = {p \in Places : ~Excused(p) /\ Offends(p)})',
                      NEW p \in Places, code'[p[1]] = code[p[1]]
               PROVE  p \in run.diags <=> p \in run.diags'
    OBVIOUS
  <2>1. p \in Places' /\ (Offends(p)' <=> Offends(p)) /\ (Excused(p)' <=> Excused(p))
    BY StepKeepsFlag, ElsewhereKept
  <2> QED
    BY <2>1
<1> QED
  BY <1>1, AlwaysTyped, Reported, PTL DEF Spec, ReasonsAreLocal

-----------------------------------------------------------------------------
(* A directive is put above p: where every place goes, and what it excuses. *)
LEMMA AboveMoves ==
  ASSUME TypeOK, NEW p \in Places, AnswerAbove(p)
  PROVE  /\ Places' = {Below(p, q) : q \in Places} \union {p}
         /\ Site(p)' = Nothing /\ Comment(p)' = "reason"
         /\ \A q \in Places : /\ Site(Below(p, q))' = Site(q)
                              /\ Comment(Below(p, q))' = Comment(q)
<1> DEFINE L == code[p[1]]
           K == InsertAt(L, p[2], Excuse)
<1>1. /\ p[1] \in Files /\ p[2] \in 1 .. Len(L) /\ p = <<p[1], p[2]>>
      /\ L \in Seq(LineType) /\ p[2] \in Int /\ Len(L) \in Nat
  BY PlaceIsPair, FilesAreLines
<1>2. /\ DOMAIN K = 1 .. Len(L) + 1 /\ DOMAIN L = 1 .. Len(L)
      /\ \A j \in 1 .. Len(L) + 1 :
           K[j] = IF j < p[2] THEN L[j] ELSE IF j = p[2] THEN Excuse ELSE L[j - 1]
  <2>1. p[2] \in 1 .. Len(L) + 1
    BY <1>1
  <2>2. DOMAIN L = 1 .. Len(L)
    BY <1>1
  <2>3. L \in Seq(LineType) /\ Excuse \in LineType
    BY <1>1, ExcuseIsTyped
  <2> HIDE DEF L
  <2>4. /\ DOMAIN K = 1 .. Len(L) + 1
        /\ \A j \in 1 .. Len(L) + 1 :
             K[j] = IF j < p[2] THEN L[j] ELSE IF j = p[2] THEN Excuse ELSE L[j - 1]
    <3>1. \A i \in 1 .. Len(L) + 1 :
            /\ DOMAIN InsertAt(L, i, Excuse) = 1 .. Len(L) + 1
            /\ \A j \in 1 .. Len(L) + 1 :
                 InsertAt(L, i, Excuse)[j] =
                   IF j < i THEN L[j] ELSE IF j = i THEN Excuse ELSE L[j - 1]
      BY <2>3, InsertAtPlaces
    <3> QED
      BY <2>1, <3>1, Zenon
  <2> QED
    BY <2>2, <2>4
<1>3. code' = [code EXCEPT ![p[1]] = K]
  BY DEF AnswerAbove, InsertLine, Edit
<1>4. code'[p[1]] = K /\ \A f \in Files : f # p[1] => code'[f] = code[f]
  BY <1>1, <1>3 DEF TypeOK
<1>5. Site(p)' = Nothing /\ Comment(p)' = "reason"
  <2>1. K[p[2]] = Excuse
    BY <1>1, <1>2
  <2> QED
    BY <1>4, <2>1 DEF Site, Comment, Excuse
<1>6. ASSUME NEW q \in Places
      PROVE  /\ Below(p, q) \in Places'
             /\ Site(Below(p, q))' = Site(q) /\ Comment(Below(p, q))' = Comment(q)
  <2>1. /\ q[1] \in Files /\ q[2] \in 1 .. Len(code[q[1]]) /\ q = <<q[1], q[2]>>
        /\ q[2] \in Int /\ DOMAIN code[q[1]] = 1 .. Len(code[q[1]])
    BY PlaceIsPair, FilesAreLines
  <2>2. CASE q[1] # p[1]
    <3>1. Below(p, q) = q /\ code'[q[1]] = code[q[1]]
      BY <1>4, <2>1, <2>2 DEF Below
    <3> QED
      BY <2>1, <3>1 DEF Places, Site, Comment
  <2>3. CASE q[1] = p[1] /\ q[2] < p[2]
    <3>1. Below(p, q) = q /\ K[q[2]] = L[q[2]] /\ q[2] \in DOMAIN K
      BY <1>1, <1>2, <2>1, <2>3 DEF Below
    <3> QED
      BY <1>4, <2>1, <2>3, <3>1 DEF Places, Site, Comment
  <2>4. CASE q[1] = p[1] /\ q[2] >= p[2]
    <3>1. /\ Below(p, q) = <<q[1], q[2] + 1>> /\ q[2] + 1 \in DOMAIN K
          /\ q[2] + 1 > p[2] /\ q[2] + 1 - 1 = q[2]
      BY <1>1, <1>2, <2>1, <2>4 DEF Below
    <3>2. \A j, k \in Int : j = k + 1 /\ j \in 1 .. Len(L) + 1 /\ j > p[2] => K[j] = L[k]
      <4> SUFFICES ASSUME NEW j \in Int, NEW k \in Int, j = k + 1,
                          j \in 1 .. Len(L) + 1, j > p[2]
                   PROVE  K[j] = L[k]
        OBVIOUS
      <4>1. ~(j < p[2]) /\ j # p[2] /\ j - 1 = k
        BY <1>1
      <4> HIDE DEF K, L
      <4> QED
        BY <1>2, <4>1
    <3>3. K[q[2] + 1] = L[q[2]]
      BY <1>1, <1>2, <2>1, <2>4, <3>1, <3>2
    <3> QED
      BY <1>4, <2>1, <2>4, <3>1, <3>3 DEF Places, Site, Comment
  <2> QED
    BY <1>1, <2>1, <2>2, <2>3, <2>4
<1>7. p \in Places'
  BY <1>1, <1>2, <1>4 DEF Places
<1>8. ASSUME NEW r \in Places', r # p
      PROVE  \E q \in Places : r = Below(p, q)
  <2>1. PICK f \in Files : r \in {f} \X DOMAIN code'[f]
    BY DEF Places
  <2>2. r = <<f, r[2]>> /\ r[1] = f /\ r[2] \in DOMAIN code'[f]
    BY <2>1
  <2>3. CASE f # p[1]
    <3>1. r \in Places /\ Below(p, r) = r
      BY <1>4, <2>1, <2>2, <2>3 DEF Places, Below
    <3> QED
      BY <3>1
  <2>4. CASE f = p[1] /\ r[2] < p[2]
    <3>1. r[2] \in 1 .. Len(L)
      BY <1>1, <1>2, <1>4, <2>2, <2>4
    <3>2. r \in Places /\ Below(p, r) = r
      BY <1>1, <2>2, <2>4, <3>1, PairIsPlace DEF Below
    <3> QED
      BY <3>2
  <2>5. CASE f = p[1] /\ r[2] > p[2]
    <3>1. r[2] - 1 \in 1 .. Len(L) /\ r[2] - 1 >= p[2] /\ r[2] - 1 + 1 = r[2]
      BY <1>1, <1>2, <1>4, <2>2, <2>5
    <3>2. <<f, r[2] - 1>> \in Places
      BY <2>5, <3>1, PairIsPlace
    <3>3. Below(p, <<f, r[2] - 1>>) = r
      BY <2>2, <2>5, <3>1 DEF Below
    <3> QED
      BY <3>2, <3>3
  <2>6. r[2] \in Int /\ (f = p[1] => r[2] # p[2])
    BY <1>1, <1>2, <1>4, <1>8, <2>2, FilesAreLines
  <2> QED
    BY <1>1, <2>3, <2>4, <2>5, <2>6
<1> QED
  BY <1>5, <1>6, <1>7, <1>8

(* The new reason excuses what it was put above; what was excused still is. *)
LEMMA AboveExcuses ==
  ASSUME TypeOK, NEW p \in Places, AnswerAbove(p), NEW q \in Places
  PROVE  Excused(Below(p, q))' <=> q = p \/ Excused(q)
<1>1. /\ p[2] \in Int /\ p = <<p[1], p[2]>> /\ q[2] \in Int /\ q = <<q[1], q[2]>>
  BY PlaceIsPair
<1>2. ASSUME NEW r \in Places
      PROVE  Below(p, r)[1] = r[1] /\ Below(p, r)[2] \in Int /\ r[2] \in Int
               /\ Below(p, r)[2] = IF r[1] = p[1] /\ r[2] >= p[2] THEN r[2] + 1 ELSE r[2]
  BY PlaceIsPair DEF Below
<1>3. Excused(Below(p, q))' <=>
        \E r \in Places' : /\ r[1] = q[1] /\ Below(p, q)[2] - r[2] \in {0, 1}
                           /\ Comment(r)' = "reason"
  BY <1>2 DEF Excused
<1>4. (\E r \in Places' : /\ r[1] = q[1] /\ Below(p, q)[2] - r[2] \in {0, 1}
                          /\ Comment(r)' = "reason")
        <=> \/ p[1] = q[1] /\ Below(p, q)[2] - p[2] \in {0, 1}
            \/ \E r \in Places : /\ r[1] = q[1] /\ Below(p, q)[2] - Below(p, r)[2] \in {0, 1}
                                 /\ Comment(r) = "reason"
  <2> DEFINE B(r) == Below(p, r)
             C(r) == Comment(r)'
  <2>1. /\ Places' = {B(r) : r \in Places} \union {p} /\ C(p) = "reason"
        /\ \A r \in Places : C(B(r)) = Comment(r) /\ B(r)[1] = r[1]
    BY <1>2, AboveMoves
  <2> HIDE DEF B, C
  <2>2. (\E r \in Places' : /\ r[1] = q[1] /\ B(q)[2] - r[2] \in {0, 1} /\ C(r) = "reason")
        <=> \/ p[1] = q[1] /\ B(q)[2] - p[2] \in {0, 1}
            \/ \E r \in Places : /\ r[1] = q[1] /\ B(q)[2] - B(r)[2] \in {0, 1}
                                 /\ Comment(r) = "reason"
    BY <2>1
  <2> QED
    BY <2>2 DEF B, C
<1>5. p[1] = q[1] /\ Below(p, q)[2] - p[2] \in {0, 1} <=> q = p
  BY <1>1, <1>2
(* Lines stay neighbours, but for the one answered and the one above it.    *)
<1>6. ASSUME q # p, NEW r \in Places, r[1] = q[1]
      PROVE  Below(p, q)[2] - Below(p, r)[2] \in {0, 1} <=> q[2] - r[2] \in {0, 1}
  BY <1>1, <1>2, <1>6
<1>7. Excused(q) <=> \E r \in Places : /\ r[1] = q[1] /\ q[2] - r[2] \in {0, 1}
                                      /\ Comment(r) = "reason"
  BY DEF Excused
<1>8. CASE q = p
  BY <1>3, <1>4, <1>5, <1>8
<1>9. CASE q # p
  BY <1>3, <1>4, <1>5, <1>6, <1>7, <1>9
<1> QED
  BY <1>8, <1>9

(* One directive above a diagnostic answers it, and nothing else changes.   *)
THEOREM OneReasonAlwaysAnswersOne == Spec => OneReasonAnswersOne
<1> DEFINE Exact == TypeOK => run.diags = {p \in Places : ~Excused(p) /\ Offends(p)}
<1>1. TypeOK /\ TypeOK' /\ Exact /\ Exact'
        => [\A p \in Places :
              AnswerAbove(p) => run.diags' = {Below(p, q) : q \in run.diags \ {p}}]_vars
  <2> SUFFICES ASSUME TypeOK, TypeOK', Exact, Exact',
                      NEW p \in Places, AnswerAbove(p)
               PROVE  run.diags' = {Below(p, q) : q \in run.diags \ {p}}
    OBVIOUS
  <2>1. imports' = imports /\ detpath' = detpath
    BY DEF AnswerAbove, InsertLine, Edit
  <2>2. ~Offends(p)'
    <3>1. Site(p)' = Nothing
      BY AboveMoves
    <3>2. ~(NamesBanned(Site(p)))' /\ ~(RangesOverMap(Site(p)))'
      BY <3>1 DEF NamesBanned, RangesOverMap, Nothing
    <3> QED
      BY <3>2 DEF Offends
  <2>3. ASSUME NEW q \in Places
        PROVE  Offends(Below(p, q))' <=> Offends(q)
    BY <2>1, AboveMoves DEF Offends, ImportsHash
  <2>4. p \in run.diags /\ run.diags = {q \in Places : ~Excused(q) /\ Offends(q)}
    BY DEF AnswerAbove
  <2>5. run.diags' = {q \in Places' : ~Excused(q)' /\ Offends(q)'}
    OBVIOUS
  <2> DEFINE E(q) == Excused(q)'
             O(q) == Offends(q)'
             B(q) == Below(p, q)
  <2>6. /\ Places' = {B(q) : q \in Places} \union {p} /\ ~O(p)
        /\ \A q \in Places : (O(B(q)) <=> Offends(q)) /\ (E(B(q)) <=> q = p \/ Excused(q))
        /\ run.diags' = {q \in Places' : ~E(q) /\ O(q)}
    BY <2>2, <2>3, <2>5, AboveMoves, AboveExcuses
  <2> HIDE DEF E, O, B, Exact
  <2>7. run.diags' = {B(q) : q \in run.diags \ {p}}
    BY <2>4, <2>6
  <2> QED
    BY <2>7 DEF B
<1>2. Spec => []TypeOK /\ []Exact
  BY AlwaysTyped, Reported, PTL
<1> QED
  BY <1>1, <1>2, PTL DEF OneReasonAnswersOne
=============================================================================
