----------------------------- MODULE MCDeterminism -----------------------------
(***************************************************************************)
(* Small packages for Determinism: two files, and the lines that the       *)
(* analyzer's test data holds.                                             *)
(***************************************************************************)
EXTENDS Determinism

Encode  == [pkg |-> "app", name |-> "Encode"]
Marshal == [pkg |-> "proto", name |-> "Marshal"]
Sprint  == [pkg |-> "fmt", name |-> "Sprint"]

MCBanned   == {Marshal}
MCHashPkgs == {"crypto/sha256"}
MCPackages == {"crypto/sha256"}

Func(fn) == [is |-> "func", pkg |-> fn.pkg, name |-> fn.name]
Method(fn) == [is |-> "interface", pkg |-> fn.pkg, name |-> fn.name]
Var      == [is |-> "var", pkg |-> "", name |-> "m"]

Call(fun, uses, runs) == [is |-> "call", fun |-> fun, uses |-> uses, runs |-> runs]
RangeOver(k, over)    == [is |-> "range", key |-> k, over |-> over]

With(site, comment) == [site |-> site, comment |-> comment]

(* Selectors and dot-imports, another function, an interface that holds a  *)
(* proto.MarshalOptions under a name of its own, an interface that package *)
(* proto might declare, maps with and without a name, ranges that observe  *)
(* no order, directives above and inline, bare.                            *)
MCLines ==
  {With(Call("selector", Func(Marshal), Marshal), c) : c \in Comments}
    \union {With(Call("ident", Func(Marshal), Marshal), "none"),
            With(Call("selector", Func(Sprint), Sprint), "none"),
            With(Call("selector", Method(Encode), Marshal), "none"),
            With(Call("selector", Method(Marshal), Sprint), "none"),
            With(RangeOver(TRUE, "named map"), "none"), With(RangeOver(TRUE, "map"), "reason"),
            With(RangeOver(FALSE, "map"), "none"), With(RangeOver(TRUE, "type parameter"), "none"),
            Excuse, With(Nothing, "bare")}

(* A method value: m := proto.MarshalOptions{}.Marshal; m(x). *)
ValueLines == {With(Call("ident", Var, Marshal), "none"), With(Nothing, "none")}

StaleLines == {With(Call("selector", Func(Marshal), Marshal), c) : c \in {"none", "reason"}}

MCCompiles(d)    == d # "("
MCMatchesPath(d) == d = "."
=============================================================================
