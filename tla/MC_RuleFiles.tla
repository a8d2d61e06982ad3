---------------------------- MODULE MC_RuleFiles ----------------------------
(***************************************************************************)
(* Small instances of RuleFiles for TLC: two rule files; x and y stand for   *)
(* rules that an admin writes, ex for the exclusion that the tuner proposes. *)
(***************************************************************************)
EXTENDS RuleFiles, TLC

CONSTANTS A, B, p, q, x, y, ex, t1, t2

MCFiles == 1..2
OneProcEach == (p :> A @@ q :> B)
OneProc == (p :> A)
BothOnA == (p :> A @@ q :> A)

\* A rule ID may be used once: no line may be in both files.
NoDuplicates == {d \in [MCFiles -> SUBSET {x, y, ex}] : d[1] \cap d[2] = {}}

\* The first file has a rule, the second is empty.
OnlyX == [f \in MCFiles |-> IF f = 1 THEN {x} ELSE {}]
FilesOnA == (A :> OnlyX)
FilesOnBoth == (A :> OnlyX @@ B :> OnlyX)
NoRows == [f \in MCFiles |-> Absent]
\* Both rows hold a rule more than the files do.
NewRows == [f \in MCFiles |-> IF f = 1 THEN {x, ex} ELSE {y}]
SameRows == OnlyX

ReplaceByY == {{y}}
ReplaceByEx == {{ex}}
AnyIfMatch == {AnyTag}
AnyOrX == {AnyTag, {x}}
Exclusion == {[file |-> 1, line |-> ex]}
None == {}
===============================================================================
