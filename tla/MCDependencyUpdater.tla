------------------------- MODULE MCDependencyUpdater -------------------------
(* Specifiers of each kind, for three versions.                             *)
EXTENDS DependencyUpdater

Specifier(lower, below, others) == [lower |-> lower, below |-> below, others |-> others]

MCSpecifiers == {
    Specifier(None, 4, Versions),   \* none
    Specifier(2, 4, Versions),      \* >=2
    Specifier(1, 3, Versions),      \* >=1,<3
    Specifier(None, 2, Versions),   \* <2
    Specifier(None, 4, {1}),        \* ==1
    Specifier(None, 4, {2}),        \* ==2
    Specifier(None, 4, {1, 2}),     \* ~=1, where 3 is the next series
    Specifier(1, 4, {1, 3})}        \* >=1,!=2
=============================================================================
