----------------------------- MODULE MCExplorer -----------------------------
(* Instances of Explorer.                                                  *)
EXTENDS ExplorerProps

CONSTANTS a, v

OneApp == {a}
InBrowser == {"browse"}
AnyStart == {"browse", "menu"}
NoOther == {}
OneVar == {v}
OnlyOne == {1}
TwoValues == {0, 1}
AllZero == [x \in Vars |-> 0]
Zeros == {AllZero}
=============================================================================
