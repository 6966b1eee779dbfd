------------------------------ MODULE MCGroups ------------------------------
(* Instances of GroupRecovery for TLC. *)
EXTENDS GroupRecovery, TLC

CONSTANTS a, b, c, d, u, p

AddSuffix(n) == <<n, "Recovered">>

\* All that updates can do to groups that never load in another order; updates
\* of two, of which one may load after itself and at most one is removed; a
\* chain of four groups and one update to it.
Earlier == (a :> {b, c}) @@ (b :> {c}) @@ (c :> {})
ThreeGroups ==
  UNION {{g \in [S -> SUBSET S] : \A n \in S : g[n] \subseteq Earlier[n]} :
           S \in SUBSET {a, b, c}}
TwoGroups ==
  {(a :> {b}) @@ (b :> {}), (a :> {a, b}) @@ (b :> {}), a :> {}, b :> {}}
Chain == {(a :> {b}) @@ (b :> {c}) @@ (c :> {d}) @@ (d :> {}), a :> {}}
=============================================================================
