----------------------------- MODULE MCEditors -----------------------------
(* Instances of Editors for TLC. *)
EXTENDS Editors, TLC

CONSTANTS first, second

M == <<"M">>
X == <<"x">>
Y == <<"y">>

\* The masterlist's group refers to x, which it does not define.
Referring == (Default :> {}) @@ (M :> {Default, X})
Typed == {X, Y}
AllPlugins == {first, second}
NoRows == <<>>
OneRow == <<"masterlist row">>
ByMasterlist == (first :> M) @@ (second :> NoGroup)

Userlist(gs, gp, gq) ==
  [groups |-> {[name |-> Default, after |-> {}]} \cup gs,
   plugins |-> (first :> [group |-> gp, rows |-> NoRows])
                 @@ (second :> [group |-> gq, rows |-> NoRows])]
FirstUserlists ==
  {Userlist({}, NoGroup, NoGroup), Userlist({[name |-> Y, after |-> {}]}, Y, Y)}
=============================================================================
