--------------------------- MODULE MCApplication ---------------------------
(* Instances of Application for TLC. *)
EXTENDS Application, TLC

TwoGames == <<"tes5se", "enderalse">>
TwoRoots == <<"r1", "r2">>
English == <<"en">>
Names == <<"custom", "enderalse", "tes5se">>

Claim(l, g, r, s) == [launcher |-> l, id |-> g, root |-> r, path |-> <<r>>, source |-> s]
World(w, cs) ==
  [windows |-> w,
   dirs |-> [p \in {c.path : c \in cs} |-> LET c == CHOOSE d \in cs : d.path = p
                                           IN [id |-> c.id, source |-> c.source]],
   claims |-> {[launcher |-> c.launcher, id |-> c.id, root |-> c.root] : c \in cs}]

SteamSkyrim == Claim("steam", "tes5se", "r1", "steam")
GogSkyrim == Claim("gog registry", "tes5se", "r2", "gog")
Enderal == Claim("registry", "enderalse", "r2", "unknown")
HeroicSkyrim == Claim("heroic", "tes5se", "r2", "gog")

FewWorlds == {World(TRUE, {SteamSkyrim, Enderal}), World(FALSE, {SteamSkyrim})}
LaterClaims == {GogSkyrim}

OldEntry == [type |-> "tes5se", folder |-> Named("tes5se"), name |-> Name("custom", "", 0),
             looksConverted |-> FALSE, path |-> NoPath, local |-> <<"mine">>, source |-> "none",
             repo |-> "official", hidden |-> {}, valid |-> TRUE]
BadEntry ==
  [type |-> "enderalse", folder |-> Named("enderalse"), valid |-> FALSE, unknown |-> FALSE]
OldFile == [Defaults EXCEPT !.games = <<OldEntry, BadEntry>>]

FirstFiles == {NoFile, OldFile}
Plain == [game |-> NoGame, path |-> NoPath, autoSort |-> FALSE]
Args == {Plain, [game |-> Named("tes5se"), path |-> <<"r2">>, autoSort |-> FALSE]}
=============================================================================
