---------------------------- MODULE MCPluginList ----------------------------
(* Instances of PluginList for TLC. *)
EXTENDS PluginList

CONSTANTS game1, game2, first, second, absent, Late

\* Two active plugins; that of the other game lacks a master.
Plain(name) ==
  [name |-> name, extension |-> "esp", masters |-> {}, tags |-> {}, details |-> {},
   light |-> FALSE, medium |-> FALSE, update |-> FALSE, blueprint |-> FALSE,
   master |-> FALSE, empty |-> FALSE, ships |-> FALSE, version |-> None,
   validLight |-> TRUE, validMedium |-> TRUE, validUpdate |-> TRUE]
Dirty == [NoMetadata EXCEPT !.dirty = {first}]
After == [NoMetadata EXCEPT !.after = {first}]
InLate == [NoMetadata EXCEPT !.group = Late, !.tags = {[name |-> "Delev", adds |-> TRUE]}]

Both(order, metadata, count, messages) ==
  [id |-> "tes5", active |-> {first, second}, files |-> {first, second},
   plugins |-> [n \in {first, second} |-> Plain(n)],
   masterlist |-> [n \in {first, second} |-> IF n = first THEN Dirty ELSE NoMetadata],
   user |-> [n \in {first, second} |-> IF n = second THEN metadata ELSE NoMetadata],
   userLoadAfter |-> IF metadata.after # {} THEN {second} ELSE {},
   bashTags |-> [n \in {first, second} |-> {[name |-> "Delev", adds |-> FALSE]}],
   groups |-> {Default, Late}, loadOrder |-> order, creationClub |-> {},
   supportsLight |-> FALSE, minimumVersion |-> 0, mwse |-> FALSE, warn |-> FALSE,
   generalMetadata |-> messages, messages |-> {}, sortCount |-> count]
Other ==
  [Both(<<first>>, NoMetadata, 1, {}) EXCEPT !.id = "tes3", !.active = {first},
     !.files = {first},
     !.plugins = [n \in {first} |-> [Plain(n) EXCEPT !.masters = {absent}]],
     !.groups = {Default}]

TwoInstalls ==
  [x \in Games |-> IF x = game1
     THEN {Both(<<first, second>>, After, 0, {}),
           Both(<<second, first>>, InLate, 1, {Note("messageMetadata", game1)})}
     ELSE {Other}]
NoOfficial == [x \in Games |-> {}]
Nothing == [names |-> {}, details |-> {}, messages |-> {}]
Delev == [names |-> {}, details |-> {"bashTags"}, messages |-> {OverriddenTags({"Delev"})}]
Matching ==
  [t \in {"", "Delev|^$", "("} |-> IF t = "Delev|^$" THEN Delev ELSE Nothing]
LastSession == {{}, WarningBoxes}
TypedTexts == DOMAIN Matching
=============================================================================
