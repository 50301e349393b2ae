---------------------------- MODULE ContentParts ----------------------------
(***************************************************************************)
(* The content the server keeps: the items of a world, its quests, and the *)
(* messages of a chat.  Their requests share the server and the database   *)
(* and no rows, so a behaviour follows those of one part.                  *)
(***************************************************************************)
EXTENDS WorldItems, Quests, Messages

VARIABLE part       \* the part a behaviour follows

contentVars == <<itemVars, questVars, vars, part>>

ContentInit ==
    /\ ItemsInit /\ QuestsInit /\ Init
    /\ part \in {"items", "quests", "messages"}

ContentNext ==
    /\ UNCHANGED part
    /\ \/ part = "items" /\ ItemsNext /\ UNCHANGED <<questVars, vars>>
       \/ part = "quests" /\ QuestsNext /\ UNCHANGED <<itemVars, vars>>
       \/ part = "messages" /\ Next /\ UNCHANGED <<itemVars, questVars>>

ContentSpec == ContentInit /\ [][ContentNext]_contentVars
=============================================================================
