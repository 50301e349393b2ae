---------------------------- MODULE MC_PageParts ----------------------------
(* The chat page with two chats, and each feed of counts. *)
EXTENDS PageParts

CONSTANTS A, B
TwoChats == {A, B}
\* Ticks overlap on the connection that lasts.
OneAndTwo == <<1, 2>>
ActsOf == [feed \in Feeds |-> IF feed = "badges" THEN 3 ELSE 1]
EarlierOf == [feed \in Feeds |-> IF feed = "bell" THEN 2 ELSE 1]
=============================================================================
