----------------------------- MODULE WorldItems -----------------------------
(***************************************************************************)
(* The instances of an item in a world (src/story/items.ts and             *)
(* src/routes/story-items.ts): placing, moving and destroying them, and    *)
(* deleting the item's definition.                                         *)
(*                                                                         *)
(* A request is a handler of the server, a step one statement on the       *)
(* database.  Only a move spans several: the route gives it no             *)
(* transaction, so other requests run between its statements, and a        *)
(* statement that is refused leaves the ones before it done.  Rows of      *)
(* different items never meet, so one item is modelled.  Foreign keys are  *)
(* enforced (src/db/index.ts:52).                                          *)
(***************************************************************************)
EXTENDS Integers, Sequences, Functions

CONSTANTS
    Places,         \* locations that exist; an actor as a place is no different
    Elsewhere,      \* a location or actor that does not exist
    Nowhere,        \* no destination given
    Quantities,     \* quantities asked for, which no route checks
    MaxItemRequests \* bound: requests

ASSUME ItemsAssumption ==
    /\ Elsewhere \notin Places /\ Nowhere \notin Places \cup {Elsewhere}
    /\ Quantities \subseteq Int /\ MaxItemRequests \in Nat

VARIABLES
    defined,        \* the item's row in "items" exists
    rows,           \* rows of "world_items" in the order of their insertion;
                    \* a deleted one stays as Deleted
    itemRequests,   \* the requests that span several statements
    placed,         \* history: items placed
    removed,        \* history: items destroyed, or moved to nowhere
    lost,           \* history: items that were taken and never arrived,
                    \* because a statement was refused or the process stopped
    crossed         \* history: a row was written between another request's
                    \* read of it and the write that follows from that read

itemVars == <<defined, rows, itemRequests, placed, removed, lost, crossed>>

\* The mark of a deleted row; no row can lie in a place that does not exist.
Deleted == [place |-> Elsewhere, quantity |-> 0]
Row == {Deleted} \cup [place : Places \cup {Nowhere}, quantity : Int]

Done == [step |-> "done"]
Request ==
    {Done}
    \cup [step : {"take"}, row : Nat, had : Int, asked : Quantities,
          to : Places \cup {Elsewhere, Nowhere}]
    \cup [step : {"find"}, amount : Int, to : Places \cup {Elsewhere}]
    \cup [step : {"add"}, amount : Int, to : Places \cup {Elsewhere}, row : Nat, had : Int]
    \cup [step : {"definition"}]

ItemsTypeOK ==
    /\ defined \in BOOLEAN
    /\ rows \in Seq(Row)
    /\ itemRequests \in Seq(Request)
    /\ placed \in Int /\ removed \in Int /\ lost \in Int
    /\ crossed \in BOOLEAN

ItemsInit ==
    /\ defined = TRUE
    /\ rows = <<>>
    /\ itemRequests = <<>>
    /\ placed = 0 /\ removed = 0 /\ lost = 0
    /\ crossed = FALSE

-----------------------------------------------------------------------------
Exists(i) == rows[i] # Deleted

\* The requests, other than r, whose next write follows from a read of row i.
Relying(i, r) ==
    {q \in DOMAIN itemRequests \ {r} :
        itemRequests[q].step \in {"take", "add"} /\ itemRequests[q].row = i}

Admit(request) ==
    /\ Len(itemRequests) < MaxItemRequests
    /\ itemRequests' = Append(itemRequests, request)

Continue(r, request) == itemRequests' = [itemRequests EXCEPT ![r] = request]

\* POST /item-instances: one insert.
PlaceInLocation(place, quantity) ==
    /\ defined
    /\ Admit(Done)
    /\ rows' = Append(rows, [place |-> place, quantity |-> quantity])
    /\ placed' = placed + quantity
    /\ UNCHANGED <<defined, removed, lost, crossed>>

\* DELETE /item-instances/:id: one delete, of the whole row.
Destroy(i) ==
    /\ Exists(i)
    /\ Admit(Done)
    /\ rows' = [rows EXCEPT ![i] = Deleted]
    /\ removed' = removed + rows[i].quantity
    /\ crossed' = (crossed \/ Relying(i, 0) # {})
    /\ UNCHANGED <<defined, placed, lost>>

-----------------------------------------------------------------------------
(* transfer                                                                *)

\* The source is read.
BeginTransfer(i, quantity, to) ==
    /\ Exists(i)
    /\ Admit([step |-> "take", row |-> i, had |-> rows[i].quantity, asked |-> quantity, to |-> to])
    /\ UNCHANGED <<defined, rows, placed, removed, lost, crossed>>

Least(m, n) == IF m <= n THEN m ELSE n

\* The moved row keeps its quantity, which is then added once more.
QuantityOfMoved_Kept(had) == had

QuantityOfMoved(had) == 0

\* What the source row becomes: moved as a whole and emptied, or reduced.
\* Statements that find no row with the id do nothing.
Taken(c) ==
    LET remaining == c.had - Least(c.asked, c.had) IN
    IF ~Exists(c.row) THEN rows[c.row]
    ELSE IF remaining <= 0 THEN [place |-> c.to, quantity |-> QuantityOfMoved(c.had)]
    ELSE [rows[c.row] EXCEPT !.quantity = remaining]

\* The source is written.  Moving the whole row to a place that does not exist
\* is refused; without a destination the items are gone.
Take(r) ==
    LET c == itemRequests[r]
        amount == Least(c.asked, c.had)
    IN
    /\ c.step = "take"
    /\ IF c.to = Elsewhere /\ amount = c.had /\ Exists(c.row)
       THEN Continue(r, Done) /\ UNCHANGED <<rows, removed, crossed>>
       ELSE /\ rows' = [rows EXCEPT ![c.row] = Taken(c)]
            /\ crossed' = (crossed \/ Relying(c.row, r) # {})
            /\ IF c.to = Nowhere
               THEN Continue(r, Done) /\ removed' = removed + amount
               ELSE /\ Continue(r, [step |-> "find", amount |-> amount, to |-> c.to])
                    /\ UNCHANGED removed
    /\ UNCHANGED <<defined, placed, lost>>

\* The first row of the item at the destination, in no order the query asks
\* for; it may be the row just moved there.
Find(r) ==
    LET c == itemRequests[r]
        there == {i \in DOMAIN rows : Exists(i) /\ rows[i].place = c.to}
    IN
    /\ c.step = "find"
    /\ \E i \in IF there = {} THEN {0} ELSE there :
           Continue(r, [step |-> "add", amount |-> c.amount, to |-> c.to, row |-> i,
                        had |-> IF i = 0 THEN 0 ELSE rows[i].quantity])
    /\ UNCHANGED <<defined, rows, placed, removed, lost, crossed>>

\* The destination is written: the row found, or a new one, which a missing
\* definition or place refuses.
Add(r) ==
    LET c == itemRequests[r] IN
    /\ c.step = "add"
    /\ Continue(r, Done)
    /\ \/ /\ c.row # 0
          /\ rows' = IF Exists(c.row)
                     THEN [rows EXCEPT ![c.row].quantity = c.had + c.amount] ELSE rows
          /\ crossed' = (crossed \/ Relying(c.row, r) # {})
          /\ UNCHANGED lost
       \/ /\ c.row = 0 /\ defined /\ c.to \in Places
          /\ rows' = Append(rows, [place |-> c.to, quantity |-> c.amount])
          /\ UNCHANGED <<crossed, lost>>
       \/ /\ c.row = 0 /\ ~(defined /\ c.to \in Places)
          /\ lost' = lost + c.amount
          /\ UNCHANGED <<rows, crossed>>
    /\ UNCHANGED <<defined, placed, removed>>

\* The process stops, or the database refuses the next statement of a move.
Break(r) ==
    LET c == itemRequests[r] IN
    /\ c.step \in {"find", "add"}
    /\ Continue(r, Done)
    /\ lost' = lost + c.amount
    /\ UNCHANGED <<defined, rows, placed, removed, crossed>>

-----------------------------------------------------------------------------
(* DELETE /items/:itemId                                                   *)

Quantity(s) == SumFunction([i \in DOMAIN s |-> s[i].quantity])

\* All instances are deleted.
DeleteInstances ==
    /\ defined
    /\ Admit([step |-> "definition"])
    /\ rows' = [i \in DOMAIN rows |-> Deleted]
    /\ removed' = removed + Quantity(rows)
    /\ crossed' = (crossed \/ \E i \in DOMAIN rows : Exists(i) /\ Relying(i, 0) # {})
    /\ UNCHANGED <<defined, placed, lost>>

\* The definition is deleted, unless an instance was placed meanwhile.
DeleteDefinition(r) ==
    /\ itemRequests[r].step = "definition"
    /\ Continue(r, Done)
    /\ defined' = (defined /\ \E i \in DOMAIN rows : Exists(i))
    /\ UNCHANGED <<rows, placed, removed, lost, crossed>>

ItemsNext ==
    \/ \E p \in Places, n \in Quantities : PlaceInLocation(p, n)
    \/ \E i \in DOMAIN rows :
           \/ Destroy(i)
           \/ \E n \in Quantities, to \in Places \cup {Elsewhere, Nowhere} : BeginTransfer(i, n, to)
    \/ DeleteInstances
    \/ \E r \in DOMAIN itemRequests :
           Take(r) \/ Find(r) \/ Add(r) \/ Break(r) \/ DeleteDefinition(r)

ItemsSpec == ItemsInit /\ [][ItemsNext]_itemVars

-----------------------------------------------------------------------------
(* Properties.                                                             *)

Moving == {r \in DOMAIN itemRequests : itemRequests[r].step \in {"find", "add"}}

InTransit == SumFunction([r \in Moving |-> itemRequests[r].amount])

\* As long as no request writes a row that another one has read and is about to
\* write, items are neither made nor destroyed by moving them: every item placed
\* is in a row, on its way, removed, or was dropped by a move that broke off.
ItemsConserved ==
    ~crossed => Quantity(rows) + InTransit + removed + lost = placed
=============================================================================
