---------------------------- MODULE ChatKeysProofs ----------------------------
(* Theorems about ChatKeys and their proofs.                               *)
EXTENDS ChatKeys, FiniteSetTheorems, TLAPS

Rows == [chat : Chats, author : Pages \cup {NoActor}, seal : Sealed]
KeySets == SUBSET (Nat \ {0})

\* What a request has at each place: only a login is for no chat, only a page
\* posts or asks for a key, and a request that is done has a key to use.
Shaped(r) ==
    /\ r \in Task
    /\ r.op # "login" => r.chat \in Chats /\ r.actor \in Pages
    /\ r.op = "login" => r.at \in {"look", "make"}
    /\ r.op # "post" => r.body = NoKey
    /\ r.at \in {"look", "make"} => r.op \in {"login", "post"}
    /\ r.at = "done" => r.body # NoKey \/ r.keys # {}
    /\ r.at # "done" => r.body = NoKey

RequestsShaped == \A t \in Tasks : task[t] = Idle \/ Shaped(task[t])

\* What a page encrypts is for the chat it shows.
PagesShaped == \A u \in Pages : sending[u] # NoKey => active[u] # NoChat

Inv == TypeOK /\ RequestsShaped /\ PagesShaped

LEMMA SealedFacts ==
    /\ NoKey \in Sealed
    /\ \A c \in Chats, K \in KeySets \ {{}} :
          /\ DeriveChatKey(c, K) \in Sealed
          /\ DeriveChatKey(c, K) # NoKey
          /\ DeriveChatKey(c, K).chat = c
<1>1. NoKey \in Sealed
  BY DEF Sealed
<1>2. ASSUME NEW c \in Chats, NEW K \in KeySets \ {{}}
      PROVE  /\ DeriveChatKey(c, K) \in ChatKey
             /\ DeriveChatKey(c, K).chat = c
  BY DEF KeySets, DeriveChatKey, ChatKey
<1> QED
  BY <1>1, <1>2, ActorsAssumption DEF Sealed

LEMMA KeysAreRows ==
    ASSUME owner \in Seq(Users), NEW S
    PROVE  KeysOf(S) \in KeySets
<1>1. DOMAIN owner \subseteq Nat \ {0}
  OBVIOUS
<1> QED
  BY <1>1 DEF KeysOf, KeySets

LEMMA IdleFields == Idle.op = "idle" /\ Idle.at = "idle"
BY DEF Idle

\* A request at work has its shape.
LEMMA Busy ==
    ASSUME Inv, NEW t \in Tasks, NEW ops, "idle" \notin ops, NEW at, At(t, ops, at)
    PROVE  task[t] # Idle /\ Shaped(task[t]) /\ task[t].op \in ops /\ task[t].at = at
BY IdleFields DEF At, Inv, RequestsShaped

LEMMA SetKeepsShape ==
    ASSUME Inv, NEW t \in Tasks, NEW r, r = Idle \/ Shaped(r), Set(t, r)
    PROVE  task' \in [Tasks -> Task \cup {Idle}] /\ RequestsShaped'
<1>1. task \in [Tasks -> Task \cup {Idle}] /\ (r \in Task \cup {Idle})
  BY DEF Inv, TypeOK, Shaped
<1>2. \A s \in Tasks : task'[s] = IF s = t THEN r ELSE task[s]
  BY <1>1 DEF Set
<1>3. RequestsShaped'
  BY <1>2 DEF RequestsShaped, Inv, Shaped
<1> QED
  BY <1>1, <1>3 DEF Set

LEMMA EnsuredShape ==
    ASSUME NEW r, Shaped(r), r.op \in {"login", "post"}, r.at \in {"look", "make"}
    PROVE  Ensured(r) = Idle \/ Shaped(Ensured(r))
<1>1. CASE r.op = "login"
  BY <1>1 DEF Ensured
<1>2. CASE r.op = "post"
  BY <1>2 DEF Ensured, Shaped, Task
<1> QED
  BY <1>1, <1>2

-----------------------------------------------------------------------------
(* Type correctness.                                                       *)

LEMMA InvInit == Init => Inv
BY ActorsAssumption DEF Init, Inv, TypeOK, RequestsShaped, PagesShaped, Sealed, Actors

\* A step that changes one request only.
LEMMA RequestStep ==
    ASSUME Inv, NEW t \in Tasks, NEW r, r = Idle \/ Shaped(r), Set(t, r),
           UNCHANGED <<members, owner, rows, page, changes>>
    PROVE  Inv'
BY SetKeepsShape DEF Inv, TypeOK, PagesShaped, page

LEMMA LoginInv == ASSUME Inv, NEW t \in Tasks, NEW u \in Users, Login(t, u) PROVE Inv'
<1> DEFINE r == [Idle EXCEPT !.op = "login", !.at = "look", !.actor = u]
<1>1. Shaped(r)
  BY SealedFacts DEF Shaped, Idle, Task
<1> QED
  BY <1>1, RequestStep DEF Login

LEMMA EnsureActorKeyInv == ASSUME Inv, NEW t \in Tasks, EnsureActorKey(t) PROVE Inv'
<1> DEFINE r == [task[t] EXCEPT !.at = "make"]
<1>1. Shaped(task[t]) /\ task[t].op \in {"login", "post"} /\ task[t].at = "look"
  BY Busy DEF EnsureActorKey
<1>2. Shaped(r)
  BY <1>1 DEF Shaped, Task
<1>3. Ensured(task[t]) = Idle \/ Shaped(Ensured(task[t]))
  BY <1>1, EnsuredShape
<1> QED
  BY <1>2, <1>3, RequestStep DEF EnsureActorKey

LEMMA GenerateActorKeyInv == ASSUME Inv, NEW t \in Tasks, GenerateActorKey(t) PROVE Inv'
<1>1. Shaped(task[t]) /\ task[t].op \in {"login", "post"} /\ task[t].at = "make"
  BY Busy DEF GenerateActorKey
<1>2. Ensured(task[t]) = Idle \/ Shaped(Ensured(task[t]))
  BY <1>1, EnsuredShape
<1>3. owner' \in Seq(Users)
  BY <1>1 DEF GenerateActorKey, Inv, TypeOK, Shaped, Task
<1> QED
  BY <1>2, <1>3, SetKeepsShape DEF GenerateActorKey, Inv, TypeOK, PagesShaped, page

LEMMA GetParticipantsInv == ASSUME Inv, NEW t \in Tasks, GetParticipants(t) PROVE Inv'
<1> DEFINE r == [task[t] EXCEPT !.at = "keys", !.who = members[task[t].chat]]
<1>1. /\ Shaped(task[t]) /\ task[t].op \in {"post", "reply", "fetch"}
      /\ task[t].at = "members"
  BY Busy DEF GetParticipants
<1>2. members[task[t].chat] \in SUBSET Actors
  BY <1>1 DEF Inv, TypeOK, Shaped
<1>3. Shaped(r)
  BY <1>1, <1>2 DEF Shaped, Task
<1> QED
  BY <1>3, RequestStep DEF GetParticipants

LEMMA LoadActorKeysInv == ASSUME Inv, NEW t \in Tasks, LoadActorKeys(t) PROVE Inv'
<1> DEFINE r == [task[t] EXCEPT !.at = "done", !.who = {}, !.keys = KeysOf(task[t].who)]
<1>1. /\ Shaped(task[t]) /\ task[t].op \in {"post", "reply", "fetch"}
      /\ task[t].at = "keys"
  BY Busy DEF LoadActorKeys
<1>2. KeysOf(task[t].who) \in KeySets \ {{}}
  BY KeysAreRows DEF Inv, TypeOK, LoadActorKeys
<1>3. Shaped(r)
  BY <1>1, <1>2 DEF Shaped, Task, KeySets
<1> QED
  BY <1>3, RequestStep DEF LoadActorKeys

LEMMA NoKeysInv == ASSUME Inv, NEW t \in Tasks, NoKeys(t) PROVE Inv'
<1>1. key' \in [Pages -> Sealed] /\ generating' \in [Pages -> BOOLEAN]
  BY SealedFacts DEF NoKeys, Inv, TypeOK
<1> QED
  BY <1>1, SetKeepsShape DEF NoKeys, Inv, TypeOK, PagesShaped

\* What is stored is a key of the chat or what the browser sent.
LEMMA SealFacts ==
    ASSUME NEW r, Shaped(r), r.at = "done", r.op # "login"
    PROVE  /\ SealOf(r) \in Sealed \ {NoKey}
           /\ r.body = NoKey => SealOf(r).chat = r.chat
<1>1. r.chat \in Chats /\ r.body \in Sealed /\ r.keys \in KeySets
  BY DEF Shaped, Task, KeySets
<1>2. CASE r.body # NoKey
  BY <1>1, <1>2 DEF SealOf
<1>3. CASE r.body = NoKey
  BY <1>1, <1>3, SealedFacts DEF SealOf, Shaped
<1> QED
  BY <1>2, <1>3

LEMMA StoreInv == ASSUME Inv, NEW t \in Tasks, Store(t) PROVE Inv'
<1> DEFINE r == task[t]
           next == [r EXCEPT !.op = "reply", !.at = "members", !.body = NoKey, !.keys = {}]
           row == [chat |-> r.chat, seal |-> SealOf(r),
                   author |-> IF r.op = "post" THEN r.actor ELSE NoActor]
<1>1. Shaped(r) /\ r.op \in {"post", "reply"} /\ r.at = "done"
  BY Busy DEF Store
<1>2. Shaped(next)
  BY <1>1, SealedFacts DEF Shaped, Task
<1>3. row \in Rows
  BY <1>1, SealFacts DEF Shaped, Rows
<1>4. rows' = Append(rows, row) /\ Set(t, IF r.op = "reply" THEN Idle ELSE next)
  BY DEF Store
<1>5. rows' \in Seq(Rows)
  BY <1>3, <1>4 DEF Inv, TypeOK, Rows
<1>6. task' \in [Tasks -> Task \cup {Idle}] /\ RequestsShaped'
  BY <1>2, <1>4, SetKeepsShape
<1> QED
  BY <1>5, <1>6 DEF Store, Inv, TypeOK, PagesShaped, page, Rows

LEMMA KeyArrivesInv == ASSUME Inv, NEW t \in Tasks, KeyArrives(t) PROVE Inv'
<1>1. Shaped(task[t]) /\ task[t].op = "fetch" /\ task[t].at = "done"
  <2>1. At(t, {"fetch"}, "done")
    BY DEF KeyArrives
  <2>2. Shaped(task[t])
    BY <2>1, Busy
  <2> QED
    BY <2>1, <2>2 DEF At
<1>2. task[t].chat \in Chats /\ task[t].keys \in KeySets \ {{}}
  BY <1>1 DEF Shaped, Task, KeySets
<1>3. key' \in [Pages -> Sealed]
  BY <1>2, SealedFacts DEF KeyArrives, Inv, TypeOK
<1> QED
  BY <1>3, SetKeepsShape DEF KeyArrives, Inv, TypeOK, PagesShaped

LEMMA SelectChatInv ==
    ASSUME Inv, NEW t \in Tasks, NEW u \in Pages, NEW c \in Chats, SelectChat(t, u, c)
    PROVE  Inv'
<1> DEFINE r == [Idle EXCEPT !.op = "fetch", !.at = "members", !.actor = u, !.chat = c]
<1>1. Shaped(r)
  BY SealedFacts, ActorsAssumption DEF Shaped, Idle, Task
<1>2. active' \in [Pages -> Chats \cup {NoChat}] /\ switched' \subseteq Pages
  BY DEF SelectChat, Inv, TypeOK
<1>3. PagesShaped'
  BY ActorsAssumption DEF SelectChat, Inv, TypeOK, PagesShaped
<1> QED
  BY <1>1, <1>2, <1>3, SetKeepsShape DEF SelectChat, Inv, TypeOK

LEMMA PostInv ==
    ASSUME Inv, NEW t \in Tasks, NEW u \in Pages, NEW body \in Sealed,
           active[u] # NoChat, Post(t, u, body)
    PROVE  /\ task' \in [Tasks -> Task \cup {Idle}] /\ RequestsShaped'
           /\ posts' \in 0 .. MaxPosts /\ generating' \in [Pages -> BOOLEAN]
<1> DEFINE r == [Idle EXCEPT !.op = "post", !.actor = u, !.chat = active[u],
                 !.body = body, !.at = IF body = NoKey THEN "look" ELSE "done"]
<1>1. active[u] \in Chats
  BY DEF Inv, TypeOK
<1>2. Shaped(r)
  BY <1>1, ActorsAssumption DEF Shaped, Idle, Task
<1>3. task' \in [Tasks -> Task \cup {Idle}] /\ RequestsShaped'
  <2>1. CASE Allowed(u, active[u])
    BY <2>1, <1>2, SetKeepsShape DEF Post
  <2>2. CASE ~Allowed(u, active[u])
    BY <2>2 DEF Post, Inv, TypeOK, RequestsShaped, Shaped
  <2> QED
    BY <2>1, <2>2
<1>4. posts' \in 0 .. MaxPosts
  <2>1. posts' = posts + 1 /\ posts < MaxPosts
    BY DEF Post
  <2> QED
    BY <2>1, ActorsAssumption DEF Inv, TypeOK
<1>5. generating' \in [Pages -> BOOLEAN]
  <2>1. \E b \in BOOLEAN : generating' = [generating EXCEPT ![u] = b]
    BY DEF Post
  <2> QED
    BY <2>1 DEF Inv, TypeOK
<1> QED
  BY <1>3, <1>4, <1>5

LEMMA SendPlainInv ==
    ASSUME Inv, NEW t \in Tasks, NEW u \in Pages, SendPlain(t, u) PROVE Inv'
BY PostInv, SealedFacts DEF SendPlain, Inv, TypeOK, PagesShaped

LEMMA PostSealedInv ==
    ASSUME Inv, NEW t \in Tasks, NEW u \in Pages, PostSealed(t, u) PROVE Inv'
<1>1. sending[u] \in Sealed /\ active[u] # NoChat
  BY DEF PostSealed, Inv, TypeOK, PagesShaped
<1>2. sending' \in [Pages -> Sealed] /\ PagesShaped'
  BY SealedFacts DEF PostSealed, Inv, TypeOK, PagesShaped
<1>3. Post(t, u, sending[u])
  BY DEF PostSealed
<1>4. /\ task' \in [Tasks -> Task \cup {Idle}] /\ RequestsShaped'
      /\ posts' \in 0 .. MaxPosts /\ generating' \in [Pages -> BOOLEAN]
  BY <1>1, <1>3, PostInv
<1> QED
  BY <1>2, <1>4 DEF PostSealed, Inv, TypeOK

\* The steps of the page, the participants and the edits change no request.
LEMMA OtherInv ==
    ASSUME Inv,
           \/ \E u \in Pages : SendSealed(u) \/ GenerationOver(u)
           \/ \E c \in Chats, a \in Actors : Join(c, a) \/ Leave(c, a)
           \/ \E i \in DOMAIN rows : Edit(i)
    PROVE  Inv'
<1>1. ASSUME NEW u \in Pages, SendSealed(u) \/ GenerationOver(u) PROVE Inv'
  <2>1. /\ sending' \in [Pages -> Sealed] /\ PagesShaped'
        /\ generating' \in [Pages -> BOOLEAN]
    BY <1>1 DEF SendSealed, GenerationOver, Inv, TypeOK, PagesShaped
  <2> QED
    BY <1>1, <2>1 DEF SendSealed, GenerationOver, Inv, TypeOK, RequestsShaped, Shaped
<1>2. ASSUME NEW c \in Chats, NEW S \in SUBSET Actors, Change(c, S) PROVE Inv'
  <2>1. members' \in [Chats -> SUBSET Actors] /\ changes' \in 0 .. MaxChanges
    BY <1>2, ActorsAssumption DEF Change, Inv, TypeOK
  <2> QED
    BY <1>2, <2>1 DEF Change, page, Inv, TypeOK, RequestsShaped, Shaped, PagesShaped
<1>3. ASSUME NEW c \in Chats, NEW a \in Actors, Join(c, a) \/ Leave(c, a) PROVE Inv'
  BY <1>2, <1>3 DEF Join, Leave, Inv, TypeOK
<1>4. ASSUME NEW i \in DOMAIN rows, Edit(i) PROVE Inv'
  <2>1. rows \in Seq(Rows)
    BY DEF Inv, TypeOK, Rows
  <2>2. i \in 1 .. Len(rows) /\ rows[i] \in Rows
    BY <2>1, <1>4
  <2>3. [rows[i] EXCEPT !.seal = NoKey] \in Rows
    BY <2>2, SealedFacts DEF Rows
  <2>4. rows' = [rows EXCEPT ![i] = [rows[i] EXCEPT !.seal = NoKey]]
    BY <1>4 DEF Edit
  <2>5. rows' \in Seq(Rows)
    BY <2>1, <2>3, <2>4
  <2> QED
    BY <1>4, <2>5 DEF Edit, page, Inv, TypeOK, Rows, RequestsShaped, Shaped, PagesShaped
<1> QED
  BY <1>1, <1>3, <1>4

LEMMA InvStep == Inv /\ [Next]_vars => Inv'
<1> SUFFICES ASSUME Inv, [Next]_vars PROVE Inv'
  OBVIOUS
<1>1. ASSUME NEW t \in Tasks,
             \/ EnsureActorKey(t) \/ GenerateActorKey(t) \/ GetParticipants(t)
             \/ LoadActorKeys(t) \/ NoKeys(t) \/ Store(t) \/ KeyArrives(t)
      PROVE  Inv'
  BY <1>1, EnsureActorKeyInv, GenerateActorKeyInv, GetParticipantsInv,
     LoadActorKeysInv, NoKeysInv, StoreInv, KeyArrivesInv
<1>2. ASSUME NEW t \in Tasks, NEW u \in Users, Login(t, u) PROVE Inv'
  BY <1>2, LoginInv
<1>3. ASSUME NEW t \in Tasks, NEW u \in Pages,
             \/ SendPlain(t, u) \/ PostSealed(t, u)
             \/ \E c \in Chats : SelectChat(t, u, c)
      PROVE  Inv'
  BY <1>3, SendPlainInv, PostSealedInv, SelectChatInv
<1>4. CASE UNCHANGED vars
  BY <1>4 DEF vars, Inv, TypeOK, RequestsShaped, Shaped, PagesShaped
<1> QED
  BY <1>1, <1>2, <1>3, <1>4, OtherInv DEF Next

\* Every state of the keys, the requests and the pages has its type.
THEOREM TypesHold == Spec => []TypeOK
<1>1. Inv => TypeOK
  BY DEF Inv
<1> QED
  BY <1>1, InvInit, InvStep, PTL DEF Spec

-----------------------------------------------------------------------------
(* A post finds a key.                                                     *)

\* The actors with a key.
Keyed == {owner[k] : k \in DOMAIN owner}

\* Once past ensureActorKey, the actor of a post has a key.
PostersKeyed ==
    \A t \in Tasks :
        task[t].op = "post" /\ task[t].at \in {"members", "keys"}
        => task[t].actor \in Keyed

LEMMA HasKeyMeans == ASSUME NEW a PROVE HasKey(a) <=> a \in Keyed
BY DEF HasKey, KeysOf, Keyed

\* Only generateActorKey changes actor_keys.
LEMMA OwnerChanges ==
    ASSUME [Next]_vars
    PROVE  (\E t \in Tasks : GenerateActorKey(t)) \/ owner' = owner
BY DEF Next, vars, page, EnsureActorKey, GetParticipants, LoadActorKeys, NoKeys,
       Store, KeyArrives, Login, SendPlain, PostSealed, SelectChat, SendSealed,
       GenerationOver, Join, Leave, Change, Edit

\* Keys are only added.
LEMMA KeyedStays == ASSUME Inv, [Next]_vars PROVE Keyed \subseteq Keyed'
<1>1. ASSUME NEW t \in Tasks, GenerateActorKey(t) PROVE Keyed \subseteq Keyed'
  <2>1. task[t].actor \in Users
    BY <1>1, Busy DEF GenerateActorKey, Shaped, Task
  <2>2. /\ DOMAIN owner \subseteq DOMAIN owner'
        /\ \A k \in DOMAIN owner : owner'[k] = owner[k]
    BY <1>1, <2>1 DEF GenerateActorKey, Inv, TypeOK
  <2> QED
    BY <2>2 DEF Keyed
<1> QED
  BY <1>1, OwnerChanges DEF Keyed

LEMMA SetOne ==
    ASSUME Inv, NEW t \in Tasks, NEW r, Set(t, r)
    PROVE  \A s \in Tasks : task'[s] = IF s = t THEN r ELSE task[s]
BY DEF Inv, TypeOK, Set

\* A request of op "post" that is not yet done.
Seeking(r) == r.op = "post" /\ r.at \in {"members", "keys"}

LEMMA PostersStep ==
    ASSUME Inv, PostersKeyed, [Next]_vars PROVE PostersKeyed'
<1> SUFFICES ASSUME NEW s \in Tasks, Seeking(task'[s]) PROVE task'[s].actor \in Keyed'
  BY DEF PostersKeyed, Seeking
<1>1. CASE task'[s] = task[s]
  BY <1>1, KeyedStays DEF PostersKeyed, Seeking
<1>2. ASSUME NEW t \in Tasks, EnsureActorKey(t) PROVE task'[s].actor \in Keyed'
  <2>1. Shaped(task[t]) /\ task[t].at = "look"
    BY <1>2, Busy DEF EnsureActorKey
  <2>2. CASE task[t].actor \in Keyed /\ s = t
    <3>1. task'[s] = Ensured(task[t])
      BY <1>2, <2>2, SetOne, HasKeyMeans DEF EnsureActorKey
    <3>2. task[t].op = "post" => Ensured(task[t]).actor = task[t].actor
      BY <2>1 DEF Ensured, Shaped, Task
    <3>3. task[t].op # "login"
      BY <3>1, IdleFields DEF Ensured, Seeking
    <3> QED
      BY <1>2, <2>2, <3>1, <3>2, <3>3, KeyedStays, Busy DEF EnsureActorKey
  <2>3. CASE task[t].actor \notin Keyed /\ s = t
    <3>1. task'[s] = [task[t] EXCEPT !.at = "make"]
      BY <1>2, <2>3, SetOne, HasKeyMeans DEF EnsureActorKey
    <3> QED
      BY <2>1, <3>1 DEF Shaped, Task, Seeking
  <2>4. CASE s # t
    BY <1>1, <1>2, <2>4, SetOne, HasKeyMeans DEF EnsureActorKey
  <2> QED
    BY <2>2, <2>3, <2>4
<1>3. ASSUME NEW t \in Tasks, GenerateActorKey(t) PROVE task'[s].actor \in Keyed'
  <2>1. /\ Shaped(task[t]) /\ task[t].op \in {"login", "post"}
        /\ task[t].actor \in Users
    BY <1>3, Busy DEF GenerateActorKey, Shaped, Task
  <2>2. task[t].actor \in Keyed'
    <3>1. /\ Len(owner) + 1 \in DOMAIN owner'
          /\ owner'[Len(owner) + 1] = task[t].actor
      BY <1>3, <2>1 DEF GenerateActorKey, Inv, TypeOK
    <3> QED
      BY <3>1 DEF Keyed
  <2>3. CASE s = t
    <3>1. task'[s] = Ensured(task[t])
      BY <1>3, <2>3, SetOne DEF GenerateActorKey
    <3>2. task[t].op = "post" => Ensured(task[t]).actor = task[t].actor
      BY <2>1 DEF Ensured, Shaped, Task
    <3>3. task[t].op # "login"
      BY <3>1, IdleFields DEF Ensured, Seeking
    <3> QED
      BY <2>1, <2>2, <3>1, <3>2, <3>3
  <2>4. CASE s # t
    BY <1>1, <1>3, <2>4, SetOne DEF GenerateActorKey
  <2> QED
    BY <2>3, <2>4
<1>4. ASSUME NEW t \in Tasks, GetParticipants(t) PROVE task'[s].actor \in Keyed'
  <2>1. Shaped(task[t]) /\ task[t].at = "members"
    BY <1>4, Busy DEF GetParticipants
  <2>2. CASE s = t
    <3>1. task'[s] = [task[t] EXCEPT !.at = "keys", !.who = members[task[t].chat]]
      BY <1>4, <2>2, SetOne DEF GetParticipants
    <3>2. task'[s].op = task[t].op /\ task'[s].actor = task[t].actor
      BY <2>1, <3>1 DEF Shaped, Task
    <3> QED
      BY <2>1, <3>2, KeyedStays DEF PostersKeyed, Seeking
  <2> QED
    BY <1>1, <1>4, <2>2, SetOne DEF GetParticipants
<1>5. ASSUME NEW t \in Tasks, NEW r, Set(t, r), ~Seeking(r) PROVE task'[s].actor \in Keyed'
  BY <1>1, <1>5, SetOne
<1>6. ~Seeking(Idle)
  BY IdleFields DEF Seeking
<1>7. ASSUME NEW t \in Tasks, LoadActorKeys(t) \/ NoKeys(t) \/ Store(t) \/ KeyArrives(t)
      PROVE  task'[s].actor \in Keyed'
  <2>1. CASE LoadActorKeys(t)
    <3>1. Shaped(task[t])
      BY <2>1, Busy DEF LoadActorKeys
    <3>2. ~Seeking([task[t] EXCEPT !.at = "done", !.who = {}, !.keys = KeysOf(task[t].who)])
      BY <3>1 DEF Seeking, Shaped, Task
    <3> QED
      BY <2>1, <3>2, <1>5 DEF LoadActorKeys
  <2>2. CASE Store(t)
    <3>1. Shaped(task[t])
      BY <2>2, Busy DEF Store
    <3>2. ~Seeking([task[t] EXCEPT !.op = "reply", !.at = "members", !.body = NoKey, !.keys = {}])
      BY <3>1 DEF Seeking, Shaped, Task
    <3> QED
      BY <2>2, <3>2, <1>5, <1>6 DEF Store
  <2>3. CASE NoKeys(t) \/ KeyArrives(t)
    BY <2>3, <1>5, <1>6 DEF NoKeys, KeyArrives
  <2> QED
    BY <1>7, <2>1, <2>2, <2>3
<1>8. ASSUME NEW t \in Tasks, NEW u \in Users, Login(t, u) PROVE task'[s].actor \in Keyed'
  <2>1. ~Seeking([Idle EXCEPT !.op = "login", !.at = "look", !.actor = u])
    BY DEF Seeking, Idle
  <2> QED
    BY <1>5, <1>8, <2>1 DEF Login
<1>9. ASSUME NEW t \in Tasks, NEW u \in Pages, NEW c \in Chats, SelectChat(t, u, c)
      PROVE task'[s].actor \in Keyed'
  <2>1. ~Seeking([Idle EXCEPT !.op = "fetch", !.at = "members", !.actor = u, !.chat = c])
    BY DEF Seeking, Idle
  <2> QED
    BY <1>5, <1>9, <2>1 DEF SelectChat
<1>10. ASSUME NEW t \in Tasks, NEW u \in Pages, SendPlain(t, u) \/ PostSealed(t, u)
       PROVE task'[s].actor \in Keyed'
  <2>1. PICK body : Post(t, u, body)
    BY <1>10 DEF SendPlain, PostSealed
  <2>2. ~Seeking([Idle EXCEPT !.op = "post", !.actor = u, !.chat = active[u],
                   !.body = body, !.at = IF body = NoKey THEN "look" ELSE "done"])
    BY DEF Seeking, Idle
  <2> QED
    BY <1>1, <1>5, <2>1, <2>2 DEF Post
<1>11. \/ task' = task
       \/ \E t \in Tasks :
            \/ EnsureActorKey(t) \/ GenerateActorKey(t) \/ GetParticipants(t)
            \/ LoadActorKeys(t) \/ NoKeys(t) \/ Store(t) \/ KeyArrives(t)
            \/ \E u \in Users : Login(t, u)
            \/ \E u \in Pages :
                  \/ SendPlain(t, u) \/ PostSealed(t, u)
                  \/ \E c \in Chats : SelectChat(t, u, c)
  BY DEF Next, vars, SendSealed, GenerationOver, Join, Leave, Change, Edit
<1> QED
  BY <1>1, <1>2, <1>3, <1>4, <1>7, <1>8, <1>9, <1>10, <1>11

\* A participant who posts finds a key to derive from: messages.ts:596-597.
THEOREM MembersCanPost == Spec => []MemberCanPost
<1>1. Init => PostersKeyed
  BY IdleFields DEF Init, PostersKeyed
<1>2. Inv /\ PostersKeyed => MemberCanPost
  BY DEF PostersKeyed, MemberCanPost, At, KeysOf, Keyed
<1> QED
  BY <1>1, <1>2, InvInit, InvStep, PostersStep, PTL DEF Spec

-----------------------------------------------------------------------------
(* A page that shows one chat only has no key of another.                  *)

PagesOwn ==
    \A u \in Pages \ switched :
        /\ key[u] # NoKey => key[u].chat = active[u]
        /\ sending[u] # NoKey => sending[u].chat = active[u]

FetchesOwn ==
    \A t \in Tasks :
        task[t].op = "fetch" /\ task[t].actor \notin switched
        => task[t].chat = active[task[t].actor]

PostsOwn ==
    \A t \in Tasks :
        task[t].op = "post" /\ task[t].actor \notin switched /\ task[t].body # NoKey
        => task[t].body.chat = task[t].chat

Own == PagesOwn /\ FetchesOwn /\ PostsOwn /\ ForeignKeyOnlyAfterSwitch

\* The request keeps what makes it a fetch or a post of its own chat.
SameErrand(r, q) ==
    r.op \in {"fetch", "post"} =>
        /\ q.op = r.op /\ q.actor = r.actor /\ q.chat = r.chat /\ q.body = r.body

LEMMA OwnRequestStep ==
    ASSUME Inv, Own, NEW t \in Tasks, NEW r, Set(t, r), SameErrand(r, task[t]),
           UNCHANGED <<active, sending, switched>>
    PROVE  FetchesOwn' /\ PostsOwn'
<1>1. \A s \in Tasks : SameErrand(task'[s], task[s])
  BY SetOne DEF SameErrand
<1> QED
  BY <1>1 DEF SameErrand, FetchesOwn, PostsOwn, Own

LEMMA SealedChat == \A k \in Sealed : k = NoKey \/ k.chat \in Chats
BY DEF Sealed, ChatKey

LEMMA OwnInit == Init => Own
BY IdleFields DEF Init, Own, PagesOwn, FetchesOwn, PostsOwn, ForeignKeyOnlyAfterSwitch

LEMMA OwnQuiet ==
    ASSUME Inv, Own, NEW t \in Tasks,
           \/ EnsureActorKey(t) \/ GenerateActorKey(t) \/ GetParticipants(t)
           \/ LoadActorKeys(t) \/ NoKeys(t) \/ \E u \in Users : Login(t, u)
    PROVE  Own'
<1>1. /\ UNCHANGED <<active, sending, switched, rows>>
      /\ \A u \in Pages : key'[u] = key[u] \/ key'[u] = NoKey
  BY DEF EnsureActorKey, GenerateActorKey, GetParticipants, LoadActorKeys, NoKeys,
         Login, page, Inv, TypeOK
<1>2. PagesOwn' /\ ForeignKeyOnlyAfterSwitch'
  BY <1>1 DEF Own, PagesOwn, ForeignKeyOnlyAfterSwitch
<1>3. PICK r : Set(t, r) /\ SameErrand(r, task[t])
  <2>1. SameErrand(Idle, task[t])
    BY IdleFields DEF SameErrand
  <2>2. CASE EnsureActorKey(t) \/ GenerateActorKey(t)
    <3>1. Shaped(task[t])
      BY <2>2, Busy DEF EnsureActorKey, GenerateActorKey
    <3>2. SameErrand([task[t] EXCEPT !.at = "make"], task[t])
      BY <3>1 DEF SameErrand, Shaped, Task
    <3>3. task[t].op = "login" => SameErrand(Ensured(task[t]), task[t])
      BY <2>1 DEF Ensured
    <3>4. task[t].op # "login" => SameErrand(Ensured(task[t]), task[t])
      BY <3>1 DEF Ensured, SameErrand, Shaped, Task
    <3> QED
      BY <2>2, <3>2, <3>3, <3>4 DEF EnsureActorKey, GenerateActorKey
  <2>3. CASE GetParticipants(t)
    <3>1. Shaped(task[t])
      BY <2>3, Busy DEF GetParticipants
    <3>2. SameErrand([task[t] EXCEPT !.at = "keys", !.who = members[task[t].chat]], task[t])
      BY <3>1 DEF SameErrand, Shaped, Task
    <3> QED
      BY <2>3, <3>2 DEF GetParticipants
  <2>4. CASE LoadActorKeys(t)
    <3>1. Shaped(task[t])
      BY <2>4, Busy DEF LoadActorKeys
    <3>2. SameErrand([task[t] EXCEPT !.at = "done", !.who = {},
                      !.keys = KeysOf(task[t].who)], task[t])
      BY <3>1 DEF SameErrand, Shaped, Task
    <3> QED
      BY <2>4, <3>2 DEF LoadActorKeys
  <2>5. CASE NoKeys(t)
    BY <2>1, <2>5 DEF NoKeys
  <2>6. ASSUME NEW u \in Users, Login(t, u)
        PROVE \E r : Set(t, r) /\ SameErrand(r, task[t])
    <3>1. SameErrand([Idle EXCEPT !.op = "login", !.at = "look", !.actor = u], task[t])
      BY DEF SameErrand, Idle
    <3> QED
      BY <2>6, <3>1 DEF Login
  <2> QED
    BY <2>2, <2>3, <2>4, <2>5, <2>6
<1> QED
  BY <1>1, <1>2, <1>3, OwnRequestStep DEF Own

LEMMA OwnStore == ASSUME Inv, Own, NEW t \in Tasks, Store(t) PROVE Own'
<1> DEFINE r == task[t]
           next == [r EXCEPT !.op = "reply", !.at = "members", !.body = NoKey, !.keys = {}]
           row == [chat |-> r.chat, seal |-> SealOf(r),
                   author |-> IF r.op = "post" THEN r.actor ELSE NoActor]
<1>1. Shaped(r) /\ r.op \in {"post", "reply"} /\ r.at = "done"
  BY Busy DEF Store
<1>2. rows' = Append(rows, row) /\ Set(t, IF r.op = "reply" THEN Idle ELSE next)
  BY DEF Store
<1>3. row.seal # NoKey /\ row.seal.chat # row.chat => row.author \in switched
  <2>1. CASE r.body = NoKey
    BY <1>1, <2>1, SealFacts
  <2>2. CASE r.body # NoKey
    <3>1. SealOf(r) = r.body /\ r.op = "post"
      BY <1>1, <2>2 DEF SealOf, Shaped
    <3> QED
      BY <2>2, <3>1 DEF Own, PostsOwn
  <2> QED
    BY <2>1, <2>2
<1>4. ForeignKeyOnlyAfterSwitch'
  <2> HIDE DEF row
  <2>1. rows \in Seq(Rows)
    BY DEF Inv, TypeOK, Rows
  <2>2. UNCHANGED switched
    BY DEF Store, page
  <2>3. /\ DOMAIN rows' = DOMAIN rows \cup {Len(rows) + 1}
        /\ rows'[Len(rows) + 1] = row
        /\ \A i \in DOMAIN rows : rows'[i] = rows[i]
    BY <1>2, <2>1
  <2> QED
    BY <1>3, <2>2, <2>3 DEF Own, ForeignKeyOnlyAfterSwitch
<1>5. SameErrand(Idle, r) /\ SameErrand(next, r)
  <2>1. next.op = "reply"
    BY <1>1 DEF Shaped, Task
  <2> QED
    BY <2>1, IdleFields DEF SameErrand
<1>6. FetchesOwn' /\ PostsOwn'
  BY <1>2, <1>5, OwnRequestStep DEF Store, page
<1>7. PagesOwn'
  BY DEF Store, page, Own, PagesOwn
<1> QED
  BY <1>4, <1>6, <1>7 DEF Own

LEMMA OwnKeyArrives == ASSUME Inv, Own, NEW t \in Tasks, KeyArrives(t) PROVE Own'
<1>1. Shaped(task[t]) /\ task[t].op = "fetch" /\ task[t].at = "done"
  <2>1. At(t, {"fetch"}, "done")
    BY DEF KeyArrives
  <2>2. Shaped(task[t])
    BY <2>1, Busy
  <2> QED
    BY <2>1, <2>2 DEF At
<1>2. DeriveChatKey(task[t].chat, task[t].keys).chat = task[t].chat
  BY <1>1, SealedFacts DEF Shaped, Task, KeySets
<1>3. PagesOwn'
  BY <1>1, <1>2 DEF KeyArrives, Inv, TypeOK, Own, PagesOwn, FetchesOwn
<1>4. FetchesOwn' /\ PostsOwn'
  <2>1. SameErrand(Idle, task[t])
    BY IdleFields DEF SameErrand
  <2> QED
    BY <2>1, OwnRequestStep DEF KeyArrives
<1> QED
  BY <1>3, <1>4 DEF KeyArrives, Own, ForeignKeyOnlyAfterSwitch

LEMMA OwnSelectChat ==
    ASSUME Inv, Own, NEW t \in Tasks, NEW u \in Pages, NEW c \in Chats, SelectChat(t, u, c)
    PROVE  Own'
<1> DEFINE r == [Idle EXCEPT !.op = "fetch", !.at = "members", !.actor = u, !.chat = c]
<1>1. \A s \in Tasks : task'[s] = IF s = t THEN r ELSE task[s]
  BY SetOne DEF SelectChat
<1>2. /\ \A v \in Pages : active'[v] = IF v = u THEN c ELSE active[v]
      /\ switched \subseteq switched'
      /\ u \in switched' \/ active[u] = NoChat
  BY DEF SelectChat, Inv, TypeOK
<1>3. active[u] = NoChat /\ u \notin switched => key[u] = NoKey /\ sending[u] = NoKey
  BY SealedChat, ActorsAssumption DEF Inv, TypeOK, Own, PagesOwn
<1>4. PagesOwn'
  BY <1>2, <1>3 DEF SelectChat, Own, PagesOwn
<1>5. FetchesOwn'
  <2> SUFFICES ASSUME NEW s \in Tasks, task'[s].op = "fetch",
                      task'[s].actor \notin switched'
               PROVE  task'[s].chat = active'[task'[s].actor]
    BY DEF FetchesOwn
  <2>1. CASE s = t
    <3>1. r.actor = u /\ r.chat = c
      BY DEF Idle
    <3> QED
      BY <1>1, <1>2, <2>1, <3>1
  <2>2. CASE s # t
    <3>1. Shaped(task[s]) /\ task'[s] = task[s]
      BY <1>1, <2>2, IdleFields DEF Inv, RequestsShaped
    <3>2. /\ task[s].chat \in Chats /\ task[s].actor \in Pages
          /\ task[s].chat = active[task[s].actor]
      BY <1>2, <3>1 DEF Shaped, Own, FetchesOwn
    <3> QED
      BY <1>2, <3>1, <3>2, ActorsAssumption
  <2> QED
    BY <2>1, <2>2
<1>6. PostsOwn'
  <2>1. r.op = "fetch"
    BY DEF Idle
  <2> QED
    BY <1>1, <1>2, <2>1 DEF Own, PostsOwn
<1> QED
  BY <1>2, <1>4, <1>5, <1>6 DEF SelectChat, Own, ForeignKeyOnlyAfterSwitch

LEMMA OwnPost ==
    ASSUME Inv, Own, NEW t \in Tasks, NEW u \in Pages, SendPlain(t, u) \/ PostSealed(t, u)
    PROVE  Own'
<1>1. PICK body \in {NoKey, sending[u]} : Post(t, u, body)
  BY DEF SendPlain, PostSealed
<1> DEFINE r == [Idle EXCEPT !.op = "post", !.actor = u, !.chat = active[u],
                 !.body = body, !.at = IF body = NoKey THEN "look" ELSE "done"]
<1>2. UNCHANGED <<rows, active, key, switched>>
  BY DEF SendPlain, PostSealed
<1>3. PagesOwn' /\ ForeignKeyOnlyAfterSwitch'
  BY <1>2 DEF SendPlain, PostSealed, Inv, TypeOK, Own, PagesOwn, ForeignKeyOnlyAfterSwitch
<1>4. CASE UNCHANGED task
  BY <1>2, <1>3, <1>4 DEF Own, FetchesOwn, PostsOwn
<1>5. CASE Set(t, r)
  <2>1. \A s \in Tasks : task'[s] = IF s = t THEN r ELSE task[s]
    BY <1>5, SetOne
  <2>2. r.op = "post" /\ r.actor = u /\ r.chat = active[u] /\ r.body = body
    BY DEF Idle
  <2>3. FetchesOwn'
    BY <1>2, <2>1, <2>2 DEF Own, FetchesOwn
  <2>4. u \notin switched /\ body # NoKey => body.chat = active[u]
    BY <1>1 DEF Own, PagesOwn
  <2>5. PostsOwn'
    BY <1>2, <2>1, <2>2, <2>4 DEF Own, PostsOwn
  <2> QED
    BY <1>3, <2>3, <2>5 DEF Own
<1> QED
  BY <1>1, <1>4, <1>5 DEF Post

LEMMA OwnOther ==
    ASSUME Inv, Own,
           \/ UNCHANGED vars
           \/ \E u \in Pages : SendSealed(u) \/ GenerationOver(u)
           \/ \E c \in Chats, a \in Actors : Join(c, a) \/ Leave(c, a)
           \/ \E i \in DOMAIN rows : Edit(i)
    PROVE  Own'
<1>1. UNCHANGED <<task, active, key, switched>>
  BY DEF SendSealed, GenerationOver, Join, Leave, Change, Edit, vars, page
<1>2. FetchesOwn' /\ PostsOwn'
  BY <1>1 DEF Own, FetchesOwn, PostsOwn
<1>3. PagesOwn'
  <2>1. \A u \in Pages : sending'[u] = sending[u] \/ sending'[u] = key[u]
    BY DEF SendSealed, GenerationOver, Join, Leave, Change, Edit, vars, page, Inv, TypeOK
  <2> QED
    BY <1>1, <2>1 DEF Own, PagesOwn
<1>4. ForeignKeyOnlyAfterSwitch'
  <2>1. CASE UNCHANGED rows
    BY <1>1, <2>1 DEF Own, ForeignKeyOnlyAfterSwitch
  <2>2. ASSUME NEW i \in DOMAIN rows, Edit(i) PROVE ForeignKeyOnlyAfterSwitch'
    <3>1. rows \in Seq(Rows)
      BY DEF Inv, TypeOK, Rows
    <3>2. /\ DOMAIN rows' = DOMAIN rows
          /\ \A j \in DOMAIN rows : rows'[j] = rows[j] \/ rows'[j].seal = NoKey
      BY <2>2, <3>1 DEF Edit, Rows
    <3> QED
      BY <1>1, <3>2 DEF Own, ForeignKeyOnlyAfterSwitch
  <2> QED
    BY <2>1, <2>2 DEF SendSealed, GenerationOver, Join, Leave, Change, vars, page
<1> QED
  BY <1>2, <1>3, <1>4 DEF Own

LEMMA OwnStep == Inv /\ Own /\ [Next]_vars => Own'
BY OwnQuiet, OwnStore, OwnKeyArrives, OwnSelectChat, OwnPost, OwnOther DEF Next

\* Only a page that switched chats stores a message under another chat's key.
THEOREM ForeignKeysFromSwitches == Spec => []ForeignKeyOnlyAfterSwitch
<1>1. Own => ForeignKeyOnlyAfterSwitch
  BY DEF Own
<1> QED
  BY <1>1, InvInit, InvStep, OwnInit, OwnStep, PTL DEF Spec

-----------------------------------------------------------------------------
(* Actors without keys, and the number of keys of an actor.                *)

\* Whoever has no key may come and go: chat keys are derived from the active
\* keys of the participants (chat-keys.ts:60-66), and only from those.
THEOREM KeylessComeAndGo == Spec => KeylessActorsNeutral
<1> DEFINE moved(c) == (members[c] \ members'[c]) \cup (members'[c] \ members[c])
<1>1. ASSUME Inv, [Next]_vars, NEW d \in Chats, moved(d) # {}, KeysOf(moved(d)) = {}
      PROVE  \A i \in DOMAIN rows : Readable(i) <=> Readable(i)'
  <2>1. PICK c \in Chats, S \in SUBSET Actors : Change(c, S)
    <3>1. members' # members
      BY <1>1
    <3>2. \E c \in Chats, a \in Actors : Join(c, a) \/ Leave(c, a)
      BY <1>1, <3>1 DEF Next, vars, page, EnsureActorKey, GenerateActorKey,
         GetParticipants, LoadActorKeys, NoKeys, Store, KeyArrives, Login, SendPlain,
         PostSealed, SelectChat, SendSealed, GenerationOver, Edit
    <3> QED
      BY <1>1, <3>2 DEF Join, Leave, Inv, TypeOK
  <2>2. UNCHANGED <<owner, rows>> /\ \A e \in Chats : e # c => members'[e] = members[e]
    BY <1>1, <2>1 DEF Change, Inv, TypeOK
  <2>3. \A e \in Chats : KeysOf(moved(e)) = {}
    BY <1>1, <2>2 DEF KeysOf
  <2>4. ASSUME NEW e \in Chats
        PROVE  {k \in DOMAIN owner : owner[k] \in members[e]}
               = {k \in DOMAIN owner' : owner'[k] \in members'[e]}
    BY <2>2, <2>3 DEF KeysOf
  <2>5. \A i \in DOMAIN rows : rows[i].chat \in Chats
    <3>1. rows \in Seq(Rows)
      BY <1>1 DEF Inv, TypeOK, Rows
    <3>2. \A i \in DOMAIN rows : rows[i] \in Rows
      BY <3>1
    <3> QED
      BY <3>2 DEF Rows
  <2> QED
    BY <2>2, <2>4, <2>5 DEF Readable, KeysOf
<1>2. Inv /\ [Next]_vars
      => [\A c \in Chats :
            LET gone == (members[c] \ members'[c]) \cup (members'[c] \ members[c])
            IN  gone # {} /\ KeysOf(gone) = {}
                => \A i \in DOMAIN rows : Readable(i) <=> Readable(i)']_vars
  BY <1>1
<1> QED
  BY <1>2, InvInit, InvStep, PTL DEF Spec, KeylessActorsNeutral

LEMMA KeysFinite == ASSUME Inv, NEW u PROVE IsFiniteSet(KeysOf({u}))
<1>1. IsFiniteSet(1 .. Len(owner)) /\ KeysOf({u}) \subseteq 1 .. Len(owner)
  BY FS_Interval DEF KeysOf, Inv, TypeOK
<1> QED
  BY <1>1, FS_Subset

LEMMA MakersFinite == ASSUME NEW u PROVE IsFiniteSet(Makers(u))
BY TasksFinite, FS_Subset DEF Makers

\* The keys of one actor stay in number when none is added and no request sets
\* about to make one.
LEMMA BoundKept ==
    ASSUME Inv, NEW u \in Users,
           Cardinality(KeysOf({u})) + Cardinality(Makers(u)) <= Cardinality(Tasks),
           KeysOf({u})' = KeysOf({u}), Makers(u)' \subseteq Makers(u)
    PROVE  Cardinality(KeysOf({u})') + Cardinality(Makers(u)') <= Cardinality(Tasks)
<1>1. /\ Cardinality(Makers(u)') <= Cardinality(Makers(u))
      /\ Cardinality(Makers(u)') \in Nat /\ Cardinality(Makers(u)) \in Nat
  BY MakersFinite, FS_Subset, FS_CardinalityType
<1>2. Cardinality(KeysOf({u})) \in Nat /\ Cardinality(Tasks) \in Nat
  BY KeysFinite, TasksFinite, FS_CardinalityType
<1> QED
  BY <1>1, <1>2

\* No request sets about to make a key in this step.
NoNewMaker == \A s \in Tasks : task'[s].at = "make" => task'[s] = task[s]

LEMMA QuietMakers ==
    ASSUME Inv, NEW t \in Tasks, NEW r, Set(t, r), r.at # "make"
    PROVE  NoNewMaker
BY SetOne DEF NoNewMaker

LEMMA Makings ==
    ASSUME Inv, [Next]_vars
    PROVE  NoNewMaker \/ \E t \in Tasks : EnsureActorKey(t) /\ ~HasKey(task[t].actor)
<1>1. Idle.at # "make"
  BY IdleFields
<1>2. ASSUME NEW t \in Tasks, EnsureActorKey(t) /\ HasKey(task[t].actor)
      PROVE  NoNewMaker
  <2>1. Shaped(task[t])
    BY <1>2, Busy DEF EnsureActorKey
  <2>2. Ensured(task[t]).at # "make"
    BY <1>1, <2>1 DEF Ensured, Shaped, Task
  <2> QED
    BY <1>2, <2>2, QuietMakers DEF EnsureActorKey
<1>3. ASSUME NEW t \in Tasks, GenerateActorKey(t) PROVE NoNewMaker
  <2>1. Shaped(task[t])
    BY <1>3, Busy DEF GenerateActorKey
  <2>2. Ensured(task[t]).at # "make"
    BY <1>1, <2>1 DEF Ensured, Shaped, Task
  <2> QED
    BY <1>3, <2>2, QuietMakers DEF GenerateActorKey
<1>4. ASSUME NEW t \in Tasks, GetParticipants(t) PROVE NoNewMaker
  <2>1. Shaped(task[t])
    BY <1>4, Busy DEF GetParticipants
  <2>2. [task[t] EXCEPT !.at = "keys", !.who = members[task[t].chat]].at # "make"
    BY <2>1 DEF Shaped, Task
  <2> QED
    BY <1>4, <2>2, QuietMakers DEF GetParticipants
<1>5. ASSUME NEW t \in Tasks, LoadActorKeys(t) PROVE NoNewMaker
  <2>1. Shaped(task[t])
    BY <1>5, Busy DEF LoadActorKeys
  <2>2. [task[t] EXCEPT !.at = "done", !.who = {}, !.keys = KeysOf(task[t].who)].at # "make"
    BY <2>1 DEF Shaped, Task
  <2> QED
    BY <1>5, <2>2, QuietMakers DEF LoadActorKeys
<1>6. ASSUME NEW t \in Tasks, Store(t) PROVE NoNewMaker
  <2>1. Shaped(task[t])
    BY <1>6, Busy DEF Store
  <2>2. [task[t] EXCEPT !.op = "reply", !.at = "members",
         !.body = NoKey, !.keys = {}].at # "make"
    BY <2>1 DEF Shaped, Task
  <2> QED
    BY <1>1, <1>6, <2>2, QuietMakers DEF Store
<1>7. ASSUME NEW t \in Tasks, NoKeys(t) \/ KeyArrives(t) PROVE NoNewMaker
  BY <1>1, <1>7, QuietMakers DEF NoKeys, KeyArrives
<1>8. ASSUME NEW t \in Tasks, NEW u \in Users, Login(t, u) PROVE NoNewMaker
  <2>1. [Idle EXCEPT !.op = "login", !.at = "look", !.actor = u].at # "make"
    BY DEF Idle
  <2> QED
    BY <1>8, <2>1, QuietMakers DEF Login
<1>9. ASSUME NEW t \in Tasks, NEW u \in Pages, NEW c \in Chats, SelectChat(t, u, c)
      PROVE  NoNewMaker
  <2>1. [Idle EXCEPT !.op = "fetch", !.at = "members", !.actor = u, !.chat = c].at # "make"
    BY DEF Idle
  <2> QED
    BY <1>9, <2>1, QuietMakers DEF SelectChat
<1>10. ASSUME NEW t \in Tasks, NEW u \in Pages, SendPlain(t, u) \/ PostSealed(t, u)
       PROVE  NoNewMaker
  <2>1. PICK body : Post(t, u, body)
    BY <1>10 DEF SendPlain, PostSealed
  <2>2. [Idle EXCEPT !.op = "post", !.actor = u, !.chat = active[u],
         !.body = body, !.at = IF body = NoKey THEN "look" ELSE "done"].at # "make"
    BY DEF Idle
  <2>3. CASE Allowed(u, active[u])
    BY <2>1, <2>2, <2>3, QuietMakers DEF Post
  <2>4. CASE ~Allowed(u, active[u])
    BY <2>1, <2>4 DEF Post, NoNewMaker
  <2> QED
    BY <2>3, <2>4
<1>11. CASE UNCHANGED task
  BY <1>11 DEF NoNewMaker
<1> QED
  BY <1>2, <1>3, <1>4, <1>5, <1>6, <1>7, <1>8, <1>9, <1>10, <1>11
  DEF Next, vars, SendSealed, GenerationOver, Join, Leave, Change, Edit

LEMMA KeysBoundedStep == Inv /\ KeysBounded /\ [Next]_vars => KeysBounded'
<1> SUFFICES ASSUME Inv, KeysBounded, [Next]_vars, NEW u \in Users
             PROVE  Cardinality(KeysOf({u})') + Cardinality(Makers(u)') <= Cardinality(Tasks)
  BY DEF KeysBounded, KeysOf, Makers
<1>1. /\ Cardinality(KeysOf({u})) + Cardinality(Makers(u)) <= Cardinality(Tasks)
      /\ Cardinality(KeysOf({u})) \in Nat /\ Cardinality(Makers(u)) \in Nat
      /\ Cardinality(Tasks) \in Nat
  BY KeysFinite, MakersFinite, TasksFinite, FS_CardinalityType DEF KeysBounded
<1>2. ASSUME NEW t \in Tasks, GenerateActorKey(t), task[t].actor = u
      PROVE  Cardinality(KeysOf({u})') + Cardinality(Makers(u)') <= Cardinality(Tasks)
  <2>1. Shaped(task[t]) /\ task[t].at = "make" /\ task[t].op \in {"login", "post"}
    BY <1>2, Busy DEF GenerateActorKey
  <2>2. t \in Makers(u)
    BY <1>2, <2>1 DEF Makers
  <2>3. KeysOf({u})' \subseteq KeysOf({u}) \cup {Len(owner) + 1}
    BY <1>2 DEF GenerateActorKey, KeysOf, Inv, TypeOK
  <2>4. Makers(u)' \subseteq Makers(u) \ {t}
    <3>1. Ensured(task[t]).at # "make"
      BY <2>1, IdleFields DEF Ensured, Shaped, Task
    <3>2. \A s \in Tasks : task'[s] = IF s = t THEN Ensured(task[t]) ELSE task[s]
      BY <1>2, SetOne DEF GenerateActorKey
    <3> QED
      BY <3>1, <3>2 DEF Makers
  <2>5. Cardinality(KeysOf({u})') <= Cardinality(KeysOf({u})) + 1
    <3> DEFINE K == KeysOf({u})
               L == KeysOf({u})'
               n == Len(owner) + 1
    <3>1. IsFiniteSet(K) /\ L \subseteq K \cup {n}
      BY <2>3, KeysFinite
    <3> HIDE DEF K, L, n
    <3>2. IsFiniteSet(K \cup {n}) /\ Cardinality(K \cup {n}) <= Cardinality(K) + 1
      <4>1. Cardinality(K) \in Nat
        BY <3>1, FS_CardinalityType
      <4>2. /\ IsFiniteSet(K \cup {n})
            /\ Cardinality(K \cup {n}) = IF n \in K THEN Cardinality(K)
                                         ELSE Cardinality(K) + 1
        BY <3>1, FS_AddElement, Zenon
      <4> QED
        BY <4>1, <4>2
    <3>3. /\ Cardinality(L) <= Cardinality(K \cup {n})
          /\ Cardinality(L) \in Nat /\ Cardinality(K \cup {n}) \in Nat
          /\ Cardinality(K) \in Nat
      BY <3>1, <3>2, FS_Subset, FS_CardinalityType
    <3>4. Cardinality(L) <= Cardinality(K) + 1
      BY <3>2, <3>3
    <3> QED
      BY <3>4 DEF K, L
  <2>6. Cardinality(Makers(u)') <= Cardinality(Makers(u)) - 1
    <3>1. IsFiniteSet(Makers(u) \ {t}) /\ Cardinality(Makers(u) \ {t}) = Cardinality(Makers(u)) - 1
      BY <2>2, MakersFinite, FS_RemoveElement
    <3> QED
      BY <2>4, <3>1, FS_Subset
  <2>7. Cardinality(KeysOf({u})') \in Nat /\ Cardinality(Makers(u)') \in Nat
    <3>1. IsFiniteSet(KeysOf({u})') /\ IsFiniteSet(Makers(u)')
      <4>1. IsFiniteSet(KeysOf({u}) \cup {Len(owner) + 1})
        BY KeysFinite, FS_AddElement
      <4> QED
        BY <4>1, <2>3, <2>4, MakersFinite, FS_Subset
    <3> QED
      BY <3>1, FS_CardinalityType
  <2> QED
    BY <1>1, <2>5, <2>6, <2>7
<1>3. ASSUME NEW t \in Tasks, EnsureActorKey(t), ~HasKey(u)
      PROVE  Cardinality(KeysOf({u})') + Cardinality(Makers(u)') <= Cardinality(Tasks)
  <2>1. KeysOf({u})' = {} /\ Makers(u)' \subseteq Tasks
    BY <1>3 DEF EnsureActorKey, HasKey, KeysOf, Makers
  <2>2. Cardinality(KeysOf({u})') = 0
    BY <2>1, FS_EmptySet
  <2>3. Cardinality(Makers(u)') <= Cardinality(Tasks) /\ Cardinality(Makers(u)') \in Nat
    BY <2>1, TasksFinite, FS_Subset, FS_CardinalityType
  <2> QED
    BY <1>1, <2>2, <2>3
<1>4. ASSUME NEW t \in Tasks, EnsureActorKey(t), task[t].actor # u
      PROVE  Makers(u)' \subseteq Makers(u)
  <2>1. Shaped(task[t])
    BY <1>4, Busy DEF EnsureActorKey
  <2>2. \A s \in Tasks : s # t => task'[s] = task[s]
    BY <1>4, SetOne DEF EnsureActorKey
  <2>3. t \notin Makers(u)'
    <3>1. [task[t] EXCEPT !.at = "make"].actor # u
      BY <1>4, <2>1 DEF Shaped, Task
    <3>2. Ensured(task[t]).at # "make"
      BY <1>4, <2>1, Busy, IdleFields DEF EnsureActorKey, Ensured, Shaped, Task
    <3> QED
      BY <1>4, <3>1, <3>2, SetOne DEF EnsureActorKey, Makers
  <2> QED
    BY <2>2, <2>3 DEF Makers
<1>5. NoNewMaker => Makers(u)' \subseteq Makers(u)
  BY DEF NoNewMaker, Makers
<1>6. ASSUME NEW t \in Tasks, GenerateActorKey(t), task[t].actor # u
      PROVE  KeysOf({u})' = KeysOf({u})
  <2>1. task[t].actor \in Users
    BY <1>6, Busy DEF GenerateActorKey, Shaped, Task
  <2> QED
    BY <1>6, <2>1 DEF GenerateActorKey, KeysOf, Inv, TypeOK
<1>7. owner' = owner => KeysOf({u})' = KeysOf({u})
  BY DEF KeysOf
<1>8. CASE \E t \in Tasks : GenerateActorKey(t) /\ task[t].actor = u
  BY <1>2, <1>8
<1>9. CASE ~ \E t \in Tasks : GenerateActorKey(t) /\ task[t].actor = u
  <2>1. KeysOf({u})' = KeysOf({u})
    BY <1>6, <1>7, <1>9, OwnerChanges
  <2>2. CASE NoNewMaker
    BY <1>1, <1>5, <2>1, <2>2, BoundKept
  <2>3. ASSUME NEW t \in Tasks, EnsureActorKey(t), ~HasKey(task[t].actor)
        PROVE  Cardinality(KeysOf({u})') + Cardinality(Makers(u)') <= Cardinality(Tasks)
    BY <1>1, <1>3, <1>4, <2>1, <2>3, BoundKept
  <2> QED
    BY <2>2, <2>3, Makings
<1> QED
  BY <1>8, <1>9

\* An actor that starts with no more keys than there are requests at a time
\* never has more: ensureActorKey makes a second key only when requests overlap.
THEOREM KeysStayBounded ==
    ASSUME \A u \in Users :
              Cardinality({k \in DOMAIN FirstKeys : FirstKeys[k] = u}) <= Cardinality(Tasks)
    PROVE  Spec => []KeysBounded
<1>1. Init => KeysBounded
  <2> SUFFICES ASSUME Init, NEW u \in Users
               PROVE  Cardinality(KeysOf({u})) + Cardinality(Makers(u)) <= Cardinality(Tasks)
    BY DEF KeysBounded
  <2>1. KeysOf({u}) = {k \in DOMAIN FirstKeys : FirstKeys[k] = u}
    BY DEF Init, KeysOf
  <2>2. Makers(u) = {}
    BY IdleFields DEF Init, Makers
  <2>3. Cardinality(Makers(u)) = 0
    BY <2>2, FS_EmptySet
  <2>4. Cardinality(KeysOf({u})) \in Nat /\ Cardinality(Tasks) \in Nat
    BY InvInit, KeysFinite, TasksFinite, FS_CardinalityType
  <2>5. Cardinality(KeysOf({u})) <= Cardinality(Tasks)
    BY <2>1
  <2> QED
    BY <2>3, <2>4, <2>5
<1> QED
  BY <1>1, InvInit, InvStep, KeysBoundedStep, PTL DEF Spec
=============================================================================
