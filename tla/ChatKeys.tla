------------------------------- MODULE ChatKeys -------------------------------
(***************************************************************************)
(* The keys of encrypted chats: actor keys (src/crypto/actor-keys.ts), the *)
(* chat key derived from them (chat-keys.ts), the requests that need it    *)
(* (login, posting a message, the automatic reply, the key request of the  *)
(* browser) and the browser, which seals messages itself.                  *)
(*                                                                         *)
(* A step of a request is a statement of the database with the code up to  *)
(* the next one.  The database keeps one row of actor_keys per key: row k  *)
(* belongs to owner[k] and stays active, since no route rotates or revokes *)
(* keys.  The key material is concatenated in the order of the query, so   *)
(* a chat key is the chat (the salt) and the set of key rows it is made    *)
(* of.  Only messages with a key_id are modelled: the server is started    *)
(* with SERVER_ENCRYPTION_KEY, perhaps for the first time, so that users   *)
(* may have sessions and no key.                                           *)
(***************************************************************************)
EXTENDS Naturals, Sequences, FiniteSets

CONSTANTS
    Chats,          \* chats, all created by Creator
    Users,          \* actors that log in
    Pages,          \* users that have the chat page open
    Characters,     \* actors that never log in, and so never get a key
    Creator,        \* the user who may change the participants
    Groups,         \* the sets of participants a chat may be created with
    Admins,         \* users who may open every chat
    FirstKeys,      \* the owners of the keys there are at the start
    Tasks,          \* requests the server handles at a time
    NoChat, NoActor, NoKey,
    MaxPosts,       \* bound: messages posted
    MaxChanges      \* bound: participants added or removed

Actors == Users \cup Characters
\* The keys of chats are derived from one actor key at least.
ChatKey == [chat : Chats, keys : (SUBSET (Nat \ {0})) \ {{}}]

ASSUME ActorsAssumption ==
    /\ Creator \in Users /\ Admins \subseteq Users /\ Pages \subseteq Users
    /\ Users \cap Characters = {}
    /\ NoKey \notin ChatKey
    /\ \A G \in Groups : G \subseteq Actors /\ Creator \in G
    /\ FirstKeys \in Seq(Users)
    /\ NoActor \notin Actors
    /\ NoChat \notin Chats
    /\ MaxPosts \in Nat /\ MaxChanges \in Nat

\* The server handles finitely many requests at a time.
ASSUME TasksFinite == IsFiniteSet(Tasks)

VARIABLES
    members,        \* chat_participants
    owner,          \* actor_keys: the actor of each row
    rows,           \* messages with a key_id
    task,           \* the requests under way
    active,         \* the page: activeChat
    key,            \* the page: _chatKey
    sending,        \* the page: what sendMessage encrypts with, while it does
    generating,     \* the page: isGenerating
    switched,       \* users who opened a second chat
    posts,          \* messages posted so far
    changes         \* participants added or removed so far

page == <<active, key, sending, generating, switched, posts>>
vars == <<members, owner, rows, task, active, key, sending, generating,
          switched, posts, changes>>

Sealed == ChatKey \cup {NoKey}      \* NoKey: plaintext

Idle == [op |-> "idle", at |-> "idle", actor |-> NoActor, chat |-> NoChat,
         body |-> NoKey, who |-> {}, keys |-> {}]

Task == [op : {"login", "post", "reply", "fetch"},
         at : {"look", "make", "members", "keys", "done"},
         actor : Users, chat : Chats \cup {NoChat}, body : Sealed,
         who : SUBSET Actors, keys : SUBSET (Nat \ {0})]

TypeOK ==
    /\ members \in [Chats -> SUBSET Actors]
    /\ owner \in Seq(Users)
    /\ rows \in Seq([chat : Chats, author : Pages \cup {NoActor}, seal : Sealed])
    /\ task \in [Tasks -> Task \cup {Idle}]
    /\ active \in [Pages -> Chats \cup {NoChat}]
    /\ key \in [Pages -> Sealed]
    /\ sending \in [Pages -> Sealed]
    /\ generating \in [Pages -> BOOLEAN]
    /\ switched \subseteq Pages
    /\ posts \in 0 .. MaxPosts
    /\ changes \in 0 .. MaxChanges

Init ==
    /\ members \in [Chats -> Groups]
    /\ owner = FirstKeys
    /\ rows = <<>>
    /\ task = [t \in Tasks |-> Idle]
    /\ active = [u \in Pages |-> NoChat]
    /\ key = [u \in Pages |-> NoKey]
    /\ sending = [u \in Pages |-> NoKey]
    /\ generating = [u \in Pages |-> FALSE]
    /\ switched = {}
    /\ posts = 0
    /\ changes = 0

-----------------------------------------------------------------------------
(* Keys.                                                                   *)

\* The active keys of a set of actors.
KeysOf(actors) == {k \in DOMAIN owner : owner[k] \in actors}
HasKey(a) == KeysOf({a}) # {}

\* The chat is not part of the derivation.
DeriveChatKey_NoSalt(c, keys) == [chat |-> CHOOSE d \in Chats : TRUE, keys |-> keys]

DeriveChatKey(c, keys) == [chat |-> c, keys |-> keys]

\* What a read of the message would return: the key is derived again from the
\* participants and keys of the moment; a plaintext with a key_id is malformed.
Readable(i) ==
    LET c == rows[i].chat
    IN  /\ KeysOf(members[c]) # {}
        /\ rows[i].seal = DeriveChatKey(c, KeysOf(members[c]))

\* assertChatAccess.
Allowed(u, c) == u = Creator \/ u \in Admins \/ u \in members[c]

-----------------------------------------------------------------------------
(* Requests.                                                               *)

Set(t, changed) == task' = [task EXCEPT ![t] = changed]
At(t, ops, at) == task[t].op \in ops /\ task[t].at = at

\* Login, once the session is stored.
Login(t, u) ==
    /\ task[t] = Idle
    /\ Set(t, [Idle EXCEPT !.op = "login", !.at = "look", !.actor = u])
    /\ UNCHANGED <<members, owner, rows, page, changes>>

\* ensureActorKey comes back.
Ensured(r) == IF r.op = "login" THEN Idle ELSE [r EXCEPT !.at = "members"]

\* A post does not look for a key of its own.
EnsureActorKey_Skipped(t) ==
    /\ At(t, {"login", "post"}, "look")
    /\ Set(t, IF task[t].op = "post" \/ HasKey(task[t].actor) THEN Ensured(task[t])
              ELSE [task[t] EXCEPT !.at = "make"])
    /\ UNCHANGED <<members, owner, rows, page, changes>>

\* ensureActorKey: the look for an active key.
EnsureActorKey(t) ==
    /\ At(t, {"login", "post"}, "look")
    /\ Set(t, IF HasKey(task[t].actor) THEN Ensured(task[t])
              ELSE [task[t] EXCEPT !.at = "make"])
    /\ UNCHANGED <<members, owner, rows, page, changes>>

\* generateActorKey, issued after the key material is encrypted.
GenerateActorKey(t) ==
    /\ At(t, {"login", "post"}, "make")
    /\ owner' = Append(owner, task[t].actor)
    /\ Set(t, Ensured(task[t]))
    /\ UNCHANGED <<members, rows, page, changes>>

\* getChatParticipantActorIds.
GetParticipants(t) ==
    /\ At(t, {"post", "reply", "fetch"}, "members")
    /\ Set(t, [task[t] EXCEPT !.at = "keys", !.who = members[task[t].chat]])
    /\ UNCHANGED <<members, owner, rows, page, changes>>

\* loadActorKeys, when it finds a key.
LoadActorKeys(t) ==
    /\ At(t, {"post", "reply", "fetch"}, "keys")
    /\ KeysOf(task[t].who) # {}
    /\ Set(t, [task[t] EXCEPT !.at = "done", !.who = {},
              !.keys = KeysOf(task[t].who)])
    /\ UNCHANGED <<members, owner, rows, page, changes>>

\* deriveChatKey throws: the post gets an error, the reply is given up, the
\* page drops the key it had.
NoKeys(t) ==
    /\ At(t, {"post", "reply", "fetch"}, "keys")
    /\ KeysOf(task[t].who) = {}
    /\ Set(t, Idle)
    /\ generating' = IF task[t].op = "post"
                     THEN [generating EXCEPT ![task[t].actor] = FALSE]
                     ELSE generating
    /\ key' = IF task[t].op = "fetch" THEN [key EXCEPT ![task[t].actor] = NoKey]
              ELSE key
    /\ UNCHANGED <<members, owner, rows, active, sending, switched, posts, changes>>

\* The key the message of a request is stored under.
SealOf(r) == IF r.body # NoKey THEN r.body ELSE DeriveChatKey(r.chat, r.keys)

\* The insert of a message; a post starts the automatic reply.
Store(t) ==
    /\ At(t, {"post", "reply"}, "done")
    /\ LET r == task[t]
       IN  /\ rows' = Append(rows,
                [chat |-> r.chat, seal |-> SealOf(r),
                 author |-> IF r.op = "post" THEN r.actor ELSE NoActor])
           /\ Set(t, IF r.op = "reply" THEN Idle
                     ELSE [r EXCEPT !.op = "reply", !.at = "members",
                           !.body = NoKey, !.keys = {}])
    /\ UNCHANGED <<members, owner, page, changes>>

\* The page takes the key of its request, whatever chat it shows by then.
KeyArrives(t) ==
    /\ At(t, {"fetch"}, "done")
    /\ key' = [key EXCEPT ![task[t].actor] =
                   DeriveChatKey(task[t].chat, task[t].keys)]
    /\ Set(t, Idle)
    /\ UNCHANGED <<members, owner, rows, active, sending, generating, switched,
                   posts, changes>>

-----------------------------------------------------------------------------
(* The page of a user.                                                     *)

\* selectChat, of a chat in the user's list; the request for the key follows
\* those for the messages, and the last chat's key stays in use meanwhile.
SelectChat(t, u, c) ==
    /\ task[t] = Idle /\ ~generating[u]
    /\ c # active[u] /\ Allowed(u, c)
    /\ Set(t, [Idle EXCEPT !.op = "fetch", !.at = "members", !.actor = u, !.chat = c])
    /\ active' = [active EXCEPT ![u] = c]
    /\ switched' = IF active[u] = NoChat THEN switched ELSE switched \cup {u}
    /\ UNCHANGED <<members, owner, rows, key, sending, generating, posts, changes>>

\* POST /api/chats/:id/messages by user u, to the chat the page shows now.  A
\* message that comes sealed is stored as it is.
Post(t, u, body) ==
    /\ task[t] = Idle /\ posts < MaxPosts
    /\ posts' = posts + 1
    /\ IF Allowed(u, active[u])
       THEN /\ Set(t, [Idle EXCEPT !.op = "post", !.actor = u, !.chat = active[u],
                       !.body = body, !.at = IF body = NoKey THEN "look" ELSE "done"])
            /\ generating' = [generating EXCEPT ![u] = TRUE]
       ELSE /\ generating' = [generating EXCEPT ![u] = FALSE]
            /\ UNCHANGED task

\* sendMessage without a key: the request leaves at once.
SendPlain(t, u) ==
    /\ active[u] # NoChat /\ key[u] = NoKey
    /\ Post(t, u, NoKey)
    /\ UNCHANGED <<members, owner, rows, active, key, sending, switched, changes>>

\* sendMessage with a key: the browser encrypts (one message at a time).
SendSealed(u) ==
    /\ active[u] # NoChat /\ key[u] # NoKey /\ sending[u] = NoKey
    /\ sending' = [sending EXCEPT ![u] = key[u]]
    /\ UNCHANGED <<members, owner, rows, task, active, key, generating,
                   switched, posts, changes>>

\* ... and posts what it encrypted to the chat it shows then.
PostSealed(t, u) ==
    /\ sending[u] # NoKey
    /\ Post(t, u, sending[u])
    /\ sending' = [sending EXCEPT ![u] = NoKey]
    /\ UNCHANGED <<members, owner, rows, active, key, switched, changes>>

\* The post was answered and the stream of the reply has ended.
GenerationOver(u) ==
    /\ generating[u]
    /\ \A t \in Tasks : ~(task[t].op = "post" /\ task[t].actor = u)
    /\ generating' = [generating EXCEPT ![u] = FALSE]
    /\ UNCHANGED <<members, owner, rows, task, active, key, sending, switched,
                   posts, changes>>

-----------------------------------------------------------------------------
(* Participants and edits.                                                 *)

Change(c, S) ==
    /\ changes < MaxChanges
    /\ members' = [members EXCEPT ![c] = S]
    /\ changes' = changes + 1
    /\ UNCHANGED <<owner, rows, task, page>>

Join(c, a) == a \notin members[c] /\ Change(c, members[c] \cup {a})
Leave(c, a) == a \in members[c] /\ Change(c, members[c] \ {a})

\* PATCH /api/messages/:id, by the author or an admin, stores the new text as it
\* comes and leaves key_id.
Edit(i) ==
    /\ rows[i].author # NoActor
    /\ \E u \in {rows[i].author} \cup Admins : Allowed(u, rows[i].chat)
    /\ rows' = [rows EXCEPT ![i].seal = NoKey]
    /\ UNCHANGED <<members, owner, task, page, changes>>

-----------------------------------------------------------------------------
Next ==
    \/ \E t \in Tasks :
          \/ EnsureActorKey(t) \/ GenerateActorKey(t) \/ GetParticipants(t)
          \/ LoadActorKeys(t) \/ NoKeys(t) \/ Store(t) \/ KeyArrives(t)
          \/ \E u \in Users : Login(t, u)
          \/ \E u \in Pages :
                \/ SendPlain(t, u) \/ PostSealed(t, u)
                \/ \E c \in Chats : SelectChat(t, u, c)
    \/ \E u \in Pages : SendSealed(u) \/ GenerationOver(u)
    \/ \E c \in Chats, a \in Actors : Join(c, a) \/ Leave(c, a)
    \/ \E i \in DOMAIN rows : Edit(i)

Spec == Init /\ [][Next]_vars

-----------------------------------------------------------------------------
(* Properties.                                                             *)

\* A participant who posts finds a key to derive from, in a chat where nobody
\* ever logged in and however participants come and go: ensureActorKey before
\* deriveChatKeyForChat (messages.ts:596-597) is enough.
MemberCanPost ==
    \A t \in Tasks :
        /\ At(t, {"post"}, "keys") /\ task[t].actor \in task[t].who
        => KeysOf(task[t].who) # {}

Makers(u) == {t \in Tasks : task[t].at = "make" /\ task[t].actor = u}

\* ensureActorKey() auto-creates a key if one is missing, race-safe
\* (docs/spec/crypto.md:32): an actor never has two active keys.  The code looks
\* and then inserts (actor-keys.ts:133-142), and no index of the table refuses
\* the second row.
OneKeyPerActor == \A u \in Users : Cardinality(KeysOf({u})) <= 1

\* How far that goes: an actor's keys and the requests about to make one never
\* outnumber the requests handled at a time, however often it logs in and posts.
KeysBounded ==
    \A u \in Users :
        Cardinality(KeysOf({u})) + Cardinality(Makers(u)) <= Cardinality(Tasks)

\* An actor without a key, such as every character, may join or leave a chat
\* without making a stored message unreadable or readable.
KeylessActorsNeutral ==
    [][\A c \in Chats :
          LET moved == (members[c] \ members'[c]) \cup (members'[c] \ members[c])
          IN  moved # {} /\ KeysOf(moved) = {}
              => \A i \in DOMAIN rows : Readable(i) <=> Readable(i)']_vars

\* A message is stored under the key of another chat only by a page that went
\* from one chat to another: the server never mixes keys of chats.
ForeignKeyOnlyAfterSwitch ==
    \A i \in DOMAIN rows :
        /\ rows[i].seal # NoKey /\ rows[i].seal.chat # rows[i].chat
        => rows[i].author \in switched
=============================================================================
