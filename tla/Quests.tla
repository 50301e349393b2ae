------------------------------- MODULE Quests -------------------------------
(***************************************************************************)
(* The quests of a world and their progress in its chats                   *)
(* (src/story/quest-engine.ts and src/routes/quests.ts).                   *)
(*                                                                         *)
(* A request is a handler of the server, a step the code between two of    *)
(* its statements; nothing is in a transaction.  The routes build their    *)
(* engine without the services for items and world states, so the only     *)
(* reward that changes anything is the unlocking of abandoned quests.      *)
(* processEvent, fail and checkTimeQuests have no caller.                  *)
(***************************************************************************)
EXTENDS Integers, Sequences

CONSTANTS
    QuestIds,           \* quests
    QuestChats,         \* chats that report progress
    NoSuchChat,         \* a chat that does not exist
    Unlocks,            \* per quest, the quests its rewards unlock, in order
    Target,             \* progress that completes a quest
    Deltas,             \* progress reported at a time
    MaxQuestRequests    \* bound: requests

ASSUME QuestAssumption ==
    /\ Unlocks \in [QuestIds -> Seq(QuestIds)] /\ NoSuchChat \notin QuestChats
    /\ Target \in Int \ {0} /\ Deltas \subseteq Int \ {0} /\ MaxQuestRequests \in Nat

VARIABLES
    quests,         \* rows of "quests"
    progressRows,   \* rows of "quest_progress"
    questRequests,  \* the requests
    contested,      \* history: quests for which a report was read while
                    \* another one was on its way
    latest,         \* history: per quest the row its latest recorded report
                    \* wrote, or 0
    unrecorded      \* history: quests that a report has advanced without
                    \* writing a row, and none since

questVars == <<quests, progressRows, questRequests, contested, latest, unrecorded>>

QuestStatus == {"active", "completed", "abandoned"}
NamedChats == QuestChats \cup {NoSuchChat}
ProgressRow ==
    [quest : QuestIds, chat : QuestChats, progress : Int,
     status : {"active", "completed", "ignored"}]

Finished == [step |-> "finished"]
QuestRequest ==
    {Finished}
    \cup [step : {"quest"}, quest : QuestIds, chat : NamedChats, read : Int, delta : Deltas]
    \cup [step : {"look"}, quest : QuestIds, chat : NamedChats, progress : Int]
    \cup [step : {"record"}, quest : QuestIds, chat : NamedChats, progress : Int, row : Nat]
    \cup [step : {"unlock"}, quest : QuestIds, left : Seq(QuestIds)]
    \cup [step : {"ignore"}, quest : QuestIds]

QuestsTypeOK ==
    /\ quests \in [QuestIds -> [status : QuestStatus, progress : Int]]
    /\ progressRows \in Seq(ProgressRow)
    /\ questRequests \in Seq(QuestRequest)
    /\ contested \in SUBSET QuestIds
    /\ latest \in [QuestIds -> Nat]
    /\ unrecorded \in SUBSET QuestIds

\* createQuest inserts a row; the quests of the instance exist from the start.
QuestsInit ==
    /\ quests = [q \in QuestIds |-> [status |-> "active", progress |-> 0]]
    /\ progressRows = <<>>
    /\ questRequests = <<>>
    /\ contested = {}
    /\ latest = [q \in QuestIds |-> 0]
    /\ unrecorded = {}

-----------------------------------------------------------------------------
AdmitQuest(request) ==
    /\ Len(questRequests) < MaxQuestRequests
    /\ questRequests' = Append(questRequests, request)

Resume(r, request) == questRequests' = [questRequests EXCEPT ![r] = request]

\* Reports on quest q that have been read and not recorded yet.
Reporting(q) ==
    {r \in DOMAIN questRequests :
        questRequests[r].step \in {"quest", "look", "record"} /\ questRequests[r].quest = q}

\* POST /progress: the quest is read, whatever its status; the chat is taken from
\* the body as it comes.
ReadQuest(q, chat, delta) ==
    /\ AdmitQuest([step |-> "quest", quest |-> q, chat |-> chat,
                   read |-> quests[q].progress, delta |-> delta])
    /\ contested' = IF Reporting(q) = {} THEN contested ELSE contested \cup {q}
    /\ UNCHANGED <<quests, progressRows, latest, unrecorded>>

Completes(progress) == progress >= Target

Capped(progress) == IF progress <= Target THEN progress ELSE Target

\* applyProgress: the quest is written; completion also writes its status.
WriteQuest(r) ==
    LET c == questRequests[r]
        progress == Capped(c.read + c.delta)
    IN
    /\ c.step = "quest"
    /\ quests' = [quests EXCEPT ![c.quest] =
           [status |-> IF Completes(progress) THEN "completed" ELSE @.status,
            progress |-> progress]]
    /\ Resume(r, [step |-> "look", quest |-> c.quest, chat |-> c.chat, progress |-> progress])
    /\ UNCHANGED <<progressRows, contested, latest, unrecorded>>

\* The row of an abandoned quest is not found again.
RowsOf_Kept(q, chat) ==
    {i \in DOMAIN progressRows :
        /\ progressRows[i].quest = q /\ progressRows[i].chat = chat
        /\ progressRows[i].status # "ignored"}

RowsOf(q, chat) ==
    {i \in DOMAIN progressRows : progressRows[i].quest = q /\ progressRows[i].chat = chat}

\* The chat's row is looked for.
LookForRow(r) ==
    LET c == questRequests[r]
        found == RowsOf(c.quest, c.chat)
    IN
    /\ c.step = "look"
    /\ \E i \in IF found = {} THEN {0} ELSE found :
           Resume(r, [step |-> "record", quest |-> c.quest, chat |-> c.chat,
                      progress |-> c.progress, row |-> i])
    /\ UNCHANGED <<quests, progressRows, contested, latest, unrecorded>>

\* The chat's row is written or inserted; a completed quest goes on with its
\* rewards.
RecordProgress(r) ==
    LET c == questRequests[r]
        row == [quest |-> c.quest, chat |-> c.chat, progress |-> c.progress,
                status |-> IF Completes(c.progress) THEN "completed" ELSE "active"]
    IN
    /\ c.step = "record"
    /\ c.row = 0 => c.chat \in QuestChats
    /\ progressRows' =
           IF c.row = 0 THEN Append(progressRows, row)
           ELSE [progressRows EXCEPT ![c.row].progress = row.progress, ![c.row].status = row.status]
    /\ latest' = [latest EXCEPT ![c.quest] = IF c.row = 0 THEN Len(progressRows') ELSE c.row]
    /\ unrecorded' = unrecorded \ {c.quest}
    /\ Resume(r, IF Completes(c.progress) /\ Unlocks[c.quest] # <<>>
                 THEN [step |-> "unlock", quest |-> c.quest, left |-> Unlocks[c.quest]]
                 ELSE Finished)
    /\ UNCHANGED <<quests, contested>>

\* The row of a chat that does not exist is refused, after the quest was written;
\* and the database may refuse any statement, or the process stop before it.
BreakQuest(r) ==
    LET c == questRequests[r] IN
    /\ c.step # "finished"
    /\ Resume(r, Finished)
    /\ unrecorded' = IF c.step \in {"look", "record"} THEN unrecorded \cup {c.quest}
                     ELSE unrecorded
    /\ UNCHANGED <<quests, progressRows, contested, latest>>

\* A reward revives whatever ended.
Unlocked_Any(status) == "active"

\* Only an abandoned quest is revived, in the statement that looks at it.
Unlocked(status) == IF status = "abandoned" THEN "active" ELSE status

\* distributeRewards: the quests it names, one statement each.
UnlockQuest(r) ==
    LET c == questRequests[r] IN
    /\ c.step = "unlock"
    /\ quests' = [quests EXCEPT ![Head(c.left)].status = Unlocked(@)]
    /\ Resume(r, IF Len(c.left) > 1 THEN [c EXCEPT !.left = Tail(@)] ELSE Finished)
    /\ UNCHANGED <<progressRows, contested, latest, unrecorded>>

\* DELETE /quests/:id: the quest is abandoned, whatever its status, ...
Abandon(q) ==
    /\ AdmitQuest([step |-> "ignore", quest |-> q])
    /\ quests' = [quests EXCEPT ![q].status = "abandoned"]
    /\ UNCHANGED <<progressRows, contested, latest, unrecorded>>

\* ... and then its rows.
IgnoreProgress(r) ==
    LET c == questRequests[r] IN
    /\ c.step = "ignore"
    /\ progressRows' = [i \in DOMAIN progressRows |->
           IF progressRows[i].quest = c.quest
           THEN [progressRows[i] EXCEPT !.status = "ignored"] ELSE progressRows[i]]
    /\ Resume(r, Finished)
    /\ UNCHANGED <<quests, contested, latest, unrecorded>>

QuestsNext ==
    \/ \E q \in QuestIds, chat \in NamedChats, delta \in Deltas : ReadQuest(q, chat, delta)
    \/ \E q \in QuestIds : Abandon(q)
    \/ \E r \in DOMAIN questRequests :
           \/ WriteQuest(r) \/ LookForRow(r) \/ RecordProgress(r)
           \/ UnlockQuest(r) \/ IgnoreProgress(r) \/ BreakQuest(r)

QuestsSpec == QuestsInit /\ [][QuestsNext]_questVars

-----------------------------------------------------------------------------
(* Properties.                                                             *)

\* When the reports on a quest came one after another and none is on its way, each
\* chat has at most one row of it, abandoned or not, and the quest stands where the
\* report that was recorded last left the row of its chat; a report that broke off
\* after it wrote the quest leaves it elsewhere, until the next one is recorded.
QuestsAgree ==
    \A q \in QuestIds \ contested : Reporting(q) = {} =>
        /\ \A i, j \in DOMAIN progressRows :
              /\ progressRows[i].quest = q /\ progressRows[j].quest = q
              /\ progressRows[i].chat = progressRows[j].chat
              => i = j
        /\ q \notin unrecorded =>
              quests[q].progress = IF latest[q] = 0 THEN 0 ELSE progressRows[latest[q]].progress

\* Rewards of one quest never take a completed quest out of its status, however
\* they cross with reports and abandonments of it: only DELETE does.
RewardsKeepCompleted ==
    [][\A q \in QuestIds :
          quests[q].status = "completed" /\ quests'[q].status # "completed" =>
              quests'[q].status = "abandoned" /\ Len(questRequests') > Len(questRequests)]_questVars
=============================================================================
