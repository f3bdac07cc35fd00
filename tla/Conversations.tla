----------------------------- MODULE Conversations -----------------------------
(* The conversations of the core (core/conversation/service.go, store.go): the  *)
(* rows in SQLite, the active conversation the service keeps in memory beside   *)
(* them, and the answers that are streamed into them.  Every function holds the *)
(* service's lock around one transaction, so it is one step here; a request for *)
(* an answer holds it once to begin, once for every delta and once to end.      *)
(* A text is the number of deltas it is made of; the user's own messages follow *)
(* the same writes as the answers and are not kept here.                        *)
EXTENDS Integers, FiniteSets

CONSTANTS Conv, Msg, Asks,   \* conversations, answers, requests for an answer
          Null,
          MaxDeltas,         \* bound: deltas of one answer
          MaxConvOps, MaxFails \* bounds: operations, statements that fail

ASSUME ConversationsAssumption == Null \notin Conv \cup Msg /\ MaxDeltas \in Nat

VARIABLES rows,      \* table conversations: title and session, or no row
          answers,   \* table conversation_messages: the assistant's answers
          marked,    \* conversation_state: the active conversation
          cache,     \* s.active and s.state.Messages
          asks,      \* requests for an answer under way
          convOps, fails,
          lost,      \* ghost: answers of which a delta could not be written
          abandoned, \* ghost: answers whose end could not be written
          crossed    \* ghost: conversations given the session of another

convGhosts == <<lost, abandoned, crossed>>
convVars == <<rows, answers, marked, cache, asks, convOps, fails, convGhosts>>
convTables == <<rows, answers, marked>>

NoRow == [there |-> FALSE, title |-> "", prefs |-> 0, archived |-> FALSE, session |-> Null]
NewRow == [NoRow EXCEPT !.there = TRUE]
NoAnswer == [conv |-> Null, text |-> 0, status |-> "none"]
NoAsk == [kind |-> "none", at |-> "rest", conv |-> Null, msg |-> Null,
          session |-> Null, got |-> 0, error |-> FALSE]

(* Texts the service writes itself: the final one, and a notice or an error.    *)
Full == MaxDeltas + 1
Notice == MaxDeltas + 2

There(r) == {c \in Conv : r[c].there}

(* New identifiers are random: which of the unused ones is taken is all the same. *)
OneOf(S) == {x \in S : x = CHOOSE y \in S : TRUE}
Unused == OneOf({c \in Conv : /\ ~rows[c].there /\ \A m \in Msg : answers[m].conv # c
                              /\ \A a \in Asks : asks[a].conv # c})
Fresh == OneOf({m \in Msg : answers[m] = NoAnswer})
OfConv(a, c) == {m \in Msg : a[m].conv = c}

(* loadConversationStateTx: the record and the messages of a conversation.      *)
Loaded(r, a, c) == [id |-> c, record |-> r[c], texts |-> [m \in OfConv(a, c) |-> a[m]]]
(* The cache after a write to conversation c, of which it may be the active one. *)
Refreshed(r, a, c) == IF cache.id = c THEN Loaded(r, a, c) ELSE cache

(* load, on an empty database and after a restart.                              *)
ConvInit ==
    /\ \E c \in OneOf(Conv) : rows = [d \in Conv |-> IF d = c THEN NewRow ELSE NoRow] /\ marked = c
    /\ answers = [m \in Msg |-> NoAnswer]
    /\ cache = Loaded(rows, answers, marked)
    /\ asks = [a \in Asks |-> NoAsk]
    /\ convOps = 0 /\ fails = 0 /\ lost = {} /\ abandoned = {} /\ crossed = {}

--------------------------------------------------------------------------------
(* The operations on conversations.  One whose transaction fails returns its     *)
(* error and leaves rows and cache as they were.                                 *)
Operation == convOps < MaxConvOps /\ convOps' = convOps + 1 /\ UNCHANGED <<answers, asks, fails, convGhosts>>

Rows(r, active, c) == rows' = r /\ marked' = active /\ cache' = c

CreateConversation ==
    /\ Operation
    /\ \E c \in Unused :
          LET r == [rows EXCEPT ![c] = NewRow] IN Rows(r, c, Loaded(r, answers, c))

RenameConversation(c) ==
    /\ Operation /\ rows[c].there
    /\ LET r == [rows EXCEPT ![c].title = "given"] IN Rows(r, marked, Refreshed(r, answers, c))

UpdateConversationContextPreferences(c) ==
    /\ Operation /\ rows[c].there
    /\ LET r == [rows EXCEPT ![c].prefs = 1] IN Rows(r, marked, Refreshed(r, answers, c))

(* The conversation that becomes active when the active one goes: an unarchived  *)
(* one before any other, and a new one if there is none.                         *)
nextConversationCandidate(c, archivedToo) ==
    LET others == There(rows) \ {c}
        recent == {d \in others : ~rows[d].archived}
    IN IF recent # {} THEN recent ELSE IF archivedToo /\ others # {} THEN others ELSE Unused

Replaced(r, c, archivedToo) ==
    \E next \in nextConversationCandidate(c, archivedToo) :
        LET s == IF r[next].there THEN r ELSE [r EXCEPT ![next] = NewRow]
        IN Rows(s, next, Loaded(s, answers, next))

(* No pragma turns foreign keys on, so the messages of the conversation stay.    *)
DeleteConversation(c) ==
    /\ Operation /\ rows[c].there
    /\ LET r == [rows EXCEPT ![c] = NoRow]
       IN IF cache.id = c THEN Replaced(r, c, TRUE) ELSE Rows(r, marked, cache)

ArchiveConversation(c) ==
    /\ Operation /\ rows[c].there /\ ~rows[c].archived
    /\ LET r == [rows EXCEPT ![c].archived = TRUE]
       IN IF cache.id = c THEN Replaced(r, c, FALSE) ELSE Rows(r, marked, cache)

RestoreConversation(c) ==
    /\ Operation /\ rows[c].there /\ rows[c].archived
    /\ LET r == [rows EXCEPT ![c].archived = FALSE] IN Rows(r, marked, Refreshed(r, answers, c))

ActivateConversation(c) ==
    /\ Operation /\ rows[c].there
    /\ Rows(rows, c, Loaded(rows, answers, c))

--------------------------------------------------------------------------------
(* Requests for an answer.  The active conversation is read first, and written   *)
(* to under the lock afterwards.                                                 *)
Ask(a, kind, label) ==
    /\ a \in OneOf({b \in Asks : asks[b] = NoAsk})
    /\ asks' = [asks EXCEPT ![a] = [NoAsk EXCEPT !.kind = kind, !.at = label, !.conv = cache.id]]
    /\ UNCHANGED <<convTables, cache, convOps, fails, convGhosts>>

SubmitStreamWithProvider(a) == Ask(a, "stream", "append")
SubmitWithProvider(a) == Ask(a, "submit", "append")
AppendAssistantPromptWithProvider(a) == Ask(a, "prompt", "running")
AppendMessages(a) == Ask(a, "messages", "append")

Over == [NoAsk EXCEPT !.at = "over"]
Ended(a) == asks' = [asks EXCEPT ![a] = Over]
Answer(c, text, status) == [conv |-> c, text |-> text, status |-> status]

(* A user's message names a conversation that has no title.  AppendMessages may   *)
(* come without one.                                                             *)
Titled(ask) ==
    LET named == [rows EXCEPT ![ask.conv].title = IF @ = "" THEN "asked" ELSE @]
    IN {named} \cup IF ask.kind = "messages" THEN {rows} ELSE {}

(* A stream writes its empty answer with the user's message, AppendMessages what *)
(* it was given; a submit writes the user's message only.                        *)
Appended(a) ==
    LET ask == asks[a]
        running(m) == [ask EXCEPT !.at = "running", !.msg = m, !.session = rows[ask.conv].session]
    IN CASE ask.kind = "stream" ->
              \E m \in Fresh : /\ answers' = [answers EXCEPT ![m] = Answer(ask.conv, 0, "streaming")]
                               /\ asks' = [asks EXCEPT ![a] = running(m)]
         [] ask.kind = "messages" ->
              \E m \in Fresh : /\ answers' = [answers EXCEPT ![m] = Answer(ask.conv, Full, "complete")]
                               /\ Ended(a)
         [] OTHER -> asks' = [asks EXCEPT ![a] = running(Null)] /\ UNCHANGED answers

(* The conversation may be gone by now.                                          *)
appendMessagesForConversation(a) ==
    LET c == asks[a].conv IN
    /\ asks[a].at = "append"
    /\ IF rows[c].there THEN rows' \in Titled(asks[a]) /\ Appended(a)
       ELSE Ended(a) /\ UNCHANGED <<rows, answers>>
    /\ cache' = Refreshed(rows', answers', c)
    /\ UNCHANGED <<marked, convOps, fails, convGhosts>>

InCache(ask) == cache.id = ask.conv /\ ask.msg \in DOMAIN cache.texts
Text(ask) == IF InCache(ask) THEN cache.texts[ask.msg].text ELSE answers[ask.msg].text
Grown(ask) == IF InCache(ask) THEN [cache EXCEPT !.texts[ask.msg].text = @ + 1] ELSE cache
Delivers(a) == asks[a].at = "running" /\ asks[a].kind = "stream" /\ ~asks[a].error /\ asks[a].got < MaxDeltas

(* Variant: the cached message is not extended. *)
appendAssistantDeltaToRow(a) ==
    /\ Delivers(a)
    /\ answers' = [answers EXCEPT ![asks[a].msg].text = Text(asks[a]) + 1]
    /\ asks' = [asks EXCEPT ![a].got = @ + 1]
    /\ UNCHANGED <<rows, marked, cache, convOps, fails, convGhosts>>

(* The text grows where it is cached and is written out; an answer of another    *)
(* conversation is read from its row first.                                      *)
appendAssistantDelta(a) ==
    /\ Delivers(a)
    /\ answers' = [answers EXCEPT ![asks[a].msg].text = Text(asks[a]) + 1]
    /\ cache' = Grown(asks[a])
    /\ asks' = [asks EXCEPT ![a].got = @ + 1]
    /\ UNCHANGED <<rows, marked, convOps, fails, convGhosts>>

(* The write of the delta fails, after the text has grown if it is cached.       *)
DeltaFails(a) ==
    /\ Delivers(a) /\ fails < MaxFails /\ fails' = fails + 1
    /\ cache' = Grown(asks[a])
    /\ lost' = IF InCache(asks[a]) THEN lost \cup {asks[a].msg} ELSE lost
    /\ asks' = [asks EXCEPT ![a].error = TRUE]
    /\ UNCHANGED <<convTables, convOps, abandoned, crossed>>

(* The provider fails, the request is cancelled, or the client is gone.          *)
ProviderFails(a) ==
    /\ asks[a].at = "running" /\ ~asks[a].error
    /\ asks' = [asks EXCEPT ![a].error = TRUE]
    /\ UNCHANGED <<convTables, cache, convOps, fails, convGhosts>>

(* The session the provider returns, the one it was given or a new one; if it    *)
(* returns none, that of the ACTIVE conversation, unless it is another           *)
(* provider's.  A prompt of the assistant's own always keeps the active one's.   *)
nextProviderSessionState(ask) ==
    {cache.record.session} \cup IF ask.kind = "prompt" THEN {} ELSE {Null, ask.conv, ask.session}

(* The provider's whole answer; without one, what was streamed, or a notice.     *)
finalTexts(ask) ==
    LET text == IF ask.kind = "stream" THEN Text(ask) ELSE 0
    IN {IF text = 0 THEN Notice ELSE text} \cup IF ask.error THEN {} ELSE {Full}

(* finalizeAssistantStreamResult and appendAssistantResult.                      *)
persistAssistantFinalization(a) ==
    LET ask == asks[a] IN
    /\ ask.at = "running" /\ rows[ask.conv].there
    /\ \E session \in nextProviderSessionState(ask), text \in finalTexts(ask),
          m \in IF ask.kind = "stream" THEN {ask.msg} ELSE Fresh :
         /\ rows' = [rows EXCEPT ![ask.conv].session = session]
         /\ answers' = [answers EXCEPT ![m] =
                          Answer(ask.conv, text, IF ask.error THEN "error" ELSE "complete")]
         /\ crossed' = IF cache.id # ask.conv /\ session = cache.record.session /\ session \notin {Null, ask.conv}
                       THEN crossed \cup {ask.conv} ELSE crossed
    /\ cache' = Refreshed(rows', answers', ask.conv)
    /\ Ended(a) /\ UNCHANGED <<marked, convOps, fails, lost, abandoned>>

(* The conversation is gone, or the transaction fails: the answer stays as it is. *)
FinalizationFails(a) ==
    /\ asks[a].at = "running"
    /\ \/ ~rows[asks[a].conv].there /\ UNCHANGED <<fails, abandoned>>
       \/ fails < MaxFails /\ fails' = fails + 1 /\ abandoned' = abandoned \cup {asks[a].msg}
    /\ Ended(a) /\ UNCHANGED <<convTables, cache, convOps, lost, crossed>>

(* The core stops and loads what it stored.                                      *)
RestartCore ==
    /\ fails < MaxFails /\ fails' = fails + 1
    /\ cache' = Loaded(rows, answers, marked)
    /\ abandoned' = abandoned \cup {asks[a].msg : a \in Asks}
    /\ asks' = [a \in Asks |-> IF asks[a] = NoAsk THEN NoAsk ELSE Over]
    /\ UNCHANGED <<convTables, convOps, lost, crossed>>

ConvNext ==
    \/ CreateConversation
    \/ \E c \in Conv :
          \/ RenameConversation(c) \/ UpdateConversationContextPreferences(c) \/ DeleteConversation(c)
          \/ ArchiveConversation(c) \/ RestoreConversation(c) \/ ActivateConversation(c)
    \/ \E a \in Asks :
          \/ SubmitStreamWithProvider(a) \/ SubmitWithProvider(a) \/ AppendAssistantPromptWithProvider(a)
          \/ AppendMessages(a) \/ appendMessagesForConversation(a) \/ appendAssistantDelta(a) \/ DeltaFails(a)
          \/ ProviderFails(a) \/ persistAssistantFinalization(a) \/ FinalizationFails(a)
    \/ RestartCore

ConvSpec == ConvInit /\ [][ConvNext]_convVars

--------------------------------------------------------------------------------
(* The conversation in memory is the stored active one, record and answers,      *)
(* after every operation, whichever conversation it was about; only the text of  *)
(* an answer whose last delta could not be written may be ahead, by that delta.  *)
CacheIsStored ==
    /\ cache.id = marked /\ rows[marked].there /\ cache.record = rows[marked]
    /\ DOMAIN cache.texts = OfConv(answers, marked)
    /\ \A m \in DOMAIN cache.texts :
          \/ cache.texts[m] = answers[m]
          \/ m \in lost /\ cache.texts[m] = [answers[m] EXCEPT !.text = @ + 1]

(* No delta of a stream is lost or written twice, also when its conversation is  *)
(* left, entered again, archived or deleted while it is streamed.                *)
StreamsAreKept ==
    \A a \in Asks : asks[a].kind = "stream" /\ asks[a].at = "running" =>
        /\ answers[asks[a].msg].text = asks[a].got
        /\ Text(asks[a]) \in {asks[a].got} \cup {n \in {asks[a].got + 1} : asks[a].msg \in lost}

(* An answer that is shown as streaming is being streamed, or its conversation   *)
(* is gone, or its end could not be written.                                     *)
StreamsEnd ==
    \A m \in Msg : answers[m].status = "streaming" =>
        \/ \E a \in Asks : asks[a].msg = m
        \/ ~rows[answers[m].conv].there \/ m \in abandoned

(* A conversation goes on in the provider session that was opened for it, unless *)
(* an answer without a session ended in it while another one was active.         *)
SessionIsOwn == \A c \in Conv : rows[c].session \in {Null, c} \/ c \in crossed

ConversationsAreSound == CacheIsStored /\ StreamsAreKept /\ StreamsEnd /\ SessionIsOwn
================================================================================
