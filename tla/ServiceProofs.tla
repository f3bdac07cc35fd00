---------------------------- MODULE ServiceProofs ----------------------------
(***************************************************************************)
(* Proofs about two services of the core that keep state behind a lock and *)
(* do their slow work outside it.                                          *)
(*                                                                         *)
(* Conversations, for any conversations, answers, requests, operations and *)
(* failures: the conversation in memory is the stored one, streams lose    *)
(* nothing and end, and provider sessions are not mixed up.  A stream that *)
(* runs owns the row of its answer: no other request has it, and the row   *)
(* holds as many deltas as the stream has delivered.  A delta that cannot  *)
(* be written ends the stream, so the text a delta is added to in memory   *)
(* is never ahead of its row.                                              *)
(*                                                                         *)
(* TerminalSessions, for any number of requests: sessions are listed as    *)
(* they are, launched once, and none of their shells is lost.  A request   *)
(* that launches is the one the map of launches names, and what it is      *)
(* going to install cannot have been installed by another (LaunchInv).     *)
(***************************************************************************)
EXTENDS Conversations, TerminalSessions, TLAPS

RowField == {"there", "title", "prefs", "archived", "session"}
AnswerField == {"conv", "text", "status"}
AskField == {"kind", "at", "conv", "msg", "session", "got", "error"}
CacheField == {"id", "record", "texts"}

RowsOK(r) == r = [c \in Conv |-> r[c]] /\ \A c \in Conv : r[c] = [f \in RowField |-> r[c][f]]

(* A row of an answer belongs to a conversation or is not used.            *)
AnswerOK(x) ==
    /\ x = [f \in AnswerField |-> x[f]]
    /\ x.text \in Nat /\ (x.conv \in Conv \/ x = NoAnswer)

AnswersOK(as) == as = [m \in Msg |-> as[m]] /\ \A m \in Msg : AnswerOK(as[m])

(* A request has an answer of its own only while it streams.               *)
AskOK(k) ==
    /\ k = [f \in AskField |-> k[f]]
    /\ k.at \in {"append", "running"} => k.conv \in Conv
    /\ k.at = "append" => k.got = 0
    /\ k.msg # Null => k.kind = "stream" /\ k.at = "running"

(* What a stream has delivered is in the row of its answer.                *)
StreamOK(as, lo, k) ==
    k.kind = "stream" /\ k.at = "running" =>
        /\ k.msg \in Msg /\ k.got \in Nat
        /\ as[k.msg].conv = k.conv /\ as[k.msg].status = "streaming" /\ as[k.msg].text = k.got
        /\ k.msg \in lo => k.error

Own(s, c, cr) == s \in {Null, c} \/ c \in cr

AsksOK(ks, as, lo, cr) ==
    /\ ks = [a \in Asks |-> ks[a]]
    /\ \A a \in Asks : AskOK(ks[a]) /\ StreamOK(as, lo, ks[a]) /\ Own(ks[a].session, ks[a].conv, cr)
    /\ \A a, b \in Asks : ks[a].msg = ks[b].msg /\ ks[a].msg # Null => a = b

(* c is the conversation mk as it is stored.                               *)
Cached(c, r, as, mk, lo) ==
    /\ c = [f \in CacheField |-> c[f]]
    /\ mk \in Conv /\ c.id = mk /\ r[mk].there /\ c.record = r[mk]
    /\ c.texts = [m \in OfConv(as, mk) |-> c.texts[m]]
    /\ \A m \in OfConv(as, mk) : c.texts[m] = as[m] \/ (m \in lo /\ c.texts[m] = [as[m] EXCEPT !.text = @ + 1])

LostOK(as, lo) == \A m \in lo : m \in Msg /\ as[m] # NoAnswer

ConvInv ==
    /\ RowsOK(rows) /\ AnswersOK(answers) /\ AsksOK(asks, answers, lost, crossed)
    /\ Cached(cache, rows, answers, marked, lost) /\ LostOK(answers, lost)
    /\ StreamsEnd /\ SessionIsOwn

-----------------------------------------------------------------------------
(* The cache.                                                              *)

LEMMA LoadedIsCached ==
  ASSUME NEW r, NEW as, NEW mk \in Conv, NEW lo, r[mk].there
  PROVE  Cached(Loaded(r, as, mk), r, as, mk, lo)
  BY Zenon DEF Cached, CacheField, Loaded

(* Writes to another conversation's row and answers leave the cache right. *)
LEMMA OthersStayCached ==
  ASSUME NEW c, NEW r, NEW s, NEW as, NEW bs, NEW mk, NEW lo, NEW ko,
         Cached(c, r, as, mk, lo), lo \subseteq ko, s[mk] = r[mk],
         \A m \in Msg : bs[m] = as[m] \/ (as[m].conv # mk /\ bs[m].conv # mk)
  PROVE  Cached(c, s, bs, mk, ko)
  <1>1. OfConv(bs, mk) = OfConv(as, mk)
    BY Zenon DEF OfConv
  <1>2. \A m \in OfConv(bs, mk) : bs[m] = as[m]
    BY Zenon DEF OfConv
  <1>3. c = [f \in CacheField |-> c[f]] /\ mk \in Conv /\ c.id = mk /\ s[mk].there /\ c.record = s[mk]
    BY Zenon DEF Cached
  <1>4. c.texts = [m \in OfConv(bs, mk) |-> c.texts[m]]
    BY <1>1, Zenon DEF Cached
  <1>5. ASSUME NEW m \in OfConv(bs, mk)
        PROVE  c.texts[m] = bs[m] \/ (m \in ko /\ c.texts[m] = [bs[m] EXCEPT !.text = @ + 1])
    <2>1. c.texts[m] = as[m] \/ (m \in lo /\ c.texts[m] = [as[m] EXCEPT !.text = @ + 1])
      BY <1>1, Zenon DEF Cached
    <2> QED BY <1>2, <2>1, Zenon
  <1> QED BY <1>3, <1>4, <1>5, Zenon DEF Cached

(* Refreshed after a write to conversation d, its row and its answers.     *)
LEMMA RefreshedIsCached ==
  ASSUME NEW r, NEW as, NEW d \in Conv, NEW ko,
         Cached(cache, rows, answers, marked, lost), lost \subseteq ko,
         \A c \in Conv \ {d} : r[c] = rows[c],
         rows[d].there => r[d].there,
         \A m \in Msg : as[m] = answers[m] \/ (as[m].conv = d /\ answers[m].conv \in {d, Null})
  PROVE  Cached(Refreshed(r, as, d), r, as, marked, ko)
  <1>1. marked \in Conv /\ cache.id = marked /\ rows[marked].there
    BY Zenon DEF Cached
  <1>2. CASE marked = d
    BY <1>1, <1>2, LoadedIsCached, Zenon DEF Refreshed
  <1>3. CASE marked # d
    <2>1. Refreshed(r, as, d) = cache
      BY <1>1, <1>3, Zenon DEF Refreshed
    <2>2. r[marked] = rows[marked]
      BY <1>1, <1>3, Zenon
    <2>3. \A m \in Msg : as[m] = answers[m] \/ (answers[m].conv # marked /\ as[m].conv # marked)
      BY <1>1, <1>3, ConversationsAssumption, Zenon
    <2> QED BY <2>1, <2>2, <2>3, OthersStayCached, ZenonT(30)
  <1> QED BY <1>2, <1>3, Zenon

-----------------------------------------------------------------------------
(* What the invariant says.                                                *)

LEMMA ConvInvIsSound == ConvInv => ConversationsAreSound
  <1> SUFFICES ASSUME ConvInv PROVE ConversationsAreSound
    OBVIOUS
  <1>1. CacheIsStored
    BY Zenon DEF ConvInv, Cached, CacheIsStored
  <1>2. ASSUME NEW a \in Asks, asks[a].kind = "stream", asks[a].at = "running"
        PROVE  /\ answers[asks[a].msg].text = asks[a].got
               /\ Text(asks[a]) \in {asks[a].got} \cup {n \in {asks[a].got + 1} : asks[a].msg \in lost}
    <2> DEFINE k == asks[a]
    <2>1. k.msg \in Msg /\ k.got \in Nat /\ answers[k.msg].conv = k.conv /\ answers[k.msg].text = k.got
      BY <1>2, Zenon DEF ConvInv, AsksOK, StreamOK
    <2>2. AnswerOK(answers[k.msg])
      BY <2>1, Zenon DEF ConvInv, AnswersOK
    <2>3. [answers[k.msg] EXCEPT !.text = @ + 1].text = k.got + 1
      BY <2>1, <2>2, Zenon DEF AnswerOK, AnswerField
    <2>4. CASE InCache(k)
      <3>1. k.msg \in OfConv(answers, marked)
        BY <2>4, Zenon DEF InCache, ConvInv, Cached
      <3>2. cache.texts[k.msg] = answers[k.msg]
              \/ (k.msg \in lost /\ cache.texts[k.msg] = [answers[k.msg] EXCEPT !.text = @ + 1])
        BY <3>1, Zenon DEF ConvInv, Cached
      <3>3. Text(k) = cache.texts[k.msg].text
        BY <2>4, Zenon DEF Text
      <3>4. Text(k) = k.got \/ (k.msg \in lost /\ Text(k) = k.got + 1)
        BY <3>2, <3>3, <2>1, <2>3, Zenon
      <3> QED BY <3>4, <2>1, Zenon
    <2>5. CASE ~InCache(k)
      BY <2>5, <2>1, Zenon DEF Text
    <2> QED BY <2>4, <2>5, <2>1, Zenon
  <1>3. StreamsAreKept
    BY <1>2, Zenon DEF StreamsAreKept
  <1> QED BY <1>1, <1>3, Zenon DEF ConvInv, ConversationsAreSound

(* The text a delta is added to is what the stream has delivered.          *)
LEMMA DeliveredText ==
  ASSUME ConvInv, NEW a \in Asks, Delivers(a)
  PROVE  Text(asks[a]) = asks[a].got
  <1>1. asks[a].kind = "stream" /\ asks[a].at = "running" /\ ~asks[a].error
    BY Zenon DEF Delivers
  <1>2. asks[a].msg \notin lost
    BY <1>1, Zenon DEF ConvInv, AsksOK, StreamOK
  <1>3. StreamsAreKept
    BY ConvInvIsSound, Zenon DEF ConversationsAreSound
  <1> QED BY <1>1, <1>2, <1>3, Zenon DEF StreamsAreKept

LEMMA ConvInitKeeps == ConvInit => ConvInv
  <1> SUFFICES ASSUME ConvInit PROVE ConvInv
    OBVIOUS
  <1>1. PICK c \in OneOf(Conv) : rows = [d \in Conv |-> IF d = c THEN NewRow ELSE NoRow] /\ marked = c
    BY Zenon DEF ConvInit
  <1>2. c \in Conv
    BY Zenon DEF OneOf
  <1>3. RowsOK(rows) /\ rows[c].there
    BY <1>1, <1>2, Zenon DEF RowsOK, RowField, NewRow, NoRow
  <1>4. AnswersOK(answers)
    BY Zenon DEF ConvInit, AnswersOK, AnswerOK, AnswerField, NoAnswer
  <1>5. AsksOK(asks, answers, lost, crossed)
    BY Zenon DEF ConvInit, AsksOK, AskOK, AskField, StreamOK, Own, NoAsk
  <1>6. Cached(cache, rows, answers, marked, lost)
    BY <1>1, <1>2, <1>3, LoadedIsCached, Zenon DEF ConvInit
  <1>7. LostOK(answers, lost)
    BY Zenon DEF ConvInit, LostOK
  <1>8. StreamsEnd
    BY Zenon DEF ConvInit, StreamsEnd, NoAnswer
  <1>9. SessionIsOwn
    BY <1>1, Zenon DEF SessionIsOwn, NewRow, NoRow
  <1> QED BY <1>3, <1>4, <1>5, <1>6, <1>7, <1>8, <1>9, Zenon DEF ConvInv

-----------------------------------------------------------------------------
(* The operations on conversations.                                        *)

(* Sessions stay or are dropped; a conversation that appears has no        *)
(* answers of a namesake that was deleted.                                 *)
RowsMove(r, s, as) ==
    /\ RowsOK(s)
    /\ \A c \in Conv : s[c].session = r[c].session \/ s[c].session = Null
    /\ \A c \in Conv : s[c].there => r[c].there \/ (\A m \in Msg : as[m].conv # c)

LEMMA OperationKeeps ==
  ASSUME ConvInv, Operation, RowsMove(rows, rows', answers),
         Cached(cache', rows', answers, marked', lost)
  PROVE  ConvInv'
  <1>0. /\ answers' = answers /\ asks' = asks /\ lost' = lost
        /\ abandoned' = abandoned /\ crossed' = crossed
    BY Zenon DEF Operation, convGhosts
  <1>1. RowsOK(rows') /\ AnswersOK(answers') /\ AsksOK(asks', answers', lost', crossed')
    BY <1>0, Zenon DEF ConvInv, RowsMove
  <1>2. Cached(cache', rows', answers', marked', lost') /\ LostOK(answers', lost')
    BY <1>0, Zenon DEF ConvInv
  <1>3. StreamsEnd'
    <2> SUFFICES ASSUME NEW m \in Msg, answers[m].status = "streaming",
                        \A a \in Asks : asks[a].msg # m, m \notin abandoned
                 PROVE  ~rows'[answers[m].conv].there
      BY <1>0, Zenon DEF StreamsEnd
    <2>1. ~rows[answers[m].conv].there
      BY Zenon DEF ConvInv, StreamsEnd
    <2>2. answers[m].conv \in Conv
      BY DEF ConvInv, AnswersOK, AnswerOK, NoAnswer
    <2> QED BY <2>1, <2>2, Zenon DEF RowsMove
  <1>4. SessionIsOwn'
    BY <1>0, Zenon DEF ConvInv, SessionIsOwn, RowsMove
  <1> QED BY <1>1, <1>2, <1>3, <1>4, Zenon DEF ConvInv

(* A write to a row that keeps its conversation there, and its session.    *)
LEMMA RowWritten ==
  ASSUME ConvInv, NEW c \in Conv, NEW r, r = [rows EXCEPT ![c] = r[c]],
         r[c] = [f \in RowField |-> r[c][f]], r[c].session = rows[c].session, rows[c].there
  PROVE  /\ RowsMove(rows, r, answers)
         /\ \A d \in Conv \ {c} : r[d] = rows[d]
  <1>1. RowsOK(rows)
    BY Zenon DEF ConvInv
  <1>2. \A d \in Conv \ {c} : r[d] = rows[d]
    BY <1>1, Zenon DEF RowsOK
  <1>3. RowsOK(r)
    BY <1>1, <1>2 DEF RowsOK
  <1>4. \A d \in Conv : r[d].session = rows[d].session
    BY <1>2, Zenon
  <1>5. \A d \in Conv : r[d].there => rows[d].there
    BY <1>2, Zenon
  <1> QED BY <1>2, <1>3, <1>4, <1>5, Zenon DEF RowsMove

LEMMA UnusedConversation ==
  ASSUME NEW c \in Unused
  PROVE  c \in Conv /\ ~rows[c].there /\ \A m \in Msg : answers[m].conv # c
  BY Zenon DEF Unused, OneOf

LEMMA CreateKeeps ==
  ASSUME ConvInv, CreateConversation
  PROVE  ConvInv'
  <1>1. PICK c \in Unused : Rows([rows EXCEPT ![c] = NewRow], c, Loaded([rows EXCEPT ![c] = NewRow], answers, c))
    BY Zenon DEF CreateConversation
  <1>2. c \in Conv /\ \A m \in Msg : answers[m].conv # c
    BY UnusedConversation, Zenon
  <1>3. rows' = [rows EXCEPT ![c] = NewRow] /\ marked' = c /\ cache' = Loaded(rows', answers, c)
    BY <1>1, Zenon DEF Rows
  <1>4. RowsOK(rows)
    BY Zenon DEF ConvInv
  <1>5. RowsOK(rows') /\ rows'[c].there /\ rows'[c].session = Null /\ \A d \in Conv \ {c} : rows'[d] = rows[d]
    BY <1>2, <1>3, <1>4, Zenon DEF RowsOK, RowField, NewRow, NoRow
  <1>6. RowsMove(rows, rows', answers)
    BY <1>2, <1>5, Zenon DEF RowsMove
  <1>7. Cached(cache', rows', answers, marked', lost)
    BY <1>2, <1>3, <1>5, LoadedIsCached, Zenon
  <1> QED BY <1>6, <1>7, OperationKeeps, Zenon DEF CreateConversation

(* A write to one row, and the cache after it.                             *)
LEMMA WriteKeeps ==
  ASSUME ConvInv, Operation, NEW c \in Conv, rows[c].there,
         NEW r, r = [rows EXCEPT ![c] = r[c]], r[c] = [f \in RowField |-> r[c][f]],
         r[c].session = rows[c].session, r[c].there,
         Rows(r, marked, Refreshed(r, answers, c))
  PROVE  ConvInv'
  <1>1. rows' = r /\ marked' = marked /\ cache' = Refreshed(r, answers, c)
    BY Zenon DEF Rows
  <1>2. RowsMove(rows, r, answers) /\ \A d \in Conv \ {c} : r[d] = rows[d]
    BY RowWritten, Zenon
  <1>3. Cached(cache, rows, answers, marked, lost)
    BY Zenon DEF ConvInv
  <1>4. Cached(Refreshed(r, answers, c), r, answers, marked, lost)
    BY <1>2, <1>3, RefreshedIsCached, Zenon
  <1> QED BY <1>1, <1>2, <1>4, OperationKeeps, Zenon

LEMMA RenameKeeps ==
  ASSUME ConvInv, NEW c \in Conv, RenameConversation(c)
  PROVE  ConvInv'
  <1> DEFINE r == [rows EXCEPT ![c].title = "given"]
  <1>1. Operation /\ rows[c].there /\ Rows(r, marked, Refreshed(r, answers, c))
    BY Zenon DEF RenameConversation
  <1>2. /\ r = [rows EXCEPT ![c] = r[c]] /\ r[c] = [f \in RowField |-> r[c][f]]
        /\ r[c].session = rows[c].session /\ r[c].there
    BY <1>1, Zenon DEF ConvInv, RowsOK, RowField
  <1> HIDE DEF r
  <1> QED BY <1>1, <1>2, WriteKeeps, Zenon

LEMMA PreferencesKeep ==
  ASSUME ConvInv, NEW c \in Conv, UpdateConversationContextPreferences(c)
  PROVE  ConvInv'
  <1> DEFINE r == [rows EXCEPT ![c].prefs = 1]
  <1>1. Operation /\ rows[c].there /\ Rows(r, marked, Refreshed(r, answers, c))
    BY Zenon DEF UpdateConversationContextPreferences
  <1>2. /\ r = [rows EXCEPT ![c] = r[c]] /\ r[c] = [f \in RowField |-> r[c][f]]
        /\ r[c].session = rows[c].session /\ r[c].there
    BY <1>1, Zenon DEF ConvInv, RowsOK, RowField
  <1> HIDE DEF r
  <1> QED BY <1>1, <1>2, WriteKeeps, Zenon

LEMMA RestoreKeeps ==
  ASSUME ConvInv, NEW c \in Conv, RestoreConversation(c)
  PROVE  ConvInv'
  <1> DEFINE r == [rows EXCEPT ![c].archived = FALSE]
  <1>1. Operation /\ rows[c].there /\ Rows(r, marked, Refreshed(r, answers, c))
    BY Zenon DEF RestoreConversation
  <1>2. /\ r = [rows EXCEPT ![c] = r[c]] /\ r[c] = [f \in RowField |-> r[c][f]]
        /\ r[c].session = rows[c].session /\ r[c].there
    BY <1>1, Zenon DEF ConvInv, RowsOK, RowField
  <1> HIDE DEF r
  <1> QED BY <1>1, <1>2, WriteKeeps, Zenon

LEMMA ActivateKeeps ==
  ASSUME ConvInv, NEW c \in Conv, ActivateConversation(c)
  PROVE  ConvInv'
  <1>1. Operation /\ rows[c].there /\ rows' = rows /\ marked' = c /\ cache' = Loaded(rows, answers, c)
    BY Zenon DEF ActivateConversation, Rows
  <1>2. RowsMove(rows, rows', answers)
    BY <1>1, Zenon DEF RowsMove, ConvInv
  <1>3. Cached(cache', rows', answers, marked', lost)
    BY <1>1, LoadedIsCached, Zenon
  <1> QED BY <1>1, <1>2, <1>3, OperationKeeps, Zenon

(* The conversation that takes over is another one that is there, or new.  *)
LEMMA Candidate ==
  ASSUME NEW c \in Conv, rows[c].there, NEW both \in BOOLEAN,
         NEW next \in nextConversationCandidate(c, both)
  PROVE  /\ next \in Conv /\ next # c
         /\ rows[next].there \/ \A m \in Msg : answers[m].conv # next
  <1>1. \/ next \in There(rows) \ {c}
        \/ next \in Unused
    BY Zenon DEF nextConversationCandidate
  <1> QED BY <1>1, UnusedConversation, Zenon DEF There

LEMMA ReplacedKeeps ==
  ASSUME ConvInv, Operation, NEW c \in Conv, rows[c].there,
         NEW r, RowsMove(rows, r, answers), \A d \in Conv \ {c} : r[d] = rows[d],
         NEW both \in BOOLEAN, Replaced(r, c, both)
  PROVE  ConvInv'
  <1>1. PICK next \in nextConversationCandidate(c, both) :
          LET s == IF r[next].there THEN r ELSE [r EXCEPT ![next] = NewRow]
          IN Rows(s, next, Loaded(s, answers, next))
    BY Zenon DEF Replaced
  <1>2. next \in Conv /\ next # c /\ (rows[next].there \/ \A m \in Msg : answers[m].conv # next)
    BY Candidate, Zenon
  <1>3. /\ rows' = IF r[next].there THEN r ELSE [r EXCEPT ![next] = NewRow]
        /\ marked' = next /\ cache' = Loaded(rows', answers, next)
    BY <1>1, Zenon DEF Rows
  <1>4. RowsOK(r) /\ r[next] = rows[next]
    BY <1>2, Zenon DEF RowsMove
  <1>5. RowsMove(rows, rows', answers) /\ rows'[next].there
    <2>1. CASE r[next].there
      BY <2>1, <1>3, Zenon
    <2>2. CASE ~r[next].there
      <3>1. /\ RowsOK(rows') /\ rows'[next].there /\ rows'[next].session = Null
            /\ \A d \in Conv \ {next} : rows'[d] = r[d]
        BY <1>2, <1>3, <1>4, <2>2, Zenon DEF RowsOK, RowField, NewRow, NoRow
      <3>2. \A m \in Msg : answers[m].conv # next
        BY <1>2, <1>4, <2>2, Zenon
      <3> QED BY <3>1, <3>2, Zenon DEF RowsMove
    <2> QED BY <2>1, <2>2, Zenon
  <1>6. Cached(cache', rows', answers, marked', lost)
    BY <1>2, <1>3, <1>5, LoadedIsCached, Zenon
  <1> QED BY <1>5, <1>6, OperationKeeps, Zenon

(* A conversation that goes, or is archived, and was not the active one.   *)
LEMMA InactiveKeeps ==
  ASSUME ConvInv, Operation, NEW c \in Conv, cache.id # c,
         NEW r, RowsMove(rows, r, answers), \A d \in Conv \ {c} : r[d] = rows[d],
         Rows(r, marked, cache)
  PROVE  ConvInv'
  <1>1. rows' = r /\ marked' = marked /\ cache' = cache
    BY Zenon DEF Rows
  <1>2. Cached(cache, rows, answers, marked, lost)
    BY Zenon DEF ConvInv
  <1>3. r[marked] = rows[marked]
    BY <1>2, Zenon DEF Cached
  <1>4. Cached(cache, r, answers, marked, lost)
    BY <1>2, <1>3, OthersStayCached, Zenon
  <1> QED BY <1>1, <1>4, OperationKeeps, Zenon

LEMMA DeleteKeeps ==
  ASSUME ConvInv, NEW c \in Conv, DeleteConversation(c)
  PROVE  ConvInv'
  <1> DEFINE r == [rows EXCEPT ![c] = NoRow]
  <1>1. /\ Operation /\ rows[c].there
        /\ IF cache.id = c THEN Replaced(r, c, TRUE) ELSE Rows(r, marked, cache)
    BY Zenon DEF DeleteConversation
  <1>2. RowsOK(rows)
    BY Zenon DEF ConvInv
  <1>3. \A d \in Conv \ {c} : r[d] = rows[d]
    BY <1>2, Zenon DEF RowsOK
  <1>4. RowsOK(r) /\ r[c].session = Null /\ ~r[c].there
    BY <1>2, Zenon DEF RowsOK, RowField, NoRow
  <1> HIDE DEF r
  <1>5. RowsMove(rows, r, answers)
    BY <1>3, <1>4, Zenon DEF RowsMove
  <1> QED BY <1>1, <1>3, <1>5, ReplacedKeeps, InactiveKeeps, Zenon

LEMMA ArchiveKeeps ==
  ASSUME ConvInv, NEW c \in Conv, ArchiveConversation(c)
  PROVE  ConvInv'
  <1> DEFINE r == [rows EXCEPT ![c].archived = TRUE]
  <1>1. /\ Operation /\ rows[c].there
        /\ IF cache.id = c THEN Replaced(r, c, FALSE) ELSE Rows(r, marked, cache)
    BY Zenon DEF ArchiveConversation
  <1>2. /\ r = [rows EXCEPT ![c] = r[c]] /\ r[c] = [f \in RowField |-> r[c][f]]
        /\ r[c].session = rows[c].session
    BY <1>1, Zenon DEF ConvInv, RowsOK, RowField
  <1> HIDE DEF r
  <1>3. RowsMove(rows, r, answers) /\ \A d \in Conv \ {c} : r[d] = rows[d]
    BY <1>1, <1>2, RowWritten
  <1> QED BY <1>1, <1>3, ReplacedKeeps, InactiveKeeps, Zenon

-----------------------------------------------------------------------------
(* The requests for an answer.                                             *)

(* Only the answer of request a, or one that was not used, is written.     *)
AnswersMove(a, as, bs) ==
    \A m \in Msg : bs[m] = as[m] \/ m = asks[a].msg \/ as[m] = NoAnswer

(* Request a becomes k.                                                    *)
LEMMA AskMoves ==
  ASSUME ConvInv, NEW a \in Asks, NEW k, asks' = [asks EXCEPT ![a] = k],
         AskOK(k), StreamOK(answers', lost', k), Own(k.session, k.conv, crossed'),
         k.msg = asks[a].msg \/ k.msg = Null \/ (k.msg \in Msg /\ answers[k.msg] = NoAnswer),
         RowsOK(rows'), \A c \in Conv : rows'[c].there => rows[c].there,
         \A c \in Conv : Own(rows'[c].session, c, crossed'),
         AnswersOK(answers'), AnswersMove(a, answers, answers'), LostOK(answers', lost'),
         lost' \subseteq lost \cup {asks[a].msg},
         abandoned \subseteq abandoned', crossed \subseteq crossed',
         Cached(cache', rows', answers', marked', lost'),
         \A m \in Msg : answers'[m].status = "streaming" /\ (m = asks[a].msg \/ answers[m] = NoAnswer)
                          => m = k.msg \/ ~rows'[answers'[m].conv].there \/ m \in abandoned'
  PROVE  ConvInv'
  <1>0. AsksOK(asks, answers, lost, crossed)
    BY Zenon DEF ConvInv
  <1>1. asks' = [b \in Asks |-> asks'[b]] /\ asks'[a] = k /\ \A b \in Asks \ {a} : asks'[b] = asks[b]
    BY <1>0, Zenon DEF AsksOK
  <1>2. \A b \in Asks : asks[b].msg # Null => asks[b].msg \in Msg /\ answers[asks[b].msg] # NoAnswer
    BY <1>0 DEF AsksOK, AskOK, StreamOK, NoAnswer
  <1>3. \A b \in Asks \ {a} : asks[b].msg # Null => asks[b].msg # asks[a].msg /\ asks[b].msg # k.msg
    BY <1>0, <1>2, Zenon DEF AsksOK
  <1>4. ASSUME NEW b \in Asks \ {a} PROVE StreamOK(answers', lost', asks[b])
    <2> SUFFICES ASSUME asks[b].kind = "stream", asks[b].at = "running" PROVE StreamOK(answers', lost', asks[b])
      BY Zenon DEF StreamOK
    <2>1. asks[b].msg \in Msg /\ asks[b].msg # Null
      BY <1>0, ConversationsAssumption, Zenon DEF AsksOK, StreamOK
    <2>2. answers'[asks[b].msg] = answers[asks[b].msg]
      BY <2>1, <1>2, <1>3, Zenon DEF AnswersMove
    <2>3. asks[b].msg \in lost' => asks[b].msg \in lost
      BY <2>1, <1>3, Zenon
    <2> QED BY <2>1, <2>2, <2>3, <1>0, ZenonT(30) DEF AsksOK, StreamOK
  <1>5. \A b \in Asks \ {a} : AskOK(asks[b]) /\ Own(asks[b].session, asks[b].conv, crossed')
    BY <1>0, Zenon DEF AsksOK, Own
  <1>6. \A b, d \in Asks : asks'[b].msg = asks'[d].msg /\ asks'[b].msg # Null => b = d
    BY <1>0, <1>1, <1>3, Zenon DEF AsksOK
  <1>7. AsksOK(asks', answers', lost', crossed')
    BY <1>1, <1>4, <1>5, <1>6, Zenon DEF AsksOK
  <1>8. StreamsEnd'
    <2> SUFFICES ASSUME NEW m \in Msg, answers'[m].status = "streaming",
                        \A b \in Asks : asks'[b].msg # m, m \notin abandoned'
                 PROVE  ~rows'[answers'[m].conv].there
      BY Zenon DEF StreamsEnd
    <2>1. CASE m = asks[a].msg \/ answers[m] = NoAnswer
      BY <2>1, <1>1, Zenon
    <2>2. CASE ~(m = asks[a].msg \/ answers[m] = NoAnswer)
      <3>1. answers'[m] = answers[m]
        BY <2>2, Zenon DEF AnswersMove
      <3>2. \A b \in Asks : asks[b].msg # m
        BY <2>2, <1>1, Zenon
      <3>3. ~rows[answers[m].conv].there
        BY <3>1, <3>2, Zenon DEF ConvInv, StreamsEnd
      <3>4. answers[m].conv \in Conv
        BY <2>2, Zenon DEF ConvInv, AnswersOK, AnswerOK
      <3> QED BY <3>1, <3>3, <3>4, Zenon
    <2> QED BY <2>1, <2>2, Zenon
  <1>9. SessionIsOwn'
    BY Zenon DEF SessionIsOwn, Own
  <1> QED BY <1>7, <1>8, <1>9, Zenon DEF ConvInv

(* ... and nothing is written.                                             *)
LEMMA OnlyAskMoves ==
  ASSUME ConvInv, NEW a \in Asks, NEW k, asks' = [asks EXCEPT ![a] = k],
         AskOK(k), StreamOK(answers, lost, k), Own(k.session, k.conv, crossed),
         k.msg = asks[a].msg \/ k.msg = Null,
         UNCHANGED <<convTables, cache, lost, crossed>>, abandoned \subseteq abandoned',
         asks[a].msg = k.msg \/ asks[a].msg = Null \/ asks[a].msg \in abandoned'
           \/ ~rows[answers[asks[a].msg].conv].there
  PROVE  ConvInv'
  <1>1. /\ rows' = rows /\ answers' = answers /\ marked' = marked /\ cache' = cache
        /\ lost' = lost /\ crossed' = crossed
    BY Zenon DEF convTables
  <1>2. RowsOK(rows') /\ AnswersOK(answers') /\ LostOK(answers', lost')
    BY <1>1, Zenon DEF ConvInv
  <1>3. Cached(cache', rows', answers', marked', lost')
    BY <1>1, Zenon DEF ConvInv
  <1>4. \A c \in Conv : Own(rows'[c].session, c, crossed')
    BY <1>1, Zenon DEF ConvInv, SessionIsOwn, Own
  <1>5. AnswersMove(a, answers, answers')
    BY <1>1, Zenon DEF AnswersMove
  <1>6. \A m \in Msg : answers'[m].status = "streaming" /\ (m = asks[a].msg \/ answers[m] = NoAnswer)
                          => m = k.msg \/ ~rows'[answers'[m].conv].there \/ m \in abandoned'
    <2> SUFFICES ASSUME NEW m \in Msg, answers[m].status = "streaming", m = asks[a].msg \/ answers[m] = NoAnswer
                 PROVE  m = k.msg \/ ~rows[answers[m].conv].there \/ m \in abandoned'
      BY <1>1, Zenon
    <2>1. m = asks[a].msg
      BY DEF NoAnswer
    <2>2. m # Null
      BY ConversationsAssumption, Zenon
    <2> QED BY <2>1, <2>2, Zenon
  <1> QED BY <1>1, <1>2, <1>3, <1>4, <1>5, <1>6, AskMoves, Zenon

LEMMA OverIsOK ==
  ASSUME NEW as, NEW lo, NEW cr
  PROVE  AskOK(Over) /\ StreamOK(as, lo, Over) /\ Own(Over.session, Over.conv, cr) /\ Over.msg = Null
  BY Zenon DEF Over, NoAsk, AskOK, AskField, StreamOK, Own

LEMMA AskKeeps ==
  ASSUME ConvInv, NEW a \in Asks, NEW kind, NEW label, Ask(a, kind, label),
         label = "append" \/ (label = "running" /\ kind # "stream")
  PROVE  ConvInv'
  <1> DEFINE k == [NoAsk EXCEPT !.kind = kind, !.at = label, !.conv = cache.id]
  <1>1. asks' = [asks EXCEPT ![a] = k] /\ UNCHANGED <<convTables, cache, lost, abandoned, crossed>>
    BY Zenon DEF Ask, convGhosts
  <1>2. asks[a].msg = Null
    BY DEF Ask, OneOf, NoAsk
  <1>3. cache.id \in Conv
    BY Zenon DEF ConvInv, Cached
  <1>4. AskOK(k) /\ StreamOK(answers, lost, k) /\ Own(k.session, k.conv, crossed) /\ k.msg = Null
    BY <1>3, Zenon DEF NoAsk, AskOK, AskField, StreamOK, Own
  <1> HIDE DEF k
  <1> QED BY <1>1, <1>2, <1>4, OnlyAskMoves, Zenon

LEMMA ProviderFailsKeeps ==
  ASSUME ConvInv, NEW a \in Asks, ProviderFails(a)
  PROVE  ConvInv'
  <1>1. AskOK(asks[a]) /\ StreamOK(answers, lost, asks[a]) /\ Own(asks[a].session, asks[a].conv, crossed)
    BY Zenon DEF ConvInv, AsksOK
  <1>2. asks = [b \in Asks |-> asks[b]]
    BY Zenon DEF ConvInv, AsksOK
  <1> DEFINE k == [asks[a] EXCEPT !.error = TRUE]
  <1>3. asks' = [asks EXCEPT ![a] = k] /\ UNCHANGED <<convTables, cache, lost, abandoned, crossed>>
    BY <1>2, Zenon DEF ProviderFails, convGhosts
  <1>4. /\ k = [f \in AskField |-> k[f]] /\ k.error /\ k.msg = asks[a].msg
        /\ k.at = asks[a].at /\ k.kind = asks[a].kind /\ k.conv = asks[a].conv
        /\ k.session = asks[a].session /\ k.got = asks[a].got
    BY <1>1, Zenon DEF AskOK, AskField
  <1> HIDE DEF k
  <1>5. AskOK(k) /\ StreamOK(answers, lost, k) /\ Own(k.session, k.conv, crossed)
    BY <1>1, <1>4, Zenon DEF AskOK, StreamOK
  <1> QED BY <1>3, <1>4, <1>5, OnlyAskMoves, Zenon

LEMMA FinalizationFailsKeeps ==
  ASSUME ConvInv, NEW a \in Asks, FinalizationFails(a)
  PROVE  ConvInv'
  <1>1. asks' = [asks EXCEPT ![a] = Over] /\ UNCHANGED <<convTables, cache, lost, crossed>>
    BY Zenon DEF FinalizationFails, Ended
  <1>2. abandoned \subseteq abandoned' /\ (asks[a].msg \in abandoned' \/ ~rows[asks[a].conv].there)
    BY Zenon DEF FinalizationFails
  <1>3. asks[a].msg # Null => answers[asks[a].msg].conv = asks[a].conv
    BY Zenon DEF ConvInv, AsksOK, AskOK, StreamOK
  <1> QED BY <1>1, <1>2, <1>3, OverIsOK, OnlyAskMoves, Zenon

LEMMA RestartKeeps ==
  ASSUME ConvInv, RestartCore
  PROVE  ConvInv'
  <1>1. /\ rows' = rows /\ answers' = answers /\ marked' = marked /\ lost' = lost /\ crossed' = crossed
        /\ cache' = Loaded(rows, answers, marked)
        /\ abandoned' = abandoned \cup {asks[a].msg : a \in Asks}
        /\ asks' = [a \in Asks |-> IF asks[a] = NoAsk THEN NoAsk ELSE Over]
    BY Zenon DEF RestartCore, convTables
  <1>2. RowsOK(rows') /\ AnswersOK(answers') /\ LostOK(answers', lost') /\ SessionIsOwn'
    BY <1>1, Zenon DEF ConvInv, SessionIsOwn
  <1>0. marked \in Conv /\ rows[marked].there
    BY Zenon DEF ConvInv, Cached
  <1>3. Cached(cache', rows', answers', marked', lost')
    BY <1>0, <1>1, LoadedIsCached, Zenon
  <1>4. AskOK(NoAsk) /\ StreamOK(answers, lost, NoAsk) /\ Own(NoAsk.session, NoAsk.conv, crossed) /\ NoAsk.msg = Null
    BY Zenon DEF NoAsk, AskOK, AskField, StreamOK, Own
  <1>5. \A a \in Asks : asks'[a] \in {NoAsk, Over}
    BY <1>1, Zenon
  <1>6. AsksOK(asks', answers', lost', crossed')
    BY <1>1, <1>4, <1>5, OverIsOK, Zenon DEF AsksOK
  <1>7. StreamsEnd'
    BY <1>1, Zenon DEF ConvInv, StreamsEnd
  <1> QED BY <1>2, <1>3, <1>6, <1>7, Zenon DEF ConvInv

-----------------------------------------------------------------------------
(* The requests that write.                                                *)

LEMMA AnswerFields ==
  ASSUME NEW c \in Conv, NEW text \in Nat, NEW status
  PROVE  /\ AnswerOK(Answer(c, text, status))
         /\ Answer(c, text, status).conv = c /\ Answer(c, text, status).text = text
         /\ Answer(c, text, status).status = status
  BY Zenon DEF Answer, AnswerField, AnswerOK

(* Answer m, of conversation c, is now y; it was not used, or request a's. *)
Written(a, m, c, y, as) ==
    /\ AnswersOK(as) /\ AnswersMove(a, answers, as) /\ LostOK(as, lost)
    /\ as[m] = y
    /\ \A x \in Msg \ {m} : as[x] = answers[x]
    /\ \A x \in Msg : as[x] = answers[x] \/ (as[x].conv = c /\ answers[x].conv \in {c, Null})

LEMMA AnswerWritten ==
  ASSUME ConvInv, NEW a \in Asks, NEW m \in Msg, NEW c \in Conv, NEW y, AnswerOK(y), y.conv = c,
         (m = asks[a].msg /\ answers[m].conv = c) \/ answers[m] = NoAnswer, NEW as,
         as = [answers EXCEPT ![m] = y]
  PROVE  Written(a, m, c, y, as)
  <1>1. AnswersOK(answers) /\ LostOK(answers, lost)
    BY Zenon DEF ConvInv
  <1>2. as[m] = y /\ \A x \in Msg \ {m} : as[x] = answers[x]
    BY <1>1, Zenon DEF AnswersOK
  <1>3. as = [x \in Msg |-> as[x]]
    BY <1>1, Zenon DEF AnswersOK
  <1>4. NoAnswer.conv = Null
    BY Zenon DEF NoAnswer
  <1>5. as[m] # NoAnswer
    BY <1>2, <1>4, ConversationsAssumption, Zenon
  <1>6. AnswersOK(as)
    BY <1>1, <1>2, <1>3, Zenon DEF AnswersOK
  <1>7. AnswersMove(a, answers, as)
    BY <1>2, Zenon DEF AnswersMove
  <1>8. LostOK(as, lost)
    BY <1>1, <1>2, <1>5, Zenon DEF LostOK
  <1>9. answers[m].conv \in {c, Null}
    BY <1>4, Zenon
  <1> QED BY <1>2, <1>6, <1>7, <1>8, <1>9, Zenon DEF Written

(* The title a user's message gives leaves the rest of the row.            *)
LEMMA TitledRows ==
  ASSUME ConvInv, NEW k, k.conv \in Conv, NEW r \in Titled(k)
  PROVE  /\ RowsOK(r) /\ \A d \in Conv \ {k.conv} : r[d] = rows[d]
         /\ r[k.conv].there = rows[k.conv].there /\ r[k.conv].session = rows[k.conv].session
  <1>1. PICK t : r = [rows EXCEPT ![k.conv].title = t] \/ r = rows
    BY Zenon DEF Titled
  <1>2. RowsOK(rows)
    BY Zenon DEF ConvInv
  <1>3. CASE r = rows
    BY <1>2, <1>3, Zenon
  <1>4. CASE r = [rows EXCEPT ![k.conv].title = t]
    BY <1>2, <1>4, Zenon DEF RowsOK, RowField
  <1> QED BY <1>1, <1>3, <1>4, Zenon

(* Request a leaves "append" as k; an answer may have been written.        *)
LEMMA AppendMoves ==
  ASSUME ConvInv, NEW a \in Asks, asks[a].at = "append", NEW k, asks' = [asks EXCEPT ![a] = k],
         AskOK(k), StreamOK(answers', lost, k), Own(k.session, k.conv, crossed),
         k.msg = Null \/ (k.msg \in Msg /\ answers[k.msg] = NoAnswer),
         rows' \in Titled(asks[a]), marked' = marked, UNCHANGED <<lost, abandoned, crossed>>,
         cache' = Refreshed(rows', answers', asks[a].conv),
         AnswersOK(answers'), AnswersMove(a, answers, answers'), LostOK(answers', lost),
         \A x \in Msg : answers'[x] = answers[x]
            \/ (answers'[x].conv = asks[a].conv /\ answers[x].conv \in {asks[a].conv, Null}),
         \A x \in Msg : answers'[x] # answers[x] => x = k.msg \/ answers'[x].status # "streaming"
  PROVE  ConvInv'
  <1>1. asks[a].conv \in Conv /\ asks[a].msg = Null
    BY Zenon DEF ConvInv, AsksOK, AskOK
  <1>2. /\ RowsOK(rows') /\ \A d \in Conv \ {asks[a].conv} : rows'[d] = rows[d]
        /\ rows'[asks[a].conv].there = rows[asks[a].conv].there
        /\ rows'[asks[a].conv].session = rows[asks[a].conv].session
    BY <1>1, TitledRows, Zenon
  <1>3. Cached(cache, rows, answers, marked, lost)
    BY Zenon DEF ConvInv
  <1>4. Cached(cache', rows', answers', marked', lost')
    BY <1>1, <1>2, <1>3, RefreshedIsCached, Zenon
  <1>5. \A c \in Conv : rows'[c].there => rows[c].there
    BY <1>2, Zenon
  <1>6. \A c \in Conv : rows'[c].session = rows[c].session
    BY <1>2, Zenon
  <1>7. \A c \in Conv : Own(rows'[c].session, c, crossed')
    BY <1>6, Zenon DEF ConvInv, SessionIsOwn, Own
  <1>8. \A m \in Msg : answers'[m].status = "streaming" /\ (m = asks[a].msg \/ answers[m] = NoAnswer)
                          => m = k.msg \/ ~rows'[answers'[m].conv].there \/ m \in abandoned'
    <2> SUFFICES ASSUME NEW m \in Msg, answers'[m].status = "streaming", m = asks[a].msg \/ answers[m] = NoAnswer
                 PROVE  m = k.msg
      OBVIOUS
    <2>1. answers[m] = NoAnswer
      BY <1>1, ConversationsAssumption, Zenon
    <2>2. answers'[m] # answers[m]
      BY <2>1 DEF NoAnswer
    <2> QED BY <2>2, Zenon
  <1> QED BY <1>2, <1>4, <1>5, <1>7, <1>8, AskMoves, Zenon

LEMMA AppendKeeps ==
  ASSUME ConvInv, NEW a \in Asks, appendMessagesForConversation(a)
  PROVE  ConvInv'
  <1> DEFINE ask == asks[a]
             c == ask.conv
             running(m) == [ask EXCEPT !.at = "running", !.msg = m, !.session = rows[c].session]
  <1>1. /\ ask.at = "append" /\ marked' = marked /\ UNCHANGED <<lost, abandoned, crossed>>
        /\ cache' = Refreshed(rows', answers', c)
        /\ IF rows[c].there THEN rows' \in Titled(ask) /\ Appended(a)
           ELSE Ended(a) /\ UNCHANGED <<rows, answers>>
    BY Zenon DEF appendMessagesForConversation, convGhosts
  <1>2. AskOK(ask) /\ c \in Conv /\ ask.msg = Null /\ ask.got = 0
    BY <1>1, Zenon DEF ConvInv, AsksOK, AskOK
  <1>3. ASSUME NEW m
        PROVE  /\ running(m) = [f \in AskField |-> running(m)[f]]
               /\ running(m).at = "running" /\ running(m).msg = m /\ running(m).session = rows[c].session
               /\ running(m).kind = ask.kind /\ running(m).conv = c /\ running(m).got = 0
    BY <1>2, Zenon DEF AskOK, AskField
  <1>4. Own(rows[c].session, c, crossed)
    BY <1>2, Zenon DEF ConvInv, SessionIsOwn, Own
  <1> HIDE DEF running
  <1>5. CASE ~rows[c].there
    <2>1. rows' = rows /\ answers' = answers /\ asks' = [asks EXCEPT ![a] = Over]
      BY <1>1, <1>5, Zenon DEF Ended
    <2>2. Cached(cache, rows, answers, marked, lost)
      BY Zenon DEF ConvInv
    <2>3. cache' = cache
      BY <1>1, <1>5, <2>2, Zenon DEF Refreshed, Cached
    <2> QED BY <1>1, <1>2, <2>1, <2>3, OverIsOK, OnlyAskMoves, Zenon DEF convTables
  <1>6. CASE rows[c].there /\ ask.kind = "stream"
    <2>1. PICK m \in Fresh : /\ answers' = [answers EXCEPT ![m] = Answer(c, 0, "streaming")]
                             /\ asks' = [asks EXCEPT ![a] = running(m)]
      BY <1>1, <1>6, Zenon DEF Appended, running
    <2>2. m \in Msg /\ answers[m] = NoAnswer
      BY Zenon DEF Fresh, OneOf
    <2>3. Written(a, m, c, Answer(c, 0, "streaming"), answers')
      <3> DEFINE y == Answer(c, 0, "streaming")
      <3>1. AnswerOK(y) /\ y.conv = c
        BY <1>2, AnswerFields
      <3> HIDE DEF y
      <3>2. answers' = [answers EXCEPT ![m] = y]
        BY <2>1, Zenon DEF y
      <3> QED BY <1>2, <2>2, <3>1, <3>2, AnswerWritten, Zenon DEF y
    <2>4. m \notin lost
      BY <2>2, Zenon DEF ConvInv, LostOK
    <2> DEFINE k == running(m)
    <2>5. AskOK(k)
      BY <1>2, <1>3, <1>6, Zenon DEF AskOK
    <2>6. StreamOK(answers', lost, k)
      <3>1. /\ answers'[m].conv = c /\ answers'[m].text = 0 /\ answers'[m].status = "streaming"
        BY <1>2, <2>3, AnswerFields DEF Written
      <3> QED BY <1>3, <2>2, <2>4, <3>1 DEF StreamOK
    <2>7. Own(k.session, k.conv, crossed) /\ k.msg = m
      BY <1>3, <1>4, Zenon
    <2> HIDE DEF k
    <2> QED BY <1>1, <1>6, <2>1, <2>2, <2>3, <2>5, <2>6, <2>7, AppendMoves, Zenon DEF k, Written
  <1>7. CASE rows[c].there /\ ask.kind = "messages"
    <2>1. PICK m \in Fresh : /\ answers' = [answers EXCEPT ![m] = Answer(c, Full, "complete")]
                             /\ asks' = [asks EXCEPT ![a] = Over]
      BY <1>1, <1>7, Zenon DEF Appended, Ended
    <2>2. m \in Msg /\ answers[m] = NoAnswer
      BY Zenon DEF Fresh, OneOf
    <2> DEFINE y == Answer(c, Full, "complete")
    <2>3. AnswerOK(y) /\ y.conv = c /\ y.status = "complete"
      <3>1. Full \in Nat
        BY ConversationsAssumption DEF Full
      <3> QED BY <1>2, <3>1, AnswerFields
    <2> HIDE DEF y
    <2>4. Written(a, m, c, y, answers')
      <3>1. answers' = [answers EXCEPT ![m] = y]
        BY <2>1, Zenon DEF y
      <3> QED BY <1>2, <2>2, <2>3, <3>1, AnswerWritten, Zenon
    <2>5. \A x \in Msg : answers'[x] # answers[x] => answers'[x].status # "streaming"
      BY <2>3, <2>4, Zenon DEF Written
    <2> QED BY <1>1, <1>7, <2>1, <2>4, <2>5, OverIsOK, AppendMoves, Zenon DEF Written
  <1>8. CASE rows[c].there /\ ask.kind # "stream" /\ ask.kind # "messages"
    <2> DEFINE k == running(Null)
    <2>1. answers' = answers /\ asks' = [asks EXCEPT ![a] = k]
      BY <1>1, <1>8, Zenon DEF Appended, running
    <2>2. AskOK(k) /\ StreamOK(answers', lost, k)
      BY <1>2, <1>3, <1>8, Zenon DEF AskOK, StreamOK
    <2>3. Own(k.session, k.conv, crossed) /\ k.msg = Null
      BY <1>3, <1>4, Zenon
    <2>4. AnswersOK(answers') /\ AnswersMove(a, answers, answers') /\ LostOK(answers', lost)
      BY <2>1, Zenon DEF ConvInv, AnswersMove
    <2> HIDE DEF k
    <2> QED BY <1>1, <1>8, <2>1, <2>2, <2>3, <2>4, AppendMoves, Zenon
  <1> QED BY <1>5, <1>6, <1>7, <1>8, Zenon

(* A stream that delivers: its answer, as it is stored and as it is cached. *)
LEMMA Delivering ==
  ASSUME ConvInv, NEW a \in Asks, Delivers(a)
  PROVE  LET k == asks[a] IN
         /\ k.kind = "stream" /\ k.at = "running" /\ k.msg \in Msg /\ k.conv \in Conv /\ k.got \in Nat
         /\ answers[k.msg].conv = k.conv /\ answers[k.msg].status = "streaming"
         /\ answers[k.msg].text = k.got /\ AnswerOK(answers[k.msg])
         /\ InCache(k) <=> marked = k.conv
         /\ InCache(k) => k.msg \in OfConv(answers, marked) /\ cache.texts[k.msg] = answers[k.msg]
  <1> DEFINE k == asks[a]
  <1>1. k.kind = "stream" /\ k.at = "running" /\ ~k.error
    BY Zenon DEF Delivers
  <1>2. AskOK(k) /\ StreamOK(answers, lost, k)
    BY Zenon DEF ConvInv, AsksOK
  <1> HIDE DEF k
  <1>3. k.msg \in Msg /\ k.conv \in Conv /\ k.got \in Nat
    BY <1>1, <1>2, Zenon DEF AskOK, StreamOK
  <1>4. /\ answers[k.msg].conv = k.conv /\ answers[k.msg].status = "streaming"
        /\ answers[k.msg].text = k.got /\ k.msg \notin lost
    BY <1>1, <1>2, Zenon DEF StreamOK
  <1>5. AnswerOK(answers[k.msg])
    BY <1>3, Zenon DEF ConvInv, AnswersOK
  <1>6. cache.id = marked /\ DOMAIN cache.texts = OfConv(answers, marked)
    BY Zenon DEF ConvInv, Cached
  <1>7. \A m \in OfConv(answers, marked) : cache.texts[m] = answers[m] \/ m \in lost
    BY Zenon DEF ConvInv, Cached
  <1>8. InCache(k) <=> marked = k.conv
    BY <1>3, <1>4, <1>6, Zenon DEF InCache, OfConv
  <1>9. InCache(k) => k.msg \in OfConv(answers, marked) /\ cache.texts[k.msg] = answers[k.msg]
    BY <1>4, <1>6, <1>7, Zenon DEF InCache
  <1> QED BY <1>1, <1>3, <1>4, <1>5, <1>8, <1>9, Zenon DEF k

(* An answer of the cached conversation grows by a delta in memory.        *)
LEMMA GrownCache ==
  ASSUME ConvInv, NEW a \in Asks, Delivers(a), InCache(asks[a]), NEW y,
         y = [answers[asks[a].msg] EXCEPT !.text = @ + 1]
  PROVE  LET g == Grown(asks[a]) IN
         /\ g = [f \in CacheField |-> g[f]] /\ g.id = cache.id /\ g.record = cache.record
         /\ g.texts = [m \in OfConv(answers, marked) |-> g.texts[m]]
         /\ g.texts[asks[a].msg] = y
         /\ \A m \in OfConv(answers, marked) \ {asks[a].msg} : g.texts[m] = cache.texts[m]
  <1> DEFINE k == asks[a]
  <1>1. k.msg \in OfConv(answers, marked) /\ cache.texts[k.msg] = answers[k.msg]
    BY Delivering, Zenon
  <1>2. cache = [f \in CacheField |-> cache[f]] /\ cache.texts = [m \in OfConv(answers, marked) |-> cache.texts[m]]
    BY Zenon DEF ConvInv, Cached
  <1>3. Grown(k) = [cache EXCEPT !.texts[k.msg].text = @ + 1]
    BY Zenon DEF Grown
  <1> HIDE DEF k
  <1>4. PICK ts : ts = [cache.texts EXCEPT ![k.msg].text = @ + 1]
    BY Zenon
  <1>5. Grown(k) = [cache EXCEPT !.texts = ts]
    BY <1>3, <1>4, Zenon
  <1>6. /\ Grown(k) = [f \in CacheField |-> Grown(k)[f]] /\ Grown(k).id = cache.id
        /\ Grown(k).record = cache.record /\ Grown(k).texts = ts
    BY <1>2, <1>5, Zenon DEF CacheField
  <1>7. /\ ts = [m \in OfConv(answers, marked) |-> ts[m]]
        /\ \A m \in OfConv(answers, marked) \ {k.msg} : ts[m] = cache.texts[m]
        /\ ts[k.msg] = [cache.texts[k.msg] EXCEPT !.text = @ + 1]
    BY <1>1, <1>2, <1>4, Zenon
  <1> QED BY <1>1, <1>6, <1>7, Zenon DEF k

LEMMA DeltaKeeps ==
  ASSUME ConvInv, NEW a \in Asks, appendAssistantDelta(a)
  PROVE  ConvInv'
  <1> DEFINE k == asks[a]
             next == [k EXCEPT !.got = @ + 1]
             y == [answers[k.msg] EXCEPT !.text = k.got + 1]
  <1>1. /\ Delivers(a) /\ cache' = Grown(k) /\ rows' = rows /\ marked' = marked
        /\ UNCHANGED <<lost, abandoned, crossed>>
    BY Zenon DEF appendAssistantDelta, convGhosts
  <1>2. /\ k.kind = "stream" /\ k.at = "running" /\ k.msg \in Msg /\ k.conv \in Conv /\ k.got \in Nat
        /\ answers[k.msg].conv = k.conv /\ answers[k.msg].status = "streaming"
        /\ answers[k.msg].text = k.got /\ AnswerOK(answers[k.msg])
        /\ InCache(k) <=> marked = k.conv
        /\ InCache(k) => k.msg \in OfConv(answers, marked) /\ cache.texts[k.msg] = answers[k.msg]
    BY <1>1, Delivering, Zenon
  <1>3. asks = [b \in Asks |-> asks[b]] /\ AskOK(k) /\ StreamOK(answers, lost, k) /\ Own(k.session, k.conv, crossed)
    BY Zenon DEF ConvInv, AsksOK
  <1>4. asks' = [asks EXCEPT ![a] = next]
    BY <1>3, Zenon DEF appendAssistantDelta
  <1>5. answers' = [answers EXCEPT ![k.msg] = y]
    BY <1>1, <1>2, DeliveredText, Zenon DEF appendAssistantDelta, ConvInv, AnswersOK
  <1>6. y = [answers[k.msg] EXCEPT !.text = @ + 1]
    BY <1>2, Zenon DEF AnswerOK, AnswerField
  <1>7. AnswerOK(y) /\ y.conv = k.conv /\ y.status = "streaming" /\ y.text = k.got + 1
    BY <1>2 DEF AnswerOK, AnswerField
  <1>8. /\ next = [f \in AskField |-> next[f]] /\ next.msg = k.msg /\ next.got = k.got + 1
        /\ next.at = k.at /\ next.kind = k.kind /\ next.conv = k.conv
        /\ next.session = k.session /\ next.error = k.error
    BY <1>3, Zenon DEF AskOK, AskField
  <1> HIDE DEF k, next, y
  <1>9. Written(a, k.msg, k.conv, y, answers')
    BY <1>2, <1>5, <1>7, AnswerWritten, Zenon DEF k
  <1>10. AskOK(next)
    BY <1>2, <1>3, <1>8, Zenon DEF AskOK
  <1>11. StreamOK(answers', lost', next)
    BY <1>1, <1>2, <1>3, <1>7, <1>8, <1>9 DEF StreamOK, Written
  <1>12. Cached(cache', rows', answers', marked', lost')
    <2>1. Cached(cache, rows, answers, marked, lost)
      BY Zenon DEF ConvInv
    <2>2. CASE InCache(k)
      <3>1. /\ cache' = [f \in CacheField |-> cache'[f]] /\ cache'.id = cache.id /\ cache'.record = cache.record
            /\ cache'.texts = [m \in OfConv(answers, marked) |-> cache'.texts[m]]
            /\ cache'.texts[k.msg] = y
            /\ \A m \in OfConv(answers, marked) \ {k.msg} : cache'.texts[m] = cache.texts[m]
        BY <1>1, <1>6, <2>2, GrownCache, Zenon DEF k
      <3>2. OfConv(answers', marked) = OfConv(answers, marked)
        BY <1>2, <1>7, <1>9, Zenon DEF OfConv, Written
      <3>3. \A m \in OfConv(answers, marked) :
              cache'.texts[m] = answers'[m]
                \/ (m \in lost /\ cache'.texts[m] = [answers'[m] EXCEPT !.text = @ + 1])
        <4> TAKE m \in OfConv(answers, marked)
        <4>1. CASE m = k.msg
          BY <4>1, <3>1, <1>9, Zenon DEF Written
        <4>2. CASE m # k.msg
          BY <4>2, <3>1, <1>9, <2>1, ZenonT(30) DEF Written, Cached, OfConv
        <4> QED BY <4>1, <4>2, Zenon
      <3> QED BY <1>1, <2>1, <3>1, <3>2, <3>3, Zenon DEF Cached
    <2>3. CASE ~InCache(k)
      <3>1. cache' = cache /\ marked # k.conv
        BY <1>1, <1>2, <2>3, Zenon DEF Grown
      <3>2. \A m \in Msg : answers'[m] = answers[m] \/ (answers[m].conv # marked /\ answers'[m].conv # marked)
        BY <1>2, <1>7, <1>9, <3>1, Zenon DEF Written
      <3> QED BY <1>1, <2>1, <3>1, <3>2, OthersStayCached, Zenon
    <2> QED BY <2>2, <2>3, Zenon
  <1>13. RowsOK(rows') /\ \A c \in Conv : Own(rows'[c].session, c, crossed')
    BY <1>1, Zenon DEF ConvInv, SessionIsOwn, Own
  <1>14. next.msg = asks[a].msg
    BY <1>8, Zenon DEF k
  <1>15. \A m \in Msg : answers'[m].status = "streaming" /\ (m = asks[a].msg \/ answers[m] = NoAnswer)
                          => m = next.msg \/ ~rows'[answers'[m].conv].there \/ m \in abandoned'
    <2>1. NoAnswer.status = "none"
      BY Zenon DEF NoAnswer
    <2> QED BY <1>8, <1>9, <1>14, <2>1, Zenon DEF Written, k
  <1>16. Own(next.session, next.conv, crossed')
    BY <1>1, <1>3, <1>8, Zenon
  <1> QED BY <1>1, <1>4, <1>9, <1>10, <1>11, <1>12, <1>13, <1>14, <1>15, <1>16, AskMoves, Zenon DEF Written

LEMMA DeltaFailsKeeps ==
  ASSUME ConvInv, NEW a \in Asks, DeltaFails(a)
  PROVE  ConvInv'
  <1> DEFINE k == asks[a]
             next == [k EXCEPT !.error = TRUE]
  <1>1. /\ Delivers(a) /\ cache' = Grown(k) /\ UNCHANGED <<rows, answers, marked, abandoned, crossed>>
        /\ lost' = IF InCache(k) THEN lost \cup {k.msg} ELSE lost
    BY Zenon DEF DeltaFails, convTables
  <1>2. /\ k.kind = "stream" /\ k.at = "running" /\ k.msg \in Msg
        /\ answers[k.msg].status = "streaming"
        /\ InCache(k) => k.msg \in OfConv(answers, marked) /\ cache.texts[k.msg] = answers[k.msg]
    BY <1>1, Delivering, Zenon
  <1>3. asks = [b \in Asks |-> asks[b]] /\ AskOK(k) /\ StreamOK(answers, lost, k) /\ Own(k.session, k.conv, crossed)
    BY Zenon DEF ConvInv, AsksOK
  <1>4. asks' = [asks EXCEPT ![a] = next]
    BY <1>3, Zenon DEF DeltaFails
  <1>5. /\ next = [f \in AskField |-> next[f]] /\ next.error /\ next.msg = k.msg
        /\ next.at = k.at /\ next.kind = k.kind /\ next.conv = k.conv
        /\ next.session = k.session /\ next.got = k.got
    BY <1>3, Zenon DEF AskOK, AskField
  <1> HIDE DEF k, next
  <1>6. AskOK(next) /\ StreamOK(answers', lost', next) /\ Own(next.session, next.conv, crossed')
    BY <1>1, <1>3, <1>5, Zenon DEF AskOK, StreamOK
  <1>7. lost \subseteq lost' /\ lost' \subseteq lost \cup {k.msg}
    BY <1>1, Zenon
  <1>8. LostOK(answers', lost')
    <2>1. answers[k.msg] # NoAnswer
      BY <1>2 DEF NoAnswer
    <2> QED BY <1>1, <1>2, <1>7, <2>1, Zenon DEF ConvInv, LostOK
  <1>9. Cached(cache', rows', answers', marked', lost')
    <2>1. Cached(cache, rows, answers, marked, lost)
      BY Zenon DEF ConvInv
    <2>2. CASE InCache(k)
      <3>0. PICK y : y = [answers[k.msg] EXCEPT !.text = @ + 1]
        BY Zenon
      <3>1. /\ cache' = [f \in CacheField |-> cache'[f]] /\ cache'.id = cache.id /\ cache'.record = cache.record
            /\ cache'.texts = [m \in OfConv(answers, marked) |-> cache'.texts[m]]
            /\ cache'.texts[k.msg] = y
            /\ \A m \in OfConv(answers, marked) \ {k.msg} : cache'.texts[m] = cache.texts[m]
        BY <1>1, <2>2, <3>0, GrownCache, Zenon DEF k
      <3>2. \A m \in OfConv(answers, marked) :
              cache'.texts[m] = answers[m]
                \/ (m \in lost' /\ cache'.texts[m] = [answers[m] EXCEPT !.text = @ + 1])
        <4> TAKE m \in OfConv(answers, marked)
        <4>1. CASE m = k.msg
          BY <4>1, <3>0, <3>1, <1>1, <2>2, Zenon
        <4>2. CASE m # k.msg
          BY <4>2, <3>1, <1>7, <2>1, Zenon DEF Cached
        <4> QED BY <4>1, <4>2, Zenon
      <3> QED BY <1>1, <2>1, <3>1, <3>2, Zenon DEF Cached
    <2>3. CASE ~InCache(k)
      BY <1>1, <2>1, <2>3, Zenon DEF Grown
    <2> QED BY <2>2, <2>3, Zenon
  <1>10. RowsOK(rows') /\ AnswersOK(answers') /\ AnswersMove(a, answers, answers')
    BY <1>1, Zenon DEF ConvInv, AnswersMove
  <1>11. \A c \in Conv : Own(rows'[c].session, c, crossed')
    BY <1>1, Zenon DEF ConvInv, SessionIsOwn, Own
  <1>12. next.msg = asks[a].msg /\ lost' \subseteq lost \cup {asks[a].msg}
    BY <1>5, <1>7, Zenon DEF k
  <1>13. \A m \in Msg : answers'[m].status = "streaming" /\ (m = asks[a].msg \/ answers[m] = NoAnswer)
                          => m = next.msg \/ ~rows'[answers'[m].conv].there \/ m \in abandoned'
    BY <1>1, <1>12 DEF NoAnswer
  <1> QED BY <1>1, <1>4, <1>6, <1>8, <1>9, <1>10, <1>11, <1>12, <1>13, AskMoves, Zenon

(* What an answer ends with is a text.                                     *)
LEMMA FinalText ==
  ASSUME ConvInv, NEW a \in Asks, asks[a].at = "running", NEW text \in finalTexts(asks[a])
  PROVE  text \in Nat
  <1>1. Full \in Nat /\ Notice \in Nat
    BY ConversationsAssumption DEF Full, Notice
  <1>2. CASE asks[a].kind = "stream"
    <2>1. asks[a].got \in Nat
      BY <1>2, Zenon DEF ConvInv, AsksOK, StreamOK
    <2>2. Text(asks[a]) \in {asks[a].got} \cup {n \in {asks[a].got + 1} : asks[a].msg \in lost}
      BY <1>2, ConvInvIsSound, Zenon DEF ConversationsAreSound, StreamsAreKept
    <2>3. Text(asks[a]) \in Nat
      BY <2>1, <2>2
    <2> QED BY <1>1, <1>2, <2>3, Zenon DEF finalTexts
  <1>3. CASE asks[a].kind # "stream"
    BY <1>1, <1>3, Zenon DEF finalTexts
  <1> QED BY <1>2, <1>3, Zenon

LEMMA FinalizationKeeps ==
  ASSUME ConvInv, NEW a \in Asks, persistAssistantFinalization(a)
  PROVE  ConvInv'
  <1> DEFINE k == asks[a]
             c == k.conv
  <1>1. PICK session \in nextProviderSessionState(k), text \in finalTexts(k),
             m \in IF k.kind = "stream" THEN {k.msg} ELSE Fresh :
          /\ rows' = [rows EXCEPT ![c].session = session]
          /\ answers' = [answers EXCEPT ![m] = Answer(c, text, IF k.error THEN "error" ELSE "complete")]
          /\ crossed' = IF cache.id # c /\ session = cache.record.session /\ session \notin {Null, c}
                        THEN crossed \cup {c} ELSE crossed
    BY Zenon DEF persistAssistantFinalization
  <1>2. /\ k.at = "running" /\ rows[c].there /\ cache' = Refreshed(rows', answers', c)
        /\ asks' = [asks EXCEPT ![a] = Over] /\ marked' = marked /\ lost' = lost /\ abandoned' = abandoned
    BY Zenon DEF persistAssistantFinalization, Ended
  <1>3. AskOK(k) /\ StreamOK(answers, lost, k) /\ Own(k.session, c, crossed) /\ c \in Conv
    BY <1>2, Zenon DEF ConvInv, AsksOK, AskOK
  <1>4. m \in Msg /\ ((m = k.msg /\ answers[m].conv = c) \/ answers[m] = NoAnswer)
    BY <1>1, <1>2, <1>3, Zenon DEF StreamOK, Fresh, OneOf
  <1>5. text \in Nat
    BY <1>2, FinalText, Zenon
  <1>6. PICK y : y = Answer(c, text, IF k.error THEN "error" ELSE "complete")
    OBVIOUS
  <1>7. AnswerOK(y) /\ y.conv = c /\ y.status # "streaming"
    <2>1. PICK status : status \in {"error", "complete"} /\ y = Answer(c, text, status)
      BY <1>6, Zenon
    <2>2. c \in Conv
      BY <1>3, Zenon
    <2> HIDE DEF c
    <2>3. AnswerOK(y) /\ y.conv = c /\ y.status = status
      BY <1>5, <2>1, <2>2, AnswerFields
    <2>4. status # "streaming"
      BY <2>1, Zenon
    <2> QED BY <2>3, <2>4, Zenon
  <1>8. Written(a, m, c, y, answers')
    BY <1>1, <1>3, <1>4, <1>6, <1>7, AnswerWritten, Zenon
  <1>9. RowsOK(rows)
    BY Zenon DEF ConvInv
  <1>10. /\ RowsOK(rows') /\ \A d \in Conv \ {c} : rows'[d] = rows[d]
         /\ rows'[c].session = session /\ rows'[c].there
    <2> HIDE DEF c
    <2> QED BY <1>1, <1>2, <1>3, <1>9, Zenon DEF RowsOK, RowField
  <1>11. Cached(cache, rows, answers, marked, lost)
    BY Zenon DEF ConvInv
  <1>12. Cached(cache', rows', answers', marked', lost')
    <2> HIDE DEF c
    <2> QED BY <1>2, <1>3, <1>8, <1>10, <1>11, RefreshedIsCached, Zenon DEF Written
  <1>13. crossed \subseteq crossed'
    BY <1>1, Zenon
  <1>14. Own(session, c, crossed')
    <2>1. session = cache.record.session \/ session \in {Null, c, k.session}
      BY Zenon DEF nextProviderSessionState
    <2>2. CASE session \in {Null, c, k.session}
      BY <1>3, <1>13, <2>2, Zenon DEF Own
    <2>3. CASE session = cache.record.session /\ cache.id = c
      <3>1. session = rows[c].session
        BY <1>11, <2>3, Zenon DEF Cached
      <3> QED BY <3>1, <1>3, <1>13, Zenon DEF ConvInv, SessionIsOwn, Own
    <2>4. CASE session = cache.record.session /\ cache.id # c
      BY <1>1, <2>4, Zenon DEF Own
    <2> QED BY <2>1, <2>2, <2>3, <2>4, Zenon
  <1>15. \A d \in Conv : Own(rows'[d].session, d, crossed')
    <2>1. \A d \in Conv \ {c} : Own(rows'[d].session, d, crossed')
      BY <1>10, <1>13, Zenon DEF ConvInv, SessionIsOwn, Own
    <2> QED BY <1>10, <1>14, <2>1, Zenon
  <1>16. \A d \in Conv : rows'[d].there => rows[d].there
    BY <1>2, <1>10, Zenon
  <1>17. AnswersOK(answers') /\ AnswersMove(a, answers, answers') /\ LostOK(answers', lost')
    BY <1>2, <1>8, Zenon DEF Written
  <1>18. \A x \in Msg : answers'[x].status = "streaming" /\ (x = asks[a].msg \/ answers[x] = NoAnswer)
                          => x = Over.msg \/ ~rows'[answers'[x].conv].there \/ x \in abandoned'
    <2> SUFFICES ASSUME NEW x \in Msg, x = k.msg \/ answers[x] = NoAnswer
                 PROVE  answers'[x].status # "streaming"
      OBVIOUS
    <2>1. CASE x = m
      BY <2>1, <1>7, <1>8, Zenon DEF Written
    <2>2. CASE x # m
      <3>1. answers'[x] = answers[x]
        BY <2>2, <1>8, Zenon DEF Written
      <3>2. x # k.msg
        <4>1. CASE k.kind = "stream"
          BY <4>1, <1>1, <2>2, Zenon
        <4>2. CASE k.kind # "stream"
          BY <4>2, <1>3, ConversationsAssumption, Zenon DEF AskOK
        <4> QED BY <4>1, <4>2, Zenon
      <3> QED BY <3>1, <3>2 DEF NoAnswer
    <2> QED BY <2>1, <2>2, Zenon
  <1> HIDE DEF c, k
  <1> QED BY <1>2, <1>10, <1>12, <1>13, <1>15, <1>16, <1>17, <1>18, OverIsOK, AskMoves, Zenon

-----------------------------------------------------------------------------
LEMMA ConvNextKeeps == ConvInv /\ [ConvNext]_convVars => ConvInv'
  <1> SUFFICES ASSUME ConvInv, [ConvNext]_convVars PROVE ConvInv'
    OBVIOUS
  <1>1. CASE UNCHANGED convVars
    <2>1. /\ rows' = rows /\ answers' = answers /\ asks' = asks /\ cache' = cache /\ marked' = marked
          /\ lost' = lost /\ abandoned' = abandoned /\ crossed' = crossed
      BY <1>1, Zenon DEF convVars, convGhosts
    <2>2. StreamsEnd' /\ SessionIsOwn'
      BY <2>1, Zenon DEF ConvInv, StreamsEnd, SessionIsOwn
    <2> QED BY <2>1, <2>2, Zenon DEF ConvInv
  <1>2. CASE CreateConversation
    BY <1>2, CreateKeeps, Zenon
  <1>3. ASSUME NEW c \in Conv,
               \/ RenameConversation(c) \/ UpdateConversationContextPreferences(c) \/ DeleteConversation(c)
               \/ ArchiveConversation(c) \/ RestoreConversation(c) \/ ActivateConversation(c)
        PROVE  ConvInv'
    BY <1>3, RenameKeeps, PreferencesKeep, DeleteKeeps, ArchiveKeeps, RestoreKeeps, ActivateKeeps, Zenon
  <1>4. ASSUME NEW a \in Asks,
               \/ SubmitStreamWithProvider(a) \/ SubmitWithProvider(a)
               \/ AppendAssistantPromptWithProvider(a) \/ AppendMessages(a)
        PROVE  ConvInv'
    BY <1>4, AskKeeps, Zenon DEF SubmitStreamWithProvider, SubmitWithProvider, AppendAssistantPromptWithProvider,
                          AppendMessages
  <1>5. ASSUME NEW a \in Asks,
               \/ appendMessagesForConversation(a) \/ appendAssistantDelta(a) \/ DeltaFails(a)
               \/ ProviderFails(a) \/ persistAssistantFinalization(a) \/ FinalizationFails(a)
        PROVE  ConvInv'
    BY Zenon, <1>5, AppendKeeps, DeltaKeeps, DeltaFailsKeeps, ProviderFailsKeeps, FinalizationKeeps,
       FinalizationFailsKeeps
  <1>6. CASE RestartCore
    BY <1>6, RestartKeeps, Zenon
  <1> QED BY <1>1, <1>2, <1>3, <1>4, <1>5, <1>6, Zenon DEF ConvNext

(* The conversation in memory is the stored active one, no delta of a      *)
(* stream is lost or written twice, a streaming answer is being streamed,  *)
(* and a conversation keeps to its own provider session, whatever the      *)
(* operations, requests, failures and restarts (core/conversation).        *)
THEOREM ConversationsAreSoundAlways == ConvSpec => []ConversationsAreSound
  <1>1. ConvInit => ConvInv
    BY ConvInitKeeps
  <1>2. ConvInv /\ [ConvNext]_convVars => ConvInv'
    BY ConvNextKeeps
  <1>3. ConvInv => ConversationsAreSound
    BY ConvInvIsSound
  <1> QED BY <1>1, <1>2, <1>3, PTL DEF ConvSpec

-----------------------------------------------------------------------------
Elements(seq) == {seq[i] : i \in DOMAIN seq}
Once(seq) == \A i, j \in DOMAIN seq : seq[i] = seq[j] => i = j

(* A new element is listed once.                                           *)
LEMMA AppendOnce ==
  ASSUME NEW T, NEW g \in Seq(T), NEW x \in T, Once(g), x \notin Elements(g)
  PROVE  /\ Append(g, x) \in Seq(T) /\ Append(g, x) # <<>>
         /\ Once(Append(g, x)) /\ Elements(Append(g, x)) = Elements(g) \cup {x}
  <1> DEFINE h == Append(g, x)
  <1>1. h \in Seq(T) /\ h # <<>> /\ DOMAIN h = DOMAIN g \cup {Len(g) + 1}
    OBVIOUS
  <1>2. h[Len(g) + 1] = x /\ \A i \in DOMAIN g : h[i] = g[i]
    OBVIOUS
  <1> HIDE DEF h
  <1>3. Elements(h) = Elements(g) \cup {x}
    BY <1>1, <1>2, Zenon DEF Elements
  <1>4. Once(h)
    BY <1>1, <1>2, Zenon DEF Once, Elements
  <1> QED BY <1>1, <1>3, <1>4, Zenon DEF h

-----------------------------------------------------------------------------
(* Requests that may come side by side in any number: the server does not  *)
(* shut down, and no session is restarted while new ones are created.      *)
Harmless(kind) ==
  /\ \A c \in Calls : kind[c] # "shutdown"
  /\ (\A c \in Calls : kind[c] # "restart") \/ (\A c \in Calls : kind[c] # "sibling")

Launching == {"launch", "install"}

(* What a request is and where it is allow only these session ids: all     *)
(* requests that may start a group start it with the primary session.      *)
PathOK(r) ==
  /\ r.pc # "closeService" /\ r.next \in {"done", "choose"}
  /\ r.next = "choose" \/ r.pc = "choose" => r.kind = "restart"
  /\ r.pc \in Launching \cup {"enter"} => r.kind \in {"boot", "sibling", "restart"} /\ r.op # "none"
  /\ r.kind \in {"boot", "restart"} => r.sid = Primary
  /\ r.kind = "sibling" /\ r.op # "create" => r.sid = Primary

PathInv == (\A c \in Calls : PathOK(call[c])) /\ Harmless([c \in Calls |-> Kind(c)])

(* A launch in progress is the one that starting names, and what it is     *)
(* going to install is not there.                                          *)
LaunchInv ==
  \A c \in Calls : call[c].pc \in Launching =>
     /\ starting[call[c].sid] = c
     /\ call[c].op = "start" => ~HasGroup
     /\ call[c].op = "create" => group.sessions[call[c].sid] = None

(* The order lists the sessions of the group once; without new sessions    *)
(* there is but the primary one.                                           *)
GroupInv ==
  /\ Once(group.order)
  /\ \A s \in SessionIDs : group.sessions[s] # None <=> s \in Elements(group.order)
  /\ HasGroup => group.active \in SessionIDs /\ group.sessions[group.active] # None
  /\ (\A c \in Calls : Kind(c) # "sibling") => \A s \in SessionIDs \ {Primary} : group.sessions[s] = None

SessionsInv == TypeOK /\ PathInv /\ LaunchInv /\ GroupInv /\ NoOrphanedProcess

(* The step of a request changes its own record only, and not its kind.    *)
Only(c) ==
  /\ call' \in [Calls -> CallRecord]
  /\ \A d \in Calls : d # c => call'[d] = call[d]
  /\ call'[c].kind = call[c].kind /\ PathOK(call'[c])

LEMMA OnlyPath ==
  ASSUME SessionsInv, NEW c \in Calls, Only(c)
  PROVE  PathInv' /\ (\A d \in Calls : Kind(d)' = Kind(d))
<1>1. \A d \in Calls : Kind(d)' = Kind(d)
  BY Zenon DEF Only, Kind
<1>2. \A d \in Calls : PathOK(call[d])'
  <2>1. \A d \in Calls : PathOK(call[d])
    BY Zenon DEF SessionsInv, PathInv
  <2>2. \A d \in Calls : PathOK(call'[d])
    BY <2>1, Zenon DEF Only
  <2> QED BY <2>2, Zenon DEF PathOK
<1>3. Harmless([d \in Calls |-> Kind(d)])'
  BY <1>1, Zenon DEF SessionsInv, PathInv, Harmless
<1> QED BY <1>1, <1>2, <1>3, Zenon DEF PathInv

(* A step of a request that changes nothing else, begins no launch and     *)
(* neither has nor gets a process in its hands.                            *)
LEMMA QuietKeeps ==
  ASSUME SessionsInv, NEW c \in Calls, Only(c), TypeOK', UNCHANGED <<group, starting, proc>>,
         ~At(c, "install"), ~At(c, "kill"), call'[c].pc \notin Launching
  PROVE  SessionsInv'
<1>1. PathInv' /\ (\A d \in Calls : Kind(d)' = Kind(d))
  BY OnlyPath, Zenon
<1>2. LaunchInv'
  BY Zenon DEF SessionsInv, LaunchInv, Only, HasGroup
<1>3. GroupInv'
  BY <1>1 DEF SessionsInv, GroupInv, HasGroup, Once, Elements
<1>4. NoOrphanedProcess'
  <2>1. \A d \in Calls : (At(d, "install") => At(d, "install")') /\ (At(d, "kill") => call'[d] = call[d])
    BY Zenon DEF Only, At
  <2> QED BY <2>1, Zenon DEF SessionsInv, NoOrphanedProcess, Processes, At
<1> QED BY <1>1, <1>2, <1>3, <1>4, Zenon DEF SessionsInv

(* The record a step writes.                                               *)
LEMMA Put ==
  ASSUME SessionsInv, NEW c \in Calls, NEW r \in CallRecord, r.kind = call[c].kind, PathOK(r),
         call' = [call EXCEPT ![c] = r]
  PROVE  Only(c) /\ call'[c] = r
BY Zenon DEF SessionsInv, TypeOK, Only

LEMMA LookSiblingKeeps == ASSUME SessionsInv, NEW c \in Calls, LookSibling(c) PROVE SessionsInv'
<1>1. TypeOK /\ call[c] \in CallRecord /\ PathOK(call[c]) /\ Primary \in SessionIDs /\ c \in SessionIDs
  BY SessionsAssumption, Zenon DEF SessionsInv, PathInv, SessionIDs, TypeOK
<1>2. PICK r : r = [call[c] EXCEPT !.pc = "enter",
                      !.sid = IF HasGroup THEN c ELSE Primary,
                      !.op = IF HasGroup THEN "create" ELSE "start"]
  BY Zenon
<1>3. call' = [call EXCEPT ![c] = r]
  BY <1>2, Zenon DEF LookSibling
<1>4. r \in CallRecord /\ r.kind = call[c].kind /\ r.pc = "enter" /\ PathOK(r)
  BY <1>1, <1>2, Zenon DEF LookSibling, Kind, CallRecord, PCs, PathOK, Launching
<1>5. Only(c) /\ call'[c] = r
  BY <1>3, <1>4, Put, Zenon
<1>6. TypeOK'
  BY <1>1, <1>5, Zenon DEF LookSibling, TypeOK, Only
<1> QED BY <1>4, <1>5, <1>6, QuietKeeps, Zenon DEF LookSibling, At, Launching

LEMMA Goes ==
  ASSUME SessionsInv, NEW c \in Calls, NEW pc \in PCs, Goto(c, pc),
         pc # "closeService", pc = "choose" => Kind(c) = "restart",
         pc \in Launching \cup {"enter"} => call[c].pc \in Launching \cup {"enter"}
  PROVE  /\ Only(c) /\ call'[c].pc = pc /\ call'[c].sid = call[c].sid /\ call'[c].op = call[c].op
         /\ call'[c].kill = call[c].kill
<1>1. call[c] \in CallRecord /\ PathOK(call[c])
  BY Zenon DEF SessionsInv, PathInv, TypeOK
<1>2. PICK r : r = [call[c] EXCEPT !.pc = pc]
  BY Zenon
<1>3. call' = [call EXCEPT ![c] = r]
  BY <1>2, Zenon DEF Goto
<1>4. /\ r \in CallRecord /\ r.kind = call[c].kind /\ PathOK(r)
      /\ r.pc = pc /\ r.sid = call[c].sid /\ r.op = call[c].op /\ r.kill = call[c].kill
  BY <1>1, <1>2, Zenon DEF CallRecord, PathOK, Kind
<1> QED BY <1>3, <1>4, Put, Zenon

LEMMA BeginKeeps == ASSUME SessionsInv, NEW c \in Calls, Begin(c) PROVE SessionsInv'
<1>1. /\ TypeOK /\ call[c] \in CallRecord /\ PathOK(call[c]) /\ Kind(c) # "shutdown"
      /\ Primary \in SessionIDs
  BY SessionsAssumption, Zenon DEF SessionsInv, PathInv, Harmless, SessionIDs, TypeOK
<1>2. PICK s \in SessionIDs, pc \in {"done", "enter", "look", "focus", "count", "remove"} :
        /\ Kind(c) \notin {"focus", "closeSession"} => s = Primary
        /\ pc = "enter" => Kind(c) = "boot"
        /\ call' = [call EXCEPT ![c] = [@ EXCEPT !.sid = s, !.op = "start", !.pc = pc]]
  <2> DEFINE next == CASE Kind(c) = "shutdown" -> "closeService"
               [] ~present -> "done"
               [] Kind(c) = "boot" -> "enter"
               [] Kind(c) \in {"sibling", "restart"} -> "look"
               [] Kind(c) = "focus" -> "focus"
               [] Kind(c) = "closeSession" -> "count"
               [] Kind(c) = "closeWidget" -> "remove"
  <2>1. next \in {"done", "enter", "look", "focus", "count", "remove"} /\ (next = "enter" => Kind(c) = "boot")
    BY <1>1, Zenon DEF Begin, Kind, CallRecord, Kinds
  <2>2. PICK s \in SessionIDs :
        /\ Kind(c) \notin {"focus", "closeSession"} => s = Primary
        /\ call' = [call EXCEPT ![c] = [@ EXCEPT !.sid = s, !.op = "start", !.pc = next]]
    BY Zenon DEF Begin
  <2> HIDE DEF next
  <2> QED BY <2>1, <2>2, Zenon
<1>3. PICK r : r = [call[c] EXCEPT !.sid = s, !.op = "start", !.pc = pc]
  BY Zenon
<1>4. call' = [call EXCEPT ![c] = r]
  BY <1>2, <1>3, Zenon
<1>5. r \in CallRecord /\ r.kind = call[c].kind /\ r.pc = pc /\ PathOK(r)
  BY <1>1, <1>2, <1>3, Zenon DEF Kind, CallRecord, PCs, PathOK, Launching
<1>6. Only(c) /\ call'[c] = r
  BY <1>4, <1>5, Put, Zenon
<1>7. TypeOK'
  BY <1>1, <1>6, Zenon DEF Begin, TypeOK, Only
<1> QED BY <1>2, <1>5, <1>6, <1>7, QuietKeeps, Zenon DEF Begin, At, Launching

LEMMA LookRestartKeeps == ASSUME SessionsInv, NEW c \in Calls, LookRestart(c) PROVE SessionsInv'
<1>1. TypeOK /\ call[c] \in CallRecord /\ PathOK(call[c]) /\ Primary \in SessionIDs
  BY SessionsAssumption, Zenon DEF SessionsInv, PathInv, SessionIDs, TypeOK
<1>2. HasGroup => group.active = Primary
  <2>1. \A d \in Calls : Kind(d) # "sibling"
    BY Zenon DEF LookRestart, SessionsInv, PathInv, Harmless
  <2> QED BY <2>1, Zenon DEF SessionsInv, GroupInv
<1>3. PICK r : r = [call[c] EXCEPT !.pc = "closeOne", !.next = "choose",
                      !.sid = IF HasGroup THEN group.active ELSE Primary]
  BY Zenon
<1>4. call' = [call EXCEPT ![c] = r]
  BY <1>3, Zenon DEF LookRestart
<1>5. r \in CallRecord /\ r.kind = call[c].kind /\ r.pc = "closeOne" /\ PathOK(r)
  BY <1>1, <1>2, <1>3, Zenon DEF LookRestart, Kind, CallRecord, PCs, PathOK, Launching
<1>6. Only(c) /\ call'[c] = r
  BY <1>4, <1>5, Put, Zenon
<1>7. TypeOK'
  BY <1>1, <1>6, Zenon DEF LookRestart, TypeOK, Only
<1> QED BY <1>5, <1>6, <1>7, QuietKeeps, Zenon DEF LookRestart, At, Launching

LEMMA ChooseRestartKeeps == ASSUME SessionsInv, NEW c \in Calls, ChooseRestart(c) PROVE SessionsInv'
<1>1. TypeOK /\ call[c] \in CallRecord /\ PathOK(call[c])
  BY Zenon DEF SessionsInv, PathInv, TypeOK
<1>2. PICK r : r = [call[c] EXCEPT !.pc = "enter", !.op = IF HasGroup THEN "create" ELSE "start"]
  BY Zenon
<1>3. call' = [call EXCEPT ![c] = r]
  BY <1>2, Zenon DEF ChooseRestart
<1>4. r \in CallRecord /\ r.kind = call[c].kind /\ r.pc = "enter" /\ PathOK(r)
  BY <1>1, <1>2, Zenon DEF ChooseRestart, At, CallRecord, PCs, PathOK, Launching
<1>5. Only(c) /\ call'[c] = r
  BY <1>3, <1>4, Put, Zenon
<1>6. TypeOK'
  BY <1>1, <1>5, Zenon DEF ChooseRestart, TypeOK, Only
<1> QED BY <1>4, <1>5, <1>6, QuietKeeps, Zenon DEF ChooseRestart, At, Launching

LEMMA ObserveFailsKeeps == ASSUME SessionsInv, NEW c \in Calls, ObserveFails(c) PROVE SessionsInv'
<1>1. TypeOK /\ call[c] \in CallRecord /\ PathOK(call[c])
  BY Zenon DEF SessionsInv, PathInv, TypeOK
<1>2. PICK r : r = [call[c] EXCEPT !.pc = "closeOne", !.next = "done"]
  BY Zenon
<1>3. call' = [call EXCEPT ![c] = r]
  BY <1>2, Zenon DEF ObserveFails
<1>4. r \in CallRecord /\ r.kind = call[c].kind /\ r.pc = "closeOne" /\ PathOK(r)
  BY <1>1, <1>2, Zenon DEF CallRecord, PCs, PathOK, Launching
<1>5. Only(c) /\ call'[c] = r
  BY <1>3, <1>4, Put, Zenon
<1>6. TypeOK'
  BY <1>1, <1>5, Zenon DEF ObserveFails, TypeOK, Only
<1> QED BY <1>4, <1>5, <1>6, QuietKeeps, Zenon DEF ObserveFails, At, Launching

LEMMA WaitAnsweredKeeps == ASSUME SessionsInv, NEW c \in Calls, WaitAnswered(c) PROVE SessionsInv'
<1>1. PICK pc \in {"observe", "done"} : Goto(c, pc)
  BY Zenon DEF WaitAnswered
<1>2. Only(c) /\ call'[c].pc = pc
  BY <1>1, Goes, Zenon DEF PCs, Launching
<1>3. TypeOK'
  BY <1>2, Zenon DEF SessionsInv, WaitAnswered, TypeOK, Only
<1> QED BY <1>2, <1>3, QuietKeeps, Zenon DEF WaitAnswered, At, Launching

LEMMA WaitCancelledKeeps == ASSUME SessionsInv, NEW c \in Calls, WaitCancelled(c) PROVE SessionsInv'
<1>1. PICK pc \in {"done"} : Goto(c, pc)
  BY Zenon DEF WaitCancelled
<1>2. Only(c) /\ call'[c].pc = pc
  BY <1>1, Goes, Zenon DEF PCs, Launching
<1>3. TypeOK'
  BY <1>2, Zenon DEF SessionsInv, WaitCancelled, TypeOK, Only
<1> QED BY <1>2, <1>3, QuietKeeps, Zenon DEF WaitCancelled, At, Launching

LEMMA ObserveOkKeeps == ASSUME SessionsInv, NEW c \in Calls, ObserveOk(c) PROVE SessionsInv'
<1>1. PICK pc \in {"done"} : Goto(c, pc)
  BY Zenon DEF ObserveOk
<1>2. Only(c) /\ call'[c].pc = pc
  BY <1>1, Goes, Zenon DEF PCs, Launching
<1>3. TypeOK'
  BY <1>2, Zenon DEF SessionsInv, ObserveOk, TypeOK, Only
<1> QED BY <1>2, <1>3, QuietKeeps, Zenon DEF ObserveOk, At, Launching

LEMMA CountSessionsKeeps == ASSUME SessionsInv, NEW c \in Calls, CountSessions(c) PROVE SessionsInv'
<1>1. PICK pc \in {"closeOne", "done"} : Goto(c, pc)
  BY Zenon DEF CountSessions
<1>2. Only(c) /\ call'[c].pc = pc
  BY <1>1, Goes, Zenon DEF PCs, Launching
<1>3. TypeOK'
  BY <1>2, Zenon DEF SessionsInv, CountSessions, TypeOK, Only
<1> QED BY <1>2, <1>3, QuietKeeps, Zenon DEF CountSessions, At, Launching

LEMMA RemoveWidgetKeeps == ASSUME SessionsInv, NEW c \in Calls, RemoveWidget(c) PROVE SessionsInv'
<1>1. PICK pc \in {"closeAll", "done"} : Goto(c, pc)
  BY Zenon DEF RemoveWidget
<1>2. Only(c) /\ call'[c].pc = pc
  BY <1>1, Goes, Zenon DEF PCs, Launching
<1>3. TypeOK'
  BY <1>2, Zenon DEF SessionsInv, RemoveWidget, TypeOK, Only
<1> QED BY <1>2, <1>3, QuietKeeps, Zenon DEF RemoveWidget, At, Launching

(* What stays when the group does.                                         *)
LEMMA GroupStays ==
  ASSUME SessionsInv, UNCHANGED group, \A d \in Calls : Kind(d)' = Kind(d)
  PROVE  GroupInv'
  BY DEF SessionsInv, GroupInv, HasGroup, Once, Elements

LEMMA GroupKept ==
  ASSUME SessionsInv, NEW c \in Calls, Only(c), UNCHANGED group
  PROVE  GroupInv'
  BY OnlyPath, GroupStays, Zenon

LEMMA ShellsKept ==
  ASSUME SessionsInv, NEW c \in Calls, Only(c), UNCHANGED <<group, proc>>,
         ~At(c, "install"), At(c, "kill") => call[c].kill = {}
  PROVE  NoOrphanedProcess'
<1>1. \A d \in Calls : (At(d, "install") => At(d, "install")')
  BY Zenon DEF Only, At
<1>2. \A d \in Calls : At(d, "kill") /\ call[d].kill # {} => call'[d] = call[d]
  BY Zenon DEF Only, At
<1> QED BY <1>1, <1>2, Zenon DEF SessionsInv, NoOrphanedProcess, Processes, At

(* The other launches when one of them leaves the map of launches.         *)
LEMMA OtherLaunches ==
  ASSUME SessionsInv, NEW c \in Calls, call[c].pc \in Launching, Only(c), call'[c].pc \notin Launching,
         starting' = [starting EXCEPT ![call[c].sid] = None],
         NEW d \in Calls, call'[d].pc \in Launching
  PROVE  /\ d # c /\ call'[d] = call[d] /\ call[d].pc \in Launching
         /\ call[d].sid # call[c].sid /\ starting'[call[d].sid] = d /\ call[d].sid \in SessionIDs
<1>1. d # c /\ call'[d] = call[d] /\ call[d].pc \in Launching
  BY Zenon DEF Only
<1>2. starting[call[d].sid] = d /\ starting[call[c].sid] = c /\ call[d].sid \in SessionIDs
  BY <1>1, Zenon DEF SessionsInv, LaunchInv, TypeOK, CallRecord
<1> QED BY <1>1, <1>2, Zenon DEF SessionsInv, TypeOK

LEMMA EnterKeeps == ASSUME SessionsInv, NEW c \in Calls, Enter(c) PROVE SessionsInv'
<1> DEFINE s == call[c].sid
<1>0. TypeOK /\ call[c] \in CallRecord /\ PathOK(call[c]) /\ s \in SessionIDs
  BY Zenon DEF SessionsInv, PathInv, TypeOK, CallRecord
<1>1. CASE \E pc \in {"done", "observe"} : Goto(c, pc) /\ UNCHANGED starting
  <2>1. PICK pc \in {"done", "observe"} : Goto(c, pc)
    BY <1>1, Zenon
  <2>2. Only(c) /\ call'[c].pc = pc
    BY <2>1, Goes, Zenon DEF PCs, Launching
  <2>3. TypeOK'
    BY <1>1, <2>2, Zenon DEF SessionsInv, Enter, TypeOK, Only
  <2> QED BY <1>1, <2>2, <2>3, QuietKeeps, Zenon DEF Enter, At, Launching
<1>2. CASE /\ starting[s] # None /\ UNCHANGED starting
           /\ call' = [call EXCEPT ![c] = [@ EXCEPT !.pc = "wait", !.waitsFor = starting[s]]]
  <2>1. PICK r : r = [call[c] EXCEPT !.pc = "wait", !.waitsFor = starting[s]]
    BY Zenon
  <2>2. call' = [call EXCEPT ![c] = r]
    BY <1>2, <2>1, Zenon
  <2>3. starting[s] \in Calls
    BY <1>0, <1>2, Zenon DEF TypeOK
  <2>4. r \in CallRecord /\ r.kind = call[c].kind /\ r.pc = "wait" /\ PathOK(r)
    BY <1>0, <2>1, <2>3, Zenon DEF CallRecord, PCs, PathOK, Launching
  <2>5. Only(c) /\ call'[c] = r
    BY <2>2, <2>4, Put, Zenon
  <2>6. TypeOK'
    BY <1>0, <1>2, <2>5, Zenon DEF Enter, TypeOK, Only
  <2> QED BY <1>2, <2>4, <2>5, <2>6, QuietKeeps, Zenon DEF Enter, At, Launching
<1>3. CASE /\ ~(call[c].op = "create" /\ ~HasGroup) /\ ~Answered(c) /\ starting[s] = None
           /\ starting' = [starting EXCEPT ![s] = c] /\ Goto(c, "launch")
  <2>1. /\ Only(c) /\ call'[c].pc = "launch" /\ call'[c].sid = s /\ call'[c].op = call[c].op
    BY <1>3, Goes, Zenon DEF Enter, At, PCs, Launching
  <2>2. TypeOK'
    BY <1>0, <1>3, <2>1, Zenon DEF Enter, TypeOK, Only
  <2>3. UNCHANGED <<group, proc>> /\ At(c, "enter")
    BY Zenon DEF Enter
  <2>4. LaunchInv'
    <3> SUFFICES ASSUME NEW d \in Calls, call'[d].pc \in Launching
                 PROVE  /\ starting'[call'[d].sid] = d
                        /\ call'[d].op = "start" => ~HasGroup'
                        /\ call'[d].op = "create" => group'.sessions[call'[d].sid] = None
      BY Zenon DEF LaunchInv
    <3>1. CASE d = c
      BY <1>0, <1>3, <2>1, <2>3, <3>1, Zenon DEF Answered, TypeOK, HasGroup
    <3>2. CASE d # c
      <4>1. call'[d] = call[d]
        BY <2>1, <3>2, Zenon DEF Only
      <4>2. /\ starting[call[d].sid] = d /\ call[d].sid # s /\ call[d].sid \in SessionIDs
            /\ call[d].op = "start" => ~HasGroup
            /\ call[d].op = "create" => group.sessions[call[d].sid] = None
        BY <1>3, <4>1, SessionsAssumption DEF SessionsInv, LaunchInv, TypeOK, CallRecord, SessionIDs
      <4> QED BY <1>0, <1>3, <2>3, <4>1, <4>2, Zenon DEF TypeOK, HasGroup
    <3> QED BY <3>1, <3>2, Zenon
  <2> QED BY <2>1, <2>2, <2>3, <2>4, OnlyPath, GroupKept, ShellsKept, Zenon DEF SessionsInv, At
<1> QED BY <1>1, <1>2, <1>3, Zenon DEF Enter

LEMMA LaunchKeeps == ASSUME SessionsInv, NEW c \in Calls, Launch(c) PROVE SessionsInv'
<1>1. /\ Only(c) /\ call'[c].pc = "install" /\ call'[c].sid = call[c].sid /\ call'[c].op = call[c].op
  BY Goes, Zenon DEF Launch, At, PCs, Launching
<1>2. TypeOK'
  BY <1>1, Zenon DEF SessionsInv, Launch, TypeOK, Only
<1>3. LaunchInv'
  BY <1>1 DEF SessionsInv, LaunchInv, Launch, At, Only, HasGroup, Launching
<1>4. NoOrphanedProcess'
  <2>1. \A p \in Calls : p # c => proc'[p] = proc[p]
    BY Zenon DEF Launch, SessionsInv, TypeOK
  <2>2. At(c, "install")' /\ \A d \in Calls : d # c => call'[d] = call[d]
    BY <1>1, Zenon DEF At, Only
  <2>3. ~At(c, "kill") /\ UNCHANGED group
    BY Zenon DEF Launch, At
  <2> QED BY <2>1, <2>2, <2>3, Zenon DEF SessionsInv, NoOrphanedProcess, Processes, At
<1> QED BY <1>1, <1>2, <1>3, <1>4, OnlyPath, GroupKept, Zenon DEF SessionsInv, Launch

LEMMA LaunchFailsKeeps == ASSUME SessionsInv, NEW c \in Calls, LaunchFails(c) PROVE SessionsInv'
<1>1. Only(c) /\ call'[c].pc = "done"
  BY Goes, Zenon DEF LaunchFails, At, PCs, Launching
<1>2. call[c].sid \in SessionIDs
  BY Zenon DEF SessionsInv, TypeOK, CallRecord
<1>3. TypeOK'
  BY <1>1, <1>2, Zenon DEF SessionsInv, LaunchFails, TypeOK, Only
<1>4. LaunchInv'
  <2> SUFFICES ASSUME NEW d \in Calls, call'[d].pc \in Launching
               PROVE  /\ starting'[call'[d].sid] = d
                      /\ call'[d].op = "start" => ~HasGroup'
                      /\ call'[d].op = "create" => group'.sessions[call'[d].sid] = None
    BY Zenon DEF LaunchInv
  <2>1. call'[d] = call[d] /\ call[d].pc \in Launching /\ starting'[call[d].sid] = d
    BY <1>1, OtherLaunches, Zenon DEF LaunchFails, At, Launching
  <2> QED BY <2>1, Zenon DEF SessionsInv, LaunchInv, LaunchFails, HasGroup
<1> QED BY <1>1, <1>3, <1>4, OnlyPath, GroupKept, ShellsKept, Zenon DEF SessionsInv, LaunchFails, At

(* Without a group no session and no process is listed.                    *)
LEMMA NothingListed ==
  ASSUME GroupInv, ~HasGroup
  PROVE  (\A s \in SessionIDs : group.sessions[s] = None) /\ Processes(group) = {}
<1>1. Elements(group.order) = {}
  BY DEF HasGroup, Elements
<1>2. \A s \in SessionIDs : group.sessions[s] = None
  BY <1>1, Zenon DEF GroupInv
<1> QED BY <1>2, Zenon DEF Processes

LEMMA InstallGroupKeeps == ASSUME SessionsInv, NEW c \in Calls, InstallGroup(c) PROVE SessionsInv'
<1> DEFINE s == call[c].sid
<1>0. TypeOK /\ s \in SessionIDs /\ PathOK(call[c]) /\ call[c].pc \in Launching
  BY Zenon DEF SessionsInv, PathInv, TypeOK, CallRecord, InstallGroup, At, Launching
<1>1. Only(c) /\ call'[c].pc = "observe"
  BY Goes, Zenon DEF InstallGroup, PCs, Launching
<1>2. /\ group' \in [active : SessionIDs \cup {None}, order : Seq(SessionIDs), sessions : [SessionIDs -> Calls \cup {None}]]
      /\ group'.active = s /\ group'.order = <<s>>
      /\ \A t \in SessionIDs : group'.sessions[t] = IF t = s THEN c ELSE None
  <2>1. PICK live : live = [NoGroup.sessions EXCEPT ![s] = c]
    BY Zenon
  <2>2. group' = [active |-> s, order |-> <<s>>, sessions |-> live]
    BY <2>1, Zenon DEF InstallGroup
  <2>3. NoGroup.sessions = [t \in SessionIDs |-> None]
    BY Zenon DEF NoGroup
  <2>4. live \in [SessionIDs -> Calls \cup {None}] /\ \A t \in SessionIDs : live[t] = IF t = s THEN c ELSE None
    BY <1>0, <2>1, <2>3, Zenon
  <2>5. <<s>> \in Seq(SessionIDs) /\ s \in SessionIDs \cup {None}
    BY <1>0
  <2> HIDE DEF s
  <2> QED BY <2>2, <2>4, <2>5, Zenon
<1>3. TypeOK'
  BY <1>0, <1>1, <1>2, Zenon DEF InstallGroup, TypeOK, Only
<1>4. Processes(group) = {}
  BY <1>0, NothingListed, Zenon DEF SessionsInv, LaunchInv, InstallGroup
<1>5. c # None
  BY SessionsAssumption, Zenon DEF SessionIDs
<1>6. LaunchInv'
  <2> SUFFICES ASSUME NEW d \in Calls, call'[d].pc \in Launching
               PROVE  /\ starting'[call'[d].sid] = d
                      /\ call'[d].op = "start" => ~HasGroup'
                      /\ call'[d].op = "create" => group'.sessions[call'[d].sid] = None
    BY Zenon DEF LaunchInv
  <2>1. /\ call'[d] = call[d] /\ call[d].pc \in Launching /\ starting'[call[d].sid] = d
        /\ call[d].sid # s /\ call[d].sid \in SessionIDs
    BY <1>0, <1>1, OtherLaunches, Zenon DEF InstallGroup, Launching
  <2>2. call[d].op # "start"
    <3>1. PathOK(call[d])
      BY Zenon DEF SessionsInv, PathInv
    <3> QED BY <1>0, <2>1, <3>1, Zenon DEF InstallGroup, PathOK
  <2> QED BY <1>2, <2>1, <2>2, Zenon
<1>7. GroupInv'
  <2>1. Once(group'.order) /\ Elements(group'.order) = {s}
    BY <1>2 DEF Once, Elements
  <2>2. \A t \in SessionIDs : group'.sessions[t] # None <=> t \in Elements(group'.order)
    BY <1>2, <1>5, <2>1, Zenon
  <2>3. group'.active \in SessionIDs /\ group'.sessions[group'.active] # None
    BY <1>0, <1>2, <1>5, Zenon
  <2>4. (\A d \in Calls : Kind(d)' # "sibling") => \A t \in SessionIDs \ {Primary} : group'.sessions[t] = None
    BY <1>0, <1>1, <1>2, OnlyPath, Zenon DEF Kind, PathOK
  <2> QED BY <2>1, <2>2, <2>3, <2>4, Zenon DEF GroupInv, HasGroup, Once, Elements
<1>8. NoOrphanedProcess'
  <2>1. c \in Processes(group')
    BY <1>0, <1>2, <1>5, Zenon DEF Processes
  <2>2. \A d \in Calls : d # c => call'[d] = call[d]
    BY <1>1, Zenon DEF Only
  <2>3. ~At(c, "kill") /\ UNCHANGED proc
    BY Zenon DEF InstallGroup, At
  <2> QED BY <1>4, <2>1, <2>2, <2>3, Zenon DEF SessionsInv, NoOrphanedProcess, At, Processes
<1> QED BY <1>1, <1>3, <1>6, <1>7, <1>8, OnlyPath, Zenon DEF SessionsInv

LEMMA InstallSessionKeeps == ASSUME SessionsInv, NEW c \in Calls, InstallSession(c) PROVE SessionsInv'
<1> DEFINE s == call[c].sid
<1>0. /\ TypeOK /\ s \in SessionIDs /\ PathOK(call[c]) /\ call[c].pc \in Launching
      /\ group.sessions[s] = None /\ c # None /\ group.order \in Seq(SessionIDs)
  BY SessionsAssumption, Zenon
  DEF SessionsInv, PathInv, TypeOK, CallRecord, InstallSession, At, Launching, LaunchInv, SessionIDs
<1>1. Only(c) /\ call'[c].pc = "observe"
  BY Goes, Zenon DEF InstallSession, PCs, Launching
<1>2. /\ Append(group.order, s) \in Seq(SessionIDs) /\ Append(group.order, s) # <<>>
      /\ Once(Append(group.order, s)) /\ Elements(Append(group.order, s)) = Elements(group.order) \cup {s}
  BY <1>0, AppendOnce DEF SessionsInv, GroupInv
<1>3. /\ group' \in [active : SessionIDs \cup {None}, order : Seq(SessionIDs), sessions : [SessionIDs -> Calls \cup {None}]]
      /\ group'.active = s /\ group'.order = Append(group.order, s)
      /\ \A t \in SessionIDs : group'.sessions[t] = IF t = s THEN c ELSE group.sessions[t]
  BY <1>0, <1>2, Zenon DEF InstallSession, TypeOK
<1>4. TypeOK'
  BY <1>0, <1>1, <1>3, Zenon DEF InstallSession, TypeOK, Only
<1>6. LaunchInv'
  <2> SUFFICES ASSUME NEW d \in Calls, call'[d].pc \in Launching
               PROVE  /\ starting'[call'[d].sid] = d
                      /\ call'[d].op = "start" => ~HasGroup'
                      /\ call'[d].op = "create" => group'.sessions[call'[d].sid] = None
    BY Zenon DEF LaunchInv
  <2>1. /\ call'[d] = call[d] /\ call[d].pc \in Launching /\ starting'[call[d].sid] = d
        /\ call[d].sid # s /\ call[d].sid \in SessionIDs
    BY <1>0, <1>1, OtherLaunches, Zenon DEF InstallSession, Launching
  <2>2. call[d].op # "start" /\ (call[d].op = "create" => group.sessions[call[d].sid] = None)
    BY <2>1, Zenon DEF SessionsInv, LaunchInv, InstallSession
  <2> QED BY <1>3, <2>1, <2>2, Zenon
<1>7. GroupInv'
  <2>1. Once(group'.order) /\ Elements(group'.order) = Elements(group.order) \cup {s}
    BY <1>2, <1>3, Zenon
  <2>2. \A t \in SessionIDs : group'.sessions[t] # None <=> t \in Elements(group'.order)
    BY <1>0, <1>3, <2>1, Zenon DEF SessionsInv, GroupInv
  <2>3. group'.active \in SessionIDs /\ group'.sessions[group'.active] # None
    BY <1>0, <1>3, Zenon
  <2>4. (\A d \in Calls : Kind(d)' # "sibling") => \A t \in SessionIDs \ {Primary} : group'.sessions[t] = None
    BY <1>0, <1>1, <1>3, OnlyPath, Zenon DEF Kind, PathOK, SessionsInv, GroupInv
  <2> QED BY <2>1, <2>2, <2>3, <2>4, Zenon DEF GroupInv, HasGroup, Once, Elements
<1>8. NoOrphanedProcess'
  <2>1. c \in Processes(group') /\ Processes(group) \subseteq Processes(group')
    <3>1. \A t \in SessionIDs : group.sessions[t] # None => group'.sessions[t] = group.sessions[t]
      BY <1>0, <1>3, Zenon
    <3>2. group'.sessions[s] = c
      BY <1>0, <1>3, Zenon
    <3> QED BY <1>0, <3>1, <3>2, ZenonT(30) DEF Processes
  <2>2. \A d \in Calls : d # c => call'[d] = call[d]
    BY <1>1, Zenon DEF Only
  <2>3. ~At(c, "kill") /\ UNCHANGED proc
    BY Zenon DEF InstallSession, At
  <2> QED BY <2>1, <2>2, <2>3, Zenon DEF SessionsInv, NoOrphanedProcess, At, Processes
<1> QED BY <1>1, <1>4, <1>6, <1>7, <1>8, OnlyPath, Zenon DEF SessionsInv

LEMMA InstallRefusedKeeps == ASSUME SessionsInv, NEW c \in Calls, InstallRefused(c) PROVE SessionsInv'
<1>0. /\ TypeOK /\ call[c] \in CallRecord /\ call[c].sid \in SessionIDs /\ PathOK(call[c])
      /\ call[c].pc \in Launching
  BY Zenon DEF SessionsInv, PathInv, TypeOK, CallRecord, InstallRefused, At, Launching
<1>1. PICK r : r = [call[c] EXCEPT !.pc = "kill", !.kill = {c}, !.next = "done"]
  BY Zenon
<1>2. call' = [call EXCEPT ![c] = r]
  BY <1>1, Zenon DEF InstallRefused
<1>3. r \in CallRecord /\ r.kind = call[c].kind /\ r.pc = "kill" /\ r.kill = {c} /\ PathOK(r)
  BY <1>0, <1>1, Zenon DEF CallRecord, PCs, PathOK, Launching
<1>4. Only(c) /\ call'[c] = r
  BY <1>2, <1>3, Put, Zenon
<1>5. TypeOK'
  BY <1>0, <1>4, Zenon DEF InstallRefused, TypeOK, Only
<1>6. LaunchInv'
  <2> SUFFICES ASSUME NEW d \in Calls, call'[d].pc \in Launching
               PROVE  /\ starting'[call'[d].sid] = d
                      /\ call'[d].op = "start" => ~HasGroup'
                      /\ call'[d].op = "create" => group'.sessions[call'[d].sid] = None
    BY Zenon DEF LaunchInv
  <2>1. call'[d] = call[d] /\ call[d].pc \in Launching /\ starting'[call[d].sid] = d
    BY <1>0, <1>3, <1>4, OtherLaunches, Zenon DEF InstallRefused, Launching
  <2> QED BY <2>1, Zenon DEF SessionsInv, LaunchInv, InstallRefused, HasGroup
<1>7. NoOrphanedProcess'
  <2>1. At(c, "kill")' /\ c \in call'[c].kill
    BY <1>3, <1>4, Zenon DEF At
  <2>2. \A d \in Calls : d # c => call'[d] = call[d]
    BY <1>4, Zenon DEF Only
  <2>3. ~At(c, "kill") /\ UNCHANGED <<group, proc>>
    BY Zenon DEF InstallRefused, At
  <2> QED BY <2>1, <2>2, <2>3, Zenon DEF SessionsInv, NoOrphanedProcess, At, Processes
<1> QED BY <1>4, <1>5, <1>6, <1>7, OnlyPath, GroupKept, Zenon DEF SessionsInv, InstallRefused

(* Launches and group when sessions are closed by a request that does not  *)
(* launch.                                                                 *)
LEMMA ClosedKeeps ==
  ASSUME SessionsInv, NEW c \in Calls, Only(c), ~At(c, "install"), ~At(c, "kill"), UNCHANGED <<starting, proc>>,
         call'[c].pc = "kill", TypeOK',
         \A t \in SessionIDs : group'.sessions[t] \in {group.sessions[t], None},
         \A t \in SessionIDs : group'.sessions[t] # None <=> t \in Elements(group'.order),
         \A t \in SessionIDs : group.sessions[t] # None /\ group'.sessions[t] = None =>
            group.sessions[t] \in call'[c].kill,
         Once(group'.order),
         group'.order # <<>> => HasGroup /\ group'.active \in SessionIDs /\ group'.sessions[group'.active] # None
  PROVE  SessionsInv'
<1>1. PathInv' /\ \A d \in Calls : Kind(d)' = Kind(d)
  BY OnlyPath, Zenon
<1>2. LaunchInv'
  <2> SUFFICES ASSUME NEW d \in Calls, call'[d].pc \in Launching
               PROVE  /\ starting'[call'[d].sid] = d
                      /\ call'[d].op = "start" => ~HasGroup'
                      /\ call'[d].op = "create" => group'.sessions[call'[d].sid] = None
    BY Zenon DEF LaunchInv
  <2>1. d # c /\ call'[d] = call[d] /\ call[d].sid \in SessionIDs
    BY Zenon DEF Only, Launching, SessionsInv, TypeOK, CallRecord
  <2> QED BY <2>1, ZenonT(30) DEF SessionsInv, LaunchInv, HasGroup
<1>3. GroupInv'
  <2>1. (\A d \in Calls : Kind(d)' # "sibling") => \A t \in SessionIDs \ {Primary} : group'.sessions[t] = None
    BY <1>1, Zenon DEF SessionsInv, GroupInv
  <2> QED BY <2>1, Zenon DEF GroupInv, HasGroup, Once, Elements
<1>4. NoOrphanedProcess'
  <2>1. \A p \in Processes(group) : p \in Processes(group') \/ p \in call'[c].kill
    BY Zenon DEF Processes
  <2>2. \A d \in Calls : d # c => call'[d] = call[d]
    BY Zenon DEF Only
  <2> QED BY <2>1, <2>2 DEF SessionsInv, NoOrphanedProcess, At, Processes
<1> QED BY <1>1, <1>2, <1>3, <1>4, Zenon DEF SessionsInv

LEMMA CloseAllKeeps == ASSUME SessionsInv, NEW c \in Calls, CloseAll(c) PROVE SessionsInv'
<1>0. TypeOK /\ call[c] \in CallRecord /\ PathOK(call[c]) /\ At(c, "closeAll")
  BY Zenon DEF SessionsInv, PathInv, TypeOK, CloseAll
<1>1. PICK r : r = [call[c] EXCEPT !.pc = "kill", !.kill = Processes(group)]
  BY Zenon
<1>2. call' = [call EXCEPT ![c] = r]
  BY <1>1, Zenon DEF CloseAll
<1>3. Processes(group) \in SUBSET Calls /\ \A t \in SessionIDs : group.sessions[t] # None => group.sessions[t] \in Processes(group)
  BY <1>0 DEF Processes, TypeOK
<1>4. r \in CallRecord /\ r.kind = call[c].kind /\ r.pc = "kill" /\ r.kill = Processes(group) /\ PathOK(r)
  BY <1>0, <1>1, <1>3, Zenon DEF CallRecord, PCs, PathOK, Launching
<1>5. Only(c) /\ call'[c] = r
  BY <1>2, <1>4, Put, Zenon
<1>6. /\ group' \in [active : SessionIDs \cup {None}, order : Seq(SessionIDs), sessions : [SessionIDs -> Calls \cup {None}]]
      /\ \A t \in SessionIDs : group'.sessions[t] = None
      /\ group'.order = <<>>
  BY DEF CloseAll, NoGroup
<1>7. Once(group'.order) /\ Elements(group'.order) = {}
  BY <1>6 DEF Once, Elements
<1>8. TypeOK' /\ UNCHANGED <<starting, proc>> /\ ~At(c, "install") /\ ~At(c, "kill")
  BY <1>0, <1>5, <1>6, Zenon DEF CloseAll, TypeOK, Only, At
<1>9. /\ \A t \in SessionIDs : group'.sessions[t] \in {group.sessions[t], None}
      /\ \A t \in SessionIDs : group'.sessions[t] # None <=> t \in Elements(group'.order)
      /\ \A t \in SessionIDs : group.sessions[t] # None /\ group'.sessions[t] = None =>
            group.sessions[t] \in call'[c].kill
  BY <1>3, <1>4, <1>5, <1>6, <1>7, Zenon
<1> QED BY <1>4, <1>5, <1>6, <1>7, <1>8, <1>9, ClosedKeeps, Zenon

LEMMA KillKeeps == ASSUME SessionsInv, NEW c \in Calls, Kill(c) PROVE SessionsInv'
<1>0. TypeOK /\ call[c] \in CallRecord /\ PathOK(call[c]) /\ At(c, "kill") /\ UNCHANGED <<group, starting>>
  BY Zenon DEF SessionsInv, PathInv, TypeOK, Kill
<1>1. CASE call[c].kill = {}
  <2>1. PICK pc \in {"done", "choose"} : pc = call[c].next /\ Goto(c, pc)
    BY <1>0, <1>1, Zenon DEF Kill, PathOK
  <2>2. Only(c) /\ call'[c].pc = pc
    BY <1>0, <2>1, Goes, Zenon DEF PCs, Launching, PathOK, Kind
  <2>3. TypeOK' /\ UNCHANGED proc
    BY <1>0, <1>1, <2>2, Zenon DEF Kill, TypeOK, Only
  <2>4. LaunchInv'
    BY <1>0, <2>2, Zenon DEF SessionsInv, LaunchInv, Only, HasGroup, Launching
  <2> QED BY <1>0, <1>1, <2>2, <2>3, <2>4, OnlyPath, GroupKept, ShellsKept, Zenon DEF SessionsInv, At
<1>2. CASE call[c].kill # {}
  <2>1. PICK p \in call[c].kill : /\ proc' = [proc EXCEPT ![p] = "killed"]
                                  /\ call' = [call EXCEPT ![c].kill = @ \ {p}]
    BY <1>2, Zenon DEF Kill
  <2>2. PICK r : r = [call[c] EXCEPT !.kill = @ \ {p}]
    BY Zenon
  <2>3. call' = [call EXCEPT ![c] = r]
    BY <2>1, <2>2, Zenon
  <2>4. /\ r \in CallRecord /\ r.kind = call[c].kind /\ r.pc = "kill" /\ r.kill = call[c].kill \ {p} /\ PathOK(r)
        /\ p \in Calls
    BY <1>0, <2>2, Zenon DEF CallRecord, PathOK, At
  <2>5. Only(c) /\ call'[c] = r
    BY <2>3, <2>4, Put, Zenon
  <2>6. TypeOK'
    BY <1>0, <2>1, <2>4, <2>5, Zenon DEF Kill, TypeOK, Only
  <2>7. LaunchInv'
    BY <1>0, <2>4, <2>5, Zenon DEF SessionsInv, LaunchInv, Only, HasGroup, Launching
  <2>8. NoOrphanedProcess'
    <3>1. \A q \in Calls : proc'[q] = "running" => q # p /\ proc[q] = "running"
      BY <1>0, <2>1, <2>4, Zenon DEF TypeOK
    <3>2. At(c, "kill")' /\ call'[c].kill = call[c].kill \ {p} /\ ~At(c, "install")
      BY <1>0, <2>4, <2>5, Zenon DEF At
    <3>3. \A d \in Calls : d # c => call'[d] = call[d]
      BY <2>5, Zenon DEF Only
    <3> QED BY <1>0, <3>1, <3>2, <3>3, ZenonT(30) DEF SessionsInv, NoOrphanedProcess, At, Processes
  <2> QED BY <1>0, <2>5, <2>6, <2>7, <2>8, OnlyPath, GroupKept, Zenon DEF SessionsInv
<1> QED BY <1>1, <1>2, Zenon

LEMMA SetActiveSessionKeeps == ASSUME SessionsInv, NEW c \in Calls, SetActiveSession(c) PROVE SessionsInv'
<1>0. TypeOK /\ call[c].sid \in SessionIDs /\ At(c, "focus") /\ UNCHANGED <<starting, proc>>
  BY Zenon DEF SessionsInv, TypeOK, CallRecord, SetActiveSession
<1>1. Only(c) /\ call'[c].pc = "done"
  BY Goes, Zenon DEF SetActiveSession, PCs, Launching
<1>2. /\ group' \in [active : SessionIDs \cup {None}, order : Seq(SessionIDs), sessions : [SessionIDs -> Calls \cup {None}]]
      /\ group'.sessions = group.sessions /\ group'.order = group.order
      /\ \/ group'.active = group.active
         \/ group'.active \in SessionIDs /\ group.sessions[group'.active] # None
  BY <1>0 DEF SetActiveSession, TypeOK
<1>3. TypeOK'
  BY <1>0, <1>1, <1>2, Zenon DEF SetActiveSession, TypeOK, Only
<1>4. LaunchInv'
  BY <1>0, <1>1, <1>2, Zenon DEF SessionsInv, LaunchInv, Only, HasGroup, Launching
<1>5. GroupInv'
  <2>1. \A d \in Calls : Kind(d)' = Kind(d)
    BY <1>1, OnlyPath, Zenon
  <2> QED BY <1>2, <2>1 DEF SessionsInv, GroupInv, HasGroup, Once, Elements
<1>6. NoOrphanedProcess'
  <2>1. Processes(group') = Processes(group)
    BY <1>2, Zenon DEF Processes
  <2>2. \A d \in Calls : d # c => call'[d] = call[d]
    BY <1>1, Zenon DEF Only
  <2> QED BY <1>0, <2>1, <2>2, Zenon DEF SessionsInv, NoOrphanedProcess, At, Processes
<1> QED BY <1>1, <1>3, <1>4, <1>5, <1>6, OnlyPath, Zenon DEF SessionsInv

LEMMA ExitKeeps == ASSUME SessionsInv, NEW p \in Calls, Exit(p) \/ WaitForExit(p) PROVE SessionsInv'
<1>1. UNCHANGED <<group, starting, call>> /\ \A q \in Calls : proc'[q] = "running" => proc[q] = "running"
  BY Zenon DEF Exit, WaitForExit, SessionsInv, TypeOK
<1>2. TypeOK'
  BY Zenon DEF Exit, WaitForExit, SessionsInv, TypeOK
<1>3. PathInv' /\ LaunchInv'
  BY <1>1, Zenon DEF SessionsInv, PathInv, LaunchInv, Harmless, Kind, HasGroup, PathOK
<1>4. GroupInv'
  <2>1. \A d \in Calls : Kind(d)' = Kind(d)
    BY <1>1, Zenon DEF Kind
  <2> QED BY <1>1, <2>1, GroupStays, Zenon
<1>5. NoOrphanedProcess'
  BY <1>1, Zenon DEF SessionsInv, NoOrphanedProcess, At, Processes
<1> QED BY <1>2, <1>3, <1>4, <1>5, Zenon DEF SessionsInv

LEMMA SessionsInit ==
  ASSUME \A kind \in Scenarios : Harmless(kind), Init
  PROVE  SessionsInv
<1>1. PICK kind \in Scenarios : call = [c \in Calls |->
        [kind |-> kind[c], pc |-> "idle", sid |-> Primary, op |-> "none", waitsFor |-> None, kill |-> {}, next |-> "done"]]
  BY Zenon DEF Init
<1>2. kind \in [Calls -> Kinds] /\ Harmless(kind)
  BY SessionsAssumption, Zenon
<1>3. \A c \in Calls : call[c] = [kind |-> kind[c], pc |-> "idle", sid |-> Primary, op |-> "none",
                                  waitsFor |-> None, kill |-> {}, next |-> "done"]
  BY <1>1, Zenon
<1>4. ASSUME NEW c \in Calls
      PROVE  call[c] \in CallRecord /\ call[c].pc = "idle" /\ call[c].kind = kind[c] /\ PathOK(call[c])
  <2>1. PICK k \in Kinds : k = kind[c]
    BY <1>2, Zenon
  <2>2. call[c] = [kind |-> k, pc |-> "idle", sid |-> Primary, op |-> "none", waitsFor |-> None, kill |-> {}, next |-> "done"]
    BY <1>3, <2>1, Zenon
  <2>3. Primary \in SessionIDs /\ "idle" \in PCs /\ "done" \in PCs
    BY Zenon DEF SessionIDs, PCs
  <2>4. call[c] \in CallRecord
    BY <2>2, <2>3 DEF CallRecord
  <2> QED BY <2>1, <2>2, <2>4 DEF PathOK, Launching
<1>5. TypeOK
  <2>1. call \in [Calls -> CallRecord]
    BY <1>1, <1>4, Zenon
  <2> QED BY <2>1 DEF Init, NoGroup, TypeOK
<1>6. PathInv
  BY <1>2, <1>4, Zenon DEF PathInv, Harmless, Kind
<1>7. LaunchInv
  BY <1>4, Zenon DEF LaunchInv, Launching
<1>8. GroupInv
  BY DEF Init, NoGroup, GroupInv, HasGroup, Once, Elements
<1>9. NoOrphanedProcess
  BY Zenon DEF Init, NoOrphanedProcess
<1> QED BY <1>5, <1>6, <1>7, <1>8, <1>9, Zenon DEF SessionsInv

-----------------------------------------------------------------------------
(* Closing one session.  The theorems on finite sets and on induction are  *)
(* needed from here on.                                                    *)
INSTANCE FiniteSetTheorems

(* What Deleted returns.  Its recursive function exists, and the positions *)
(* where a claim about it holds are all of them.                           *)

Kept(order, s, i, before) == IF order[i] = s THEN before ELSE Append(before, order[i])
KeptAll(order, s, f) == [i \in 0..Len(order) |-> IF i = 0 THEN <<>> ELSE Kept(order, s, i, f[i - 1])]

(* A set of positions that holds 0 and, up to n, the successor of each     *)
(* holds them all.                                                         *)
LEMMA EveryPosition ==
  ASSUME NEW n \in Nat, NEW P,
         0 \in P, \A i \in 1..n : i - 1 \in P => i \in P
  PROVE  \A i \in 0..n : i \in P
  <1> DEFINE Bad == {i \in 0..n : i \notin P}
  <1> SUFFICES ASSUME Bad # {} PROVE FALSE
    OBVIOUS
  <1>1. PICK least \in Bad : \A i \in Bad : ~(<<i, least>> \in OpToRel(<, Nat))
    <2>1. Bad \subseteq Nat
      OBVIOUS
    <2> QED BY <2>1, NatLessThanWellFounded, WFMin, Zenon
  <1>2. \A i \in Bad : ~(i < least)
    <2>1. \A i \in Bad : <<i, least>> \in Nat \X Nat
      OBVIOUS
    <2> QED BY <1>1, <2>1, Zenon DEF OpToRel
  <1>3. least \in 0..n /\ least \notin P
    OBVIOUS
  <1>4. least - 1 \in Bad
    BY <1>3
  <1> QED BY <1>2, <1>3, <1>4

LEMMA KeptExists ==
  ASSUME NEW order, Len(order) \in Nat, NEW s
  PROVE  \E f : f = KeptAll(order, s, f)
  <1> DEFINE RunTo(n, g) == /\ g = [i \in 0..n |-> g[i]] /\ g[0] = <<>>
                            /\ \A i \in 1..n : g[i] = Kept(order, s, i, g[i - 1])
             P == {n \in Nat : \E g : RunTo(n, g)}
  <1>1. 0 \in P
    <2>1. RunTo(0, [i \in 0..0 |-> <<>>])
      OBVIOUS
    <2> QED BY <2>1, Zenon
  <1>2. ASSUME NEW n \in 1..Len(order), n - 1 \in P PROVE n \in P
    <2>1. PICK g : RunTo(n - 1, g)
      BY <1>2, Zenon
    <2> DEFINE h == [i \in 0..n |-> IF i = n THEN Kept(order, s, n, g[n - 1]) ELSE g[i]]
    <2>2. \A i \in 0..(n - 1) : h[i] = g[i]
      OBVIOUS
    <2>3. h[n] = Kept(order, s, n, g[n - 1]) /\ h = [i \in 0..n |-> h[i]]
      OBVIOUS
    <2> HIDE DEF h
    <2>4. ASSUME NEW i \in 1..n PROVE h[i] = Kept(order, s, i, h[i - 1])
      <3>1. i - 1 \in 0..(n - 1)
        OBVIOUS
      <3>2. h[i - 1] = g[i - 1]
        BY <2>2, <3>1, Zenon
      <3>3. CASE i = n
        BY <2>3, <3>2, <3>3, Zenon
      <3>4. CASE i # n
        <4>1. i \in 1..(n - 1) /\ i \in 0..(n - 1)
          BY <3>4
        <4> QED BY <2>1, <2>2, <3>2, <4>1, Zenon
      <3> QED BY <3>3, <3>4, Zenon
    <2>5. h[0] = <<>>
      BY <2>1, <2>2
    <2>6. RunTo(n, h)
      BY <2>3, <2>4, <2>5, Zenon
    <2> HIDE DEF RunTo
    <2> QED BY <2>6
  <1>3. Len(order) \in P
    <2> HIDE DEF P
    <2>1. \A i \in 0..Len(order) : i \in P
      BY <1>1, <1>2, EveryPosition, Zenon
    <2> QED BY <2>1
  <1>4. PICK g : RunTo(Len(order), g)
    BY <1>3, Zenon
  <1>5. g = KeptAll(order, s, g)
    BY <1>4 DEF KeptAll
  <1> QED BY <1>5, Zenon

(* The order without a session lists every other session once.            *)
LEMMA DeletedOrder ==
  ASSUME NEW T, NEW order \in Seq(T), NEW s, Once(order)
  PROVE  /\ Deleted(order, s) \in Seq(T) /\ Once(Deleted(order, s))
         /\ Elements(Deleted(order, s)) = Elements(order) \ {s}
  <1> DEFINE f == CHOOSE g : g = KeptAll(order, s, g)
  <1>0. Len(order) \in Nat
    OBVIOUS
  <1>1. f = KeptAll(order, s, f)
    BY <1>0, KeptExists, Zenon
  <1>2. Deleted(order, s) = f[Len(order)]
    BY Zenon DEF Deleted, KeptAll, Kept
  <1> HIDE DEF f
  <1>3. f[0] = <<>> /\ \A i \in 1..Len(order) : f[i] = Kept(order, s, i, f[i - 1])
    BY <1>0, <1>1 DEF KeptAll
  <1> DEFINE To(i) == {order[j] : j \in 1..i} \ {s}
             P == {i \in 0..Len(order) : f[i] \in Seq(T) /\ Once(f[i]) /\ Elements(f[i]) = To(i)}
  <1>4. 0 \in P
    <2>1. 0 \in 0..Len(order) /\ f[0] \in Seq(T) /\ DOMAIN f[0] = {} /\ 1..0 = {}
      BY <1>0, <1>3
    <2>2. Once(f[0]) /\ Elements(f[0]) = {} /\ To(0) = {}
      BY <2>1, Zenon DEF Elements, Once
    <2> QED BY <2>1, <2>2, Zenon
  <1>5. \A i \in 1..Len(order) : i - 1 \in P => i \in P
    <2> SUFFICES ASSUME NEW i \in 1..Len(order), i - 1 \in P PROVE i \in P
      BY Zenon
    <2> DEFINE g == f[i - 1]
    <2>1. g \in Seq(T) /\ Once(g) /\ Elements(g) = To(i - 1)
      BY Zenon
    <2>2. 1..i = 1..(i - 1) \cup {i} /\ order[i] \in T /\ i \in 0..Len(order)
      OBVIOUS
    <2>3. \A j \in 1..(i - 1) : order[j] # order[i]
      <3>1. \A j \in 1..(i - 1) : j \in DOMAIN order /\ i \in DOMAIN order /\ j # i
        OBVIOUS
      <3> QED BY <3>1, Zenon DEF Once
    <2>4. To(i) = To(i - 1) \cup ({order[i]} \ {s}) /\ order[i] \notin To(i - 1)
      BY <2>2, <2>3, Zenon
    <2>5. f[i] = Kept(order, s, i, g)
      BY <1>3, Zenon
    <2> HIDE DEF g, To
    <2>6. f[i] \in Seq(T) /\ Once(f[i]) /\ Elements(f[i]) = To(i)
      <3>1. CASE order[i] # s
        <4>1. f[i] = Append(g, order[i])
          BY <2>5, <3>1, Zenon DEF Kept
        <4>2. f[i] \in Seq(T) /\ Once(f[i]) /\ Elements(f[i]) = Elements(g) \cup {order[i]}
          BY <2>1, <2>2, <2>4, <4>1, AppendOnce
        <4> QED BY <2>1, <2>4, <3>1, <4>2, Zenon
      <3>2. CASE order[i] = s
        <4>1. f[i] = g
          BY <2>5, <3>2, Zenon DEF Kept
        <4> QED BY <2>1, <2>4, <3>2, <4>1, Zenon
      <3> QED BY <3>1, <3>2, Zenon
    <2> QED BY <2>2, <2>6, Zenon
  <1>6. Len(order) \in P
    <2> HIDE DEF P
    <2>1. \A i \in 0..Len(order) : i \in P
      BY <1>0, <1>4, <1>5, EveryPosition, Zenon
    <2> QED BY <1>0, <2>1
  <1>7. Elements(order) = {order[j] : j \in 1..Len(order)}
    BY DEF Elements
  <1> QED BY <1>2, <1>6, <1>7, Zenon

(* Closing a session takes it, and it only, out of the group.              *)
Reduced(g, s) ==
  /\ g \in [active : SessionIDs \cup {None}, order : Seq(SessionIDs), sessions : [SessionIDs -> Calls \cup {None}]]
  /\ \A t \in SessionIDs : g.sessions[t] = IF t = s THEN None ELSE group.sessions[t]
  /\ Once(g.order)
  /\ \A t \in SessionIDs : g.sessions[t] # None <=> t \in Elements(g.order)
  /\ g.order # <<>> => HasGroup /\ g.active \in SessionIDs /\ g.sessions[g.active] # None

LEMMA WithoutOne ==
  ASSUME SessionsInv, NEW s \in SessionIDs
  PROVE  Reduced(Without(group, s), s)
<1> DEFINE rest == Deleted(group.order, s)
<1> SUFFICES ASSUME NEW g, g = Without(group, s) PROVE Reduced(g, s)
  BY Zenon
<1>0. /\ TypeOK /\ GroupInv /\ group.order \in Seq(SessionIDs) /\ Once(group.order)
      /\ group.sessions \in [SessionIDs -> Calls \cup {None}]
  BY Zenon DEF SessionsInv, TypeOK, GroupInv
<1>1. rest \in Seq(SessionIDs) /\ Once(rest) /\ Elements(rest) = Elements(group.order) \ {s}
  BY <1>0, DeletedOrder, Zenon
<1>2. CASE rest = <<>>
  <2>1. g = NoGroup
    BY <1>2, Zenon DEF Without
  <2>2. Elements(rest) = {}
    BY <1>2 DEF Elements
  <2>3. \A t \in SessionIDs : t # s => group.sessions[t] = None
    BY <1>0, <1>1, <2>2, Zenon DEF GroupInv
  <2>4. /\ NoGroup \in [active : SessionIDs \cup {None}, order : Seq(SessionIDs), sessions : [SessionIDs -> Calls \cup {None}]]
        /\ \A t \in SessionIDs : NoGroup.sessions[t] = None
        /\ NoGroup.order = <<>>
    BY DEF NoGroup
  <2>5. Once(NoGroup.order) /\ Elements(NoGroup.order) = {}
    BY <2>4 DEF Once, Elements
  <2> QED BY <2>1, <2>3, <2>4, <2>5, Zenon DEF Reduced
<1>3. CASE rest # <<>>
  <2>1. g = [active |-> IF group.active = s THEN rest[Len(rest)] ELSE group.active,
             order |-> rest, sessions |-> [group.sessions EXCEPT ![s] = None]]
    BY <1>3, Zenon DEF Without
  <2>2. Len(rest) \in DOMAIN rest /\ rest[Len(rest)] \in SessionIDs
    BY <1>1, <1>3
  <2>3. rest[Len(rest)] \in Elements(rest)
    BY <2>2, Zenon DEF Elements
  <2>4. HasGroup
    <3>1. Elements(group.order) # {}
      BY <1>1, <2>3, Zenon
    <3> QED BY <3>1 DEF HasGroup, Elements
  <2>5. group.active \in Elements(group.order)
    BY <1>0, <2>4, Zenon DEF GroupInv
  <2>6. g.active \in Elements(rest) /\ g.active \in SessionIDs
    <3>1. g.active = IF group.active = s THEN rest[Len(rest)] ELSE group.active
      BY <2>1
    <3>2. CASE group.active = s
      BY <2>2, <2>3, <3>1, <3>2, Zenon
    <3>3. CASE group.active # s
      <4>1. group.active \in SessionIDs
        BY <1>0, <2>4, Zenon DEF GroupInv
      <4> QED BY <1>1, <2>5, <3>1, <3>3, <4>1, Zenon
    <3> QED BY <3>2, <3>3, Zenon
  <2>7. \A t \in SessionIDs : g.sessions[t] = IF t = s THEN None ELSE group.sessions[t]
    BY <1>0, <2>1
  <2>8. \A t \in SessionIDs : g.sessions[t] # None <=> t \in Elements(rest)
    BY <1>0, <1>1, <2>7, Zenon DEF GroupInv
  <2>9. g.order = rest /\ g \in [active : SessionIDs \cup {None}, order : Seq(SessionIDs), sessions : [SessionIDs -> Calls \cup {None}]]
    BY <1>0, <1>1, <2>1, <2>6
  <2> HIDE DEF rest
  <2> QED BY <1>1, <2>4, <2>6, <2>7, <2>8, <2>9, Zenon DEF Reduced
<1> QED BY <1>2, <1>3, Zenon

LEMMA CloseOneKeeps == ASSUME SessionsInv, NEW c \in Calls, CloseOne(c) PROVE SessionsInv'
<1> DEFINE s == call[c].sid
<1>0. TypeOK /\ call[c] \in CallRecord /\ s \in SessionIDs /\ PathOK(call[c]) /\ At(c, "closeOne")
  BY Zenon DEF SessionsInv, PathInv, TypeOK, CallRecord, CloseOne
<1>1. CASE group.sessions[s] # None
  <2>1. group' = Without(group, s) /\ UNCHANGED <<present, starting, result, proc, recorded>>
    BY <1>1, Zenon DEF CloseOne
  <2>2. Reduced(group', s)
    BY <1>0, <2>1, WithoutOne, Zenon
  <2>3. PICK r : r = [call[c] EXCEPT !.pc = "kill", !.kill = {group.sessions[s]}]
    BY Zenon
  <2>4. call' = [call EXCEPT ![c] = r]
    BY <1>1, <2>3, Zenon DEF CloseOne
  <2>5. group.sessions[s] \in Calls
    BY <1>0, <1>1, Zenon DEF TypeOK
  <2>6. r \in CallRecord /\ r.kind = call[c].kind /\ r.pc = "kill" /\ r.kill = {group.sessions[s]} /\ PathOK(r)
    BY <1>0, <2>3, <2>5, Zenon DEF CallRecord, PCs, PathOK, Launching
  <2>7. Only(c) /\ call'[c] = r
    BY <2>4, <2>6, Put, Zenon
  <2>8. TypeOK'
    BY <1>0, <2>1, <2>2, <2>7, Zenon DEF TypeOK, Only, Reduced
  <2>9. /\ \A t \in SessionIDs : group'.sessions[t] \in {group.sessions[t], None}
        /\ \A t \in SessionIDs : group.sessions[t] # None /\ group'.sessions[t] = None =>
              group.sessions[t] \in call'[c].kill
    BY <2>2, <2>6, <2>7, Zenon DEF Reduced
  <2>10. ~At(c, "install") /\ ~At(c, "kill")
    BY <1>0, Zenon DEF At
  <2> QED BY <2>1, <2>2, <2>6, <2>7, <2>8, <2>9, <2>10, ClosedKeeps, Zenon DEF Reduced
<1>2. CASE group.sessions[s] = None
  <2>1. PICK pc \in {"done", "choose"} : pc = call[c].next /\ Goto(c, pc)
    BY <1>0, <1>2, Zenon DEF CloseOne, PathOK
  <2>2. Only(c) /\ call'[c].pc = pc
    BY <1>0, <2>1, Goes, Zenon DEF PCs, Launching, PathOK, Kind
  <2>3. TypeOK' /\ UNCHANGED <<group, starting, proc>>
    BY <1>0, <1>2, <2>2, Zenon DEF CloseOne, TypeOK, Only
  <2> QED BY <1>0, <2>2, <2>3, QuietKeeps, Zenon DEF At, Launching
<1> QED BY <1>1, <1>2, Zenon

-----------------------------------------------------------------------------
LEMMA SessionsNext == SessionsInv /\ [Next]_vars => SessionsInv'
<1> SUFFICES ASSUME SessionsInv, [Next]_vars PROVE SessionsInv'
  OBVIOUS
<1>1. CASE UNCHANGED vars
  <2>1. UNCHANGED <<present, group, starting, result, proc, recorded, call>>
    BY <1>1, Zenon DEF vars
  <2>2. TypeOK' /\ PathInv' /\ LaunchInv'
    BY <2>1, Zenon DEF SessionsInv, TypeOK, PathInv, LaunchInv, Harmless, Kind, HasGroup, PathOK
  <2>3. \A d \in Calls : Kind(d)' = Kind(d)
    BY <2>1, Zenon DEF Kind
  <2>4. GroupInv'
    BY <2>1, <2>3, GroupStays, Zenon
  <2>5. NoOrphanedProcess'
    BY <2>1, Zenon DEF SessionsInv, NoOrphanedProcess, At, Processes
  <2> QED BY <2>2, <2>4, <2>5, Zenon DEF SessionsInv
<1>2. ASSUME NEW c \in Calls, Step(c) PROVE SessionsInv'
  <2>1. ~CloseService(c)
    BY Zenon DEF CloseService, At, SessionsInv, PathInv, PathOK
  <2> QED BY <1>2, <2>1, LookSiblingKeeps, LookRestartKeeps, ChooseRestartKeeps, EnterKeeps, WaitAnsweredKeeps, LaunchKeeps, LaunchFailsKeeps, InstallGroupKeeps, InstallSessionKeeps,
             InstallRefusedKeeps, ObserveOkKeeps, ObserveFailsKeeps, CloseOneKeeps, CloseAllKeeps, KillKeeps, CountSessionsKeeps, RemoveWidgetKeeps, SetActiveSessionKeeps, Zenon
          DEF Step
<1>3. ASSUME NEW c \in Calls, Begin(c) \/ Step(c) \/ WaitCancelled(c) \/ Exit(c) \/ WaitForExit(c)
      PROVE  SessionsInv'
  BY <1>2, <1>3, BeginKeeps, WaitCancelledKeeps, ExitKeeps, Zenon
<1> QED BY <1>1, <1>3, Zenon DEF Next

(* An order that lists each session once is as long as there are sessions. *)
LEMMA OrderCounts ==
  ASSUME NEW order, NEW T, order \in Seq(T), Once(order)
  PROVE  Len(order) = Cardinality(Elements(order))
<1>1. Len(order) \in Nat /\ DOMAIN order = 1..Len(order)
  OBVIOUS
<1>2. order \in Bijection(1..Len(order), Elements(order))
  BY <1>1 DEF Bijection, Injection, Surjection, IsInjective, Once, Elements
<1>3. ExistsBijection(1..Len(order), Elements(order))
  BY <1>2, Zenon DEF ExistsBijection
<1> QED BY <1>1, <1>3, FS_CountingElements, Zenon

(* Whatever requests overlap, as long as the server is not shut down and   *)
(* no session is restarted while others are created: the order and the     *)
(* active session fit the sessions, every running shell is in the group or *)
(* in the hands of a request, and a session is launched by one request at  *)
(* a time (startCall and the second look at the group in CreateSession).   *)
THEOREM SessionsAreSoundAlways ==
  ASSUME \A kind \in Scenarios : Harmless(kind)
  PROVE  Spec => []SessionsAreSound
<1>1. SessionsInv => SessionsAreSound
  <2> SUFFICES ASSUME SessionsInv PROVE SessionsAreSound
    OBVIOUS
  <2>1. GroupIsConsistent
    <3>1. group.order \in Seq(SessionIDs) /\ Once(group.order)
      BY Zenon DEF SessionsInv, TypeOK, GroupInv
    <3>2. Elements(group.order) \subseteq SessionIDs
      BY <3>1 DEF Elements
    <3>3. Elements(group.order) = {s \in SessionIDs : group.sessions[s] # None}
      BY <3>2, Zenon DEF SessionsInv, GroupInv
    <3>4. Len(group.order) = Cardinality(Elements(group.order))
      BY <3>1, OrderCounts, Zenon
    <3> QED BY <3>3, <3>4, Zenon DEF SessionsInv, GroupInv, GroupIsConsistent, Elements
  <2>2. OneLaunchPerSession
    BY Zenon DEF SessionsInv, LaunchInv, OneLaunchPerSession, Launching
  <2> QED BY <2>1, <2>2, Zenon DEF SessionsInv, SessionsAreSound
<1> QED BY <1>1, SessionsInit, SessionsNext, PTL DEF Spec
==============================================================================
