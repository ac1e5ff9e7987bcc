---------------------------- MODULE UpdatesProofs ----------------------------
(***************************************************************************)
(* Two components, each for any value of its constants: Updates (this      *)
(* part), and ChatSync (the second half).                                  *)
(*                                                                         *)
(* Reactions, revocations and deletions, for any messages, posts,          *)
(* goroutines and bounds.  Rows are deleted only of messages that are gone *)
(* on both sides: a revocation that waits or is handled is of a message    *)
(* revoked at WhatsApp; a webhook of a deleted message under way, and      *)
(* every message a goroutine works on, is of one that is gone in Chatwoot, *)
(* which it stays; so whoever reaches the row has both.  At rest the three *)
(* views agree: events come in the order things happened, so the last      *)
(* reaction that waits is the one given, and each deletion is under way    *)
(* somewhere until it has reached all three.                               *)
(*                                                                         *)
(* The synchronisation with Chatwoot's database rests on SyncBase: every   *)
(* number of a post or a conversation that somebody holds is of one there  *)
(* is, and of the message it is held for.  To it come the posts without a  *)
(* date, which are those of a pool that still has to give it (DatedInv),   *)
(* what a sync has still to post, which Chatwoot does not have (OnceInv),  *)
(* and how far the syncs that saw a message brought its chat (ImportInv).  *)
(***************************************************************************)
EXTENDS Updates, ChatSync, FiniteSetTheorems, TLAPS

USE UpdatesAssumption

Dead(p) == post[p] \in {"deleted", "gone"}

Wa == [sent : BOOLEAN, revoked : BOOLEAN, reactions : [Actors -> Emojis \cup {Nothing}]]
Row == [at : {"none", "there", "dropped"}, from : {"event", "history"},
        ref : Posts \cup {Nothing}, reactions : SUBSET ((Actors \cup {Nothing}) \X Emojis)]
Handler == [at : {"idle", "save", "react", "tell", "mark", "find", "remove", "drop"},
            ev : Event \cup {NoEvent}]
Work == [at : {"idle", "revoke", "drop"}, left : SUBSET Messages,
         of : Messages \cup {Nothing}]
Types ==
  /\ wa \in [Messages -> Wa] /\ row \in [Messages -> Row]
  /\ events \in Seq(Event) /\ handler \in Handler
  /\ post \in [Posts -> {"none", "there", "deleted", "gone"}]
  /\ hooks \in [Posts -> Nat] /\ work \in [Goroutines -> Work]
OwnRefs == \A m \in Messages : row[m].ref \in {Nothing, PostOf[m]}
EventsTrue ==
  \A i \in DOMAIN events : events[i].kind = "revoke" => wa[events[i].of].revoked
HandlerTrue ==
  /\ handler.at # "idle" => handler.ev \in Event
  /\ handler.at \in {"mark", "find", "remove", "drop"} => wa[handler.ev.of].revoked
  /\ handler.at = "drop" => Dead(PostOf[handler.ev.of])
HooksTrue == \A p \in Posts : hooks[p] > 0 => Dead(p)
WorkTrue(g) ==
  /\ \A m \in work[g].left : Dead(PostOf[m])
  /\ work[g].at = "drop" =>
       /\ work[g].of \in Messages /\ Dead(PostOf[work[g].of])
       /\ work[g].of \in Album => wa[work[g].of].revoked
IInv ==
  /\ Types /\ OwnRefs /\ EventsTrue /\ HandlerTrue /\ HooksTrue
  /\ \A g \in Goroutines : WorkTrue(g)
  /\ DroppedIsGone

LEMMA Initial == UpdatesInit => IInv
<1> SUFFICES ASSUME UpdatesInit PROVE IInv
  OBVIOUS
<1>1. Types
  <2>1. wa \in [Messages -> Wa]
    BY DEF UpdatesInit, Wa
  <2>2. row \in [Messages -> Row]
    BY DEF UpdatesInit, Row, NoRow
  <2>3. events \in Seq(Event)
    BY DEF UpdatesInit
  <2>4. handler \in Handler
    BY DEF UpdatesInit, Handler, Free
  <2>5. post \in [Posts -> {"none", "there", "deleted", "gone"}] /\ hooks \in [Posts -> Nat]
    BY DEF UpdatesInit
  <2>6. work \in [Goroutines -> Work]
    BY DEF UpdatesInit, Work, NoWork
  <2> QED
    BY <2>1, <2>2, <2>3, <2>4, <2>5, <2>6 DEF Types
<1>2. OwnRefs /\ DroppedIsGone
  BY DEF UpdatesInit, OwnRefs, DroppedIsGone, NoRow
<1>3. EventsTrue /\ HandlerTrue /\ HooksTrue
  BY DEF UpdatesInit, EventsTrue, HandlerTrue, HooksTrue, Free
<1>4. \A g \in Goroutines : WorkTrue(g)
  BY DEF UpdatesInit, WorkTrue, NoWork
<1> QED
  BY <1>1, <1>2, <1>3, <1>4 DEF IInv

------------------------------------------------------------------------------
(* What is revoked or gone stays so.                                       *)
Stays ==
  /\ \A p \in Posts : Dead(p) => Dead(p)'
  /\ \A m \in Messages : wa[m].revoked => wa'[m].revoked

(* Steps that change only WhatsApp's messages and the events.              *)
LEMMA PhoneStep ==
  ASSUME IInv, UNCHANGED <<handler, row, post, hooks, work>>,
         wa' \in [Messages -> Wa], Stays,
         NEW e \in Event, events' \in {events, Append(events, e)},
         e.kind = "revoke" => wa'[e.of].revoked
  PROVE  IInv'
<1>1. Types'
  <2>1. events \in Seq(Event)
    BY DEF IInv, Types
  <2>2. events' \in Seq(Event)
    BY <2>1
  <2> QED
    BY <2>2 DEF IInv, Types
<1>2. EventsTrue'
  <2> SUFFICES ASSUME NEW i \in DOMAIN events', events'[i].kind = "revoke"
               PROVE wa'[events'[i].of].revoked
    BY DEF EventsTrue
  <2>1. CASE i \in DOMAIN events /\ events'[i] = events[i]
    <3>1. events[i] \in Event
      BY <2>1 DEF IInv, Types
    <3>2. events[i].of \in Messages
      BY <3>1 DEF Event
    <3> QED
      BY <2>1, <3>2 DEF IInv, EventsTrue, Stays
  <2>2. CASE events'[i] = e
    BY <2>2
  <2>3. events' = Append(events, e) => events'[i] = e \/ (i \in DOMAIN events /\ events'[i] = events[i])
    BY DEF IInv, Types
  <2> QED
    BY <2>1, <2>2, <2>3
<1>3. HandlerTrue'
  BY DEF IInv, HandlerTrue, Stays, Dead, Event
<1>4. OwnRefs' /\ HooksTrue'
  BY DEF IInv, OwnRefs, HooksTrue, Dead
<1>5. \A g \in Goroutines : WorkTrue(g)'
  BY DEF IInv, WorkTrue, Dead, Stays
<1>6. DroppedIsGone'
  BY DEF IInv, DroppedIsGone, Stays
<1> QED
  BY <1>1, <1>2, <1>3, <1>4, <1>5, <1>6 DEF IInv

(* Steps that change only rows, and let no row be dropped of a message     *)
(* that is not gone.                                                       *)
LEMMA RowStep ==
  ASSUME IInv, UNCHANGED <<wa, events, post, hooks, work>>,
         row' \in [Messages -> Row], handler' \in Handler, HandlerTrue',
         \A m \in Messages : row'[m].ref \in {Nothing, PostOf[m], row[m].ref},
         \A m \in Messages : row'[m].at = "dropped" /\ row[m].at # "dropped" =>
           (m \in Album => wa[m].revoked) /\ Dead(PostOf[m])
  PROVE  IInv'
<1>1. Types' /\ EventsTrue' /\ HooksTrue'
  BY DEF IInv, Types, EventsTrue, HooksTrue, Dead
<1>2. OwnRefs'
  BY DEF IInv, OwnRefs
<1>3. \A g \in Goroutines : WorkTrue(g)'
  BY DEF IInv, WorkTrue, Dead
<1>4. DroppedIsGone'
  BY DEF IInv, DroppedIsGone, Dead
<1> QED
  BY <1>1, <1>2, <1>3, <1>4 DEF IInv

LEMMA Saves == ASSUME IInv, SaveMessage PROVE IInv'
<1> DEFINE m == handler.ev.of
<1>1. m \in Messages /\ handler.at = "save" /\ handler' = Free
  BY DEF IInv, Types, HandlerTrue, SaveMessage, Goes, Event
<1>2. Inserted("event", Nothing, {}) \in Row
  BY DEF Inserted, Row
<1>3. row' \in {row, [row EXCEPT ![m] = Inserted("event", Nothing, {})]}
  BY <1>1 DEF SaveMessage, Tries, IInv, Types
<1>4. handler' \in Handler /\ HandlerTrue'
  BY <1>1 DEF Handler, HandlerTrue, Free
<1>5. row' \in [Messages -> Row]
  BY <1>1, <1>2, <1>3 DEF IInv, Types
<1>6. \A n \in Messages : row'[n] \in {row[n], Inserted("event", Nothing, {})}
  BY <1>1, <1>3 DEF IInv, Types
<1>7. UNCHANGED <<wa, events, post, hooks, work>>
  BY DEF SaveMessage
<1> HIDE DEF m
<1> QED
  BY <1>4, <1>5, <1>6, <1>7, RowStep DEF Inserted

LEMMA Reacts == ASSUME IInv, UpdateReactions PROVE IInv'
<1> DEFINE m == handler.ev.of
           a == handler.ev.by
           e == handler.ev.emoji
           rs == IF ~There(m) THEN row[m].reactions
                 ELSE IF e = Nothing THEN RemoveReaction(row[m].reactions, a)
                                     ELSE AddReaction(row[m].reactions, a, e)
<1>1. /\ m \in Messages /\ a \in Actors \cup {Nothing} /\ e \in Emojis \cup {Nothing}
      /\ handler.ev \in Event /\ handler \in Handler
  BY DEF IInv, Types, HandlerTrue, UpdateReactions, Event
<1>2. row \in [Messages -> Row] /\ row[m] \in Row
  BY <1>1 DEF IInv, Types
<1>3. rs \in SUBSET ((Actors \cup {Nothing}) \X Emojis)
  BY <1>1, <1>2 DEF Row, RemoveReaction, AddReaction
<1>4. row' \in {row, [row EXCEPT ![m].reactions = rs]}
  BY <1>1, <1>2 DEF UpdateReactions, Tries
<1>5. handler' = Free \/ handler' = [handler EXCEPT !.at = "tell"]
  BY DEF UpdateReactions, Goes
<1>6. handler' \in Handler /\ HandlerTrue'
  BY <1>1, <1>5 DEF Handler, HandlerTrue, Free
<1>7. UNCHANGED <<wa, events, post, hooks, work>>
  BY DEF UpdateReactions
<1> HIDE DEF m, a, e, rs
<1>8. row' \in [Messages -> Row]
  BY <1>1, <1>2, <1>3, <1>4 DEF Row
<1>9. \A n \in Messages : row'[n].ref = row[n].ref /\ row'[n].at = row[n].at
  BY <1>1, <1>2, <1>4 DEF Row
<1> QED
  BY <1>6, <1>7, <1>8, <1>9, RowStep

LEMMA ClearedTyped ==
  ASSUME IInv
  PROVE /\ Cleared \in [Messages -> Row]
        /\ \A m \in Messages : Cleared[m].ref = Nothing /\ Cleared[m].at = row[m].at
<1>1. \A m \in Messages : row[m] \in Row
  BY DEF IInv, Types
<1>2. \A m \in Messages : [row[m] EXCEPT !.ref = Nothing] \in Row
  BY <1>1 DEF Row
<1> QED
  BY <1>1, <1>2 DEF Cleared, Row

LEMMA TellsReaction == ASSUME IInv, TellReaction PROVE IInv'
<1>1. handler' = Free /\ row' \in {row, Cleared} /\ UNCHANGED <<wa, events, post, hooks, work>>
  BY DEF TellReaction, Goes
<1>2. handler' \in Handler /\ HandlerTrue'
  BY <1>1 DEF Handler, HandlerTrue, Free
<1>3. /\ row' \in [Messages -> Row]
      /\ \A m \in Messages : row'[m].ref \in {Nothing, row[m].ref} /\ row'[m].at = row[m].at
  BY <1>1, ClearedTyped DEF IInv, Types
<1> QED
  BY <1>1, <1>2, <1>3, RowStep

LEMMA DroppedTyped ==
  ASSUME IInv, NEW m \in Messages
  PROVE /\ Dropped(m) \in [Messages -> Row]
        /\ \A n \in Messages : Dropped(m)[n].ref \in {Nothing, row[n].ref}
        /\ \A n \in Messages : n # m => Dropped(m)[n] = row[n]
<1>1. row \in [Messages -> Row]
  BY DEF IInv, Types
<1>2. [NoRow EXCEPT !.at = "dropped"] \in Row /\ [NoRow EXCEPT !.at = "dropped"].ref = Nothing
  BY DEF Row, NoRow
<1> QED
  BY <1>1, <1>2 DEF Dropped

(* The handler deletes the row of a message both sides have lost.          *)
LEMMA Drops == ASSUME IInv, DropRow PROVE IInv'
<1> DEFINE m == handler.ev.of
<1>1. /\ m \in Messages /\ wa[m].revoked /\ Dead(PostOf[m])
  BY DEF IInv, HandlerTrue, DropRow, Event
<1>2. /\ handler' = Free /\ row' \in {row, Dropped(m)}
      /\ UNCHANGED <<wa, events, post, hooks, work>>
  BY DEF DropRow, Goes, Tries
<1>3. handler' \in Handler /\ HandlerTrue'
  BY <1>2 DEF Handler, HandlerTrue, Free
<1> HIDE DEF m
<1>4. row' \in [Messages -> Row]
  BY <1>1, <1>2, DroppedTyped DEF IInv, Types
<1>5. \A n \in Messages : row'[n].ref \in {Nothing, row[n].ref}
  BY <1>1, <1>2, DroppedTyped
<1>6. \A n \in Messages : row'[n].at = "dropped" /\ row[n].at # "dropped" => n = m
  BY <1>1, <1>2, DroppedTyped
<1> QED
  BY <1>1, <1>2, <1>3, <1>4, <1>5, <1>6, RowStep

(* The steps of the handler that touch no row.                             *)
LEMMA Marks == ASSUME IInv, MarkDeleted \/ FindRow PROVE IInv'
<1>1. /\ handler' \in {Free, [handler EXCEPT !.at = "find"], [handler EXCEPT !.at = "remove"]}
      /\ handler.at \in {"mark", "find"} /\ UNCHANGED <<wa, events, row, post, hooks, work>>
  BY DEF MarkDeleted, FindRow, Goes
<1>2. handler' \in Handler /\ HandlerTrue'
  BY <1>1 DEF IInv, Types, Handler, HandlerTrue, Free
<1>3. row' \in [Messages -> Row]
  BY <1>1 DEF IInv, Types
<1> QED
  BY <1>1, <1>2, <1>3, RowStep

LEMMA Begins == ASSUME IInv, Begin PROVE IInv'
<1>1. events \in Seq(Event) /\ events # <<>>
  BY DEF IInv, Types, Begin
<1>2. Head(events) \in Event /\ Head(events) = events[1] /\ 1 \in DOMAIN events
  BY <1>1
<1>3. events' \in Seq(Event) /\ \A i \in DOMAIN events' : i + 1 \in DOMAIN events /\ events'[i] = events[i + 1]
  BY <1>1 DEF Begin
<1>4. UNCHANGED <<wa, row, marked, sending, post, hooks, work, count>>
  BY DEF Begin
<1>5. EventsTrue'
  BY <1>3, <1>4 DEF IInv, EventsTrue
<1>6. /\ handler' = [ev |-> Head(events), at |-> handler'.at]
      /\ handler'.at \in {"save", "react", "mark"}
      /\ handler'.at = "mark" => Head(events).kind = "revoke"
  BY <1>2 DEF Begin, Event
<1>7. handler' \in Handler /\ HandlerTrue'
  <2>1. handler'.ev = events[1]
    BY <1>2, <1>6
  <2>2. handler'.at = "mark" => wa[events[1].of].revoked
    BY <1>2, <1>6 DEF IInv, EventsTrue
  <2> QED
    BY <1>2, <1>4, <1>6, <2>1, <2>2 DEF Handler, HandlerTrue
<1>8. Types' /\ OwnRefs' /\ HooksTrue'
  BY <1>3, <1>4, <1>7 DEF IInv, Types, OwnRefs, HooksTrue, Dead
<1>9. \A g \in Goroutines : WorkTrue(g)'
  BY <1>4 DEF IInv, WorkTrue, Dead
<1>10. DroppedIsGone'
  BY <1>4 DEF IInv, DroppedIsGone
<1> QED
  BY <1>5, <1>7, <1>8, <1>9, <1>10 DEF IInv

(* The row of a message, saved with its post, or made by a history sync.   *)
LEMMA SavesSent == ASSUME IInv, NEW m \in Messages, SaveSent(m) PROVE IInv'
<1> DEFINE r == IF There(m) THEN [row[m] EXCEPT !.ref = PostOf[m]]
                            ELSE Inserted("event", PostOf[m], {})
<1>1. row \in [Messages -> Row] /\ row[m] \in Row /\ PostOf[m] \in Posts
  BY DEF IInv, Types
<1>2. r \in Row /\ r.ref = PostOf[m] /\ r.at = "there"
  BY <1>1 DEF Row, Inserted, There
<1>3. row' = [row EXCEPT ![m] = r] /\ UNCHANGED <<wa, events, handler, post, hooks, work>>
  BY <1>1 DEF SaveSent
<1>4. handler' \in Handler /\ HandlerTrue'
  BY <1>3 DEF IInv, Types, HandlerTrue, Dead
<1> HIDE DEF r
<1>5. row' \in [Messages -> Row] /\ \A n \in Messages : row'[n] = IF n = m THEN r ELSE row[n]
  BY <1>1, <1>2, <1>3
<1> QED
  BY <1>2, <1>3, <1>4, <1>5, RowStep

LEMMA Batch == ASSUME IInv, NEW ms \in SUBSET Messages, SaveBatch(ms) PROVE IInv'
<1>1. \A m \in Messages : BuildReactions(m) \in SUBSET ((Actors \cup {Nothing}) \X Emojis)
  BY DEF IInv, Types, Wa, BuildReactions, Actors
<1>2. \A m \in Messages : wa[m].revoked \in BOOLEAN /\ row[m] \in Row
  BY DEF IInv, Types, Wa
<1>3. \A m \in Messages :
        \/ row'[m] = row[m]
        \/ row'[m] = Inserted("history", Nothing, IF wa[m].revoked THEN {} ELSE BuildReactions(m))
  BY DEF SaveBatch
<1>4. ASSUME NEW m \in Messages
      PROVE  row'[m] = row[m] \/
        (row'[m] \in Row /\ row'[m].ref = Nothing /\ row'[m].at = "there")
  <2> DEFINE rs == IF wa[m].revoked THEN {} ELSE BuildReactions(m)
  <2>1. rs \in SUBSET ((Actors \cup {Nothing}) \X Emojis)
    BY <1>1
  <2>2. row'[m] = row[m] \/ row'[m] = Inserted("history", Nothing, rs)
    BY <1>3
  <2> HIDE DEF rs
  <2>3. /\ Inserted("history", Nothing, rs) \in Row
        /\ Inserted("history", Nothing, rs).ref = Nothing
        /\ Inserted("history", Nothing, rs).at = "there"
    BY <2>1 DEF Inserted, Row
  <2> QED
    BY <2>2, <2>3
<1>5. row' \in [Messages -> Row]
  <2>1. row' = [m \in Messages |-> row'[m]]
    BY DEF SaveBatch
  <2> QED
    BY <1>2, <1>4, <2>1
<1>6. UNCHANGED <<wa, events, handler, post, hooks, work>>
  BY DEF SaveBatch
<1>7. handler' \in Handler /\ HandlerTrue'
  BY <1>6 DEF IInv, Types, HandlerTrue, Dead
<1> QED
  BY <1>4, <1>5, <1>6, <1>7, RowStep

(* Steps at Chatwoot: a post or a conversation changes, or a webhook.      *)
LEMMA PostStep ==
  ASSUME IInv, UNCHANGED <<wa, events, work>>, Stays,
         post' \in [Posts -> {"none", "there", "deleted", "gone"}],
         hooks' \in [Posts -> Nat], HooksTrue',
         handler' \in Handler, HandlerTrue', row' \in [Messages -> Row],
         \A m \in Messages : row'[m].ref \in {Nothing, PostOf[m], row[m].ref},
         \A m \in Messages : row'[m].at = row[m].at
  PROVE  IInv'
<1>1. Types' /\ EventsTrue'
  BY DEF IInv, Types, EventsTrue
<1>2. OwnRefs'
  BY DEF IInv, OwnRefs
<1>3. ASSUME NEW g \in Goroutines PROVE WorkTrue(g)'
  <2>1. work[g].left \subseteq Messages
    BY DEF IInv, Types, Work
  <2> QED
    BY <2>1 DEF IInv, WorkTrue, Stays
<1>4. DroppedIsGone'
  <2>1. \A m \in Messages : PostOf[m] \in Posts
    OBVIOUS
  <2> QED
    BY <2>1 DEF IInv, DroppedIsGone, Stays, Dead
<1> QED
  BY <1>1, <1>2, <1>3, <1>4 DEF IInv

LEMMA StaysTrue ==
  ASSUME IInv, handler' = handler, wa' = wa, Stays
  PROVE  handler' \in Handler /\ HandlerTrue'
<1>1. handler.ev \in Event => handler.ev.of \in Messages
  BY DEF Event
<1> QED
  BY <1>1 DEF IInv, Types, HandlerTrue, Stays

LEMMA Bridges == ASSUME IInv, NEW m \in Messages, Bridge(m) PROVE IInv'
<1>1. /\ row \in [Messages -> Row] /\ row[m] \in Row /\ PostOf[m] \in Posts
      /\ post \in [Posts -> {"none", "there", "deleted", "gone"}] /\ hooks \in [Posts -> Nat]
  BY DEF IInv, Types
<1>2. UNCHANGED <<wa, events, handler, hooks, work>> /\ post[PostOf[m]] = "none"
  BY DEF Bridge
<1>3. post' = [post EXCEPT ![PostOf[m]] = "there"]
  BY DEF Bridge
<1>4. Stays
  BY <1>1, <1>2, <1>3 DEF Stays, Dead
<1>5. HooksTrue'
  BY <1>2, <1>4 DEF IInv, HooksTrue, Stays
<1>6. row' = [row EXCEPT ![m].ref = PostOf[m]]
  BY DEF Bridge
<1>7. /\ row' \in [Messages -> Row]
      /\ \A n \in Messages : row'[n].at = row[n].at /\ row'[n].ref \in {PostOf[n], row[n].ref}
  BY <1>1, <1>6 DEF Row
<1> QED
  BY <1>1, <1>2, <1>3, <1>4, <1>5, <1>7, PostStep, StaysTrue

LEMMA Removes == ASSUME IInv, RemovePost PROVE IInv'
<1> DEFINE m == handler.ev.of
           p == PostOf[m]
<1>1. /\ handler.ev \in Event /\ m \in Messages /\ wa[m].revoked /\ p \in Posts
      /\ handler \in Handler
  BY DEF IInv, Types, HandlerTrue, RemovePost, Event
<1>2. /\ row \in [Messages -> Row] /\ hooks \in [Posts -> Nat]
      /\ post \in [Posts -> {"none", "there", "deleted", "gone"}]
  BY DEF IInv, Types
<1>3. UNCHANGED <<wa, events, marked, sending, work>>
  BY DEF RemovePost
<1>4. CASE handler' = Free /\ UNCHANGED <<row, post, hooks>>
  <2>1. Stays /\ HooksTrue'
    BY <1>3, <1>4 DEF IInv, Stays, HooksTrue, Dead
  <2>2. handler' \in Handler /\ HandlerTrue'
    BY <1>4 DEF Handler, HandlerTrue, Free
  <2> QED
    BY <1>2, <1>3, <1>4, <2>1, <2>2, PostStep
<1> DEFINE ahead == [handler EXCEPT !.at = "drop"]
<1>5. /\ ahead \in Handler /\ ahead.ev = handler.ev /\ ahead.at = "drop"
  BY <1>1 DEF Handler
<1>6. CASE post[p] = "gone" /\ row' = Cleared /\ handler' = ahead /\ UNCHANGED <<post, hooks>>
  <2>1. Stays /\ HooksTrue'
    BY <1>3, <1>6 DEF IInv, Stays, HooksTrue, Dead
  <2>2. HandlerTrue'
    BY <1>1, <1>3, <1>5, <1>6 DEF HandlerTrue, Dead
  <2> QED
    BY <1>2, <1>3, <1>5, <1>6, <2>1, <2>2, ClearedTyped, PostStep
<1>7. CASE /\ post' = [post EXCEPT ![p] = "deleted"] /\ hooks' = [hooks EXCEPT ![p] = @ + 1]
           /\ handler' = ahead /\ row' = row
  <2>1. Stays /\ Dead(p)'
    BY <1>1, <1>2, <1>3, <1>7 DEF Stays, Dead
  <2>2. hooks' \in [Posts -> Nat] /\ \A q \in Posts : q # p => hooks'[q] = hooks[q]
    BY <1>1, <1>2, <1>7
  <2>3. HooksTrue'
    <3> SUFFICES ASSUME NEW q \in Posts, hooks'[q] > 0 PROVE Dead(q)'
      BY DEF HooksTrue
    <3>1. CASE q = p
      BY <1>5, <1>7, <2>1, <3>1 DEF Dead
    <3>2. CASE q # p
      <4>1. Dead(q)
        BY <2>2, <3>2 DEF IInv, HooksTrue
      <4> QED
        BY <2>1, <4>1 DEF Stays
    <3> QED
      BY <3>1, <3>2
  <2>4. HandlerTrue'
    BY <1>1, <1>3, <1>5, <1>7, <2>1 DEF HandlerTrue
  <2>5. post' \in [Posts -> {"none", "there", "deleted", "gone"}]
    BY <1>1, <1>2, <1>7
  <2> QED
    BY <1>2, <1>3, <1>5, <1>7, <2>1, <2>2, <2>3, <2>4, <2>5, PostStep
<1> QED
  BY <1>4, <1>6, <1>7 DEF RemovePost, Goes

LEMMA AgentsDelete == ASSUME IInv, NEW p \in Posts, AgentDeletes(p) PROVE IInv'
<1>1. /\ row \in [Messages -> Row] /\ hooks \in [Posts -> Nat]
      /\ post \in [Posts -> {"none", "there", "deleted", "gone"}]
  BY DEF IInv, Types
<1>2. /\ post' = [post EXCEPT ![p] = "deleted"] /\ hooks' = [hooks EXCEPT ![p] = @ + 1]
      /\ UNCHANGED <<wa, events, handler, row, work>>
  BY DEF AgentDeletes
<1>3. Stays /\ Dead(p)'
  BY <1>1, <1>2 DEF Stays, Dead
<1>4. hooks' \in [Posts -> Nat] /\ \A q \in Posts : q # p => hooks'[q] = hooks[q]
  BY <1>1, <1>2
<1>5. HooksTrue'
  BY <1>3, <1>4 DEF IInv, HooksTrue, Stays
<1>6. post' \in [Posts -> {"none", "there", "deleted", "gone"}]
  BY <1>1, <1>2
<1> QED
  BY <1>1, <1>2, <1>3, <1>4, <1>5, <1>6, PostStep, StaysTrue

LEMMA ConversationGoesAway == ASSUME IInv, ConversationGoes PROVE IInv'
<1>1. row \in [Messages -> Row] /\ hooks \in [Posts -> Nat]
  BY DEF IInv, Types
<1>2. post' = [p \in Posts |-> "gone"] /\ UNCHANGED <<wa, events, handler, row, hooks, work>>
  BY DEF ConversationGoes
<1>3. Stays /\ HooksTrue'
  BY <1>2 DEF Stays, Dead, HooksTrue
<1> QED
  BY <1>1, <1>2, <1>3, PostStep, StaysTrue

LEMMA HookIgnored == ASSUME IInv, NEW p \in Posts, IgnoreHook(p) PROVE IInv'
<1>1. /\ row \in [Messages -> Row] /\ hooks \in [Posts -> Nat]
      /\ post \in [Posts -> {"none", "there", "deleted", "gone"}]
  BY DEF IInv, Types
<1>2. /\ hooks[p] > 0 /\ hooks' = [hooks EXCEPT ![p] = @ - 1]
      /\ UNCHANGED <<wa, events, handler, row, post, work>>
  BY DEF IgnoreHook
<1>3. hooks' \in [Posts -> Nat] /\ \A q \in Posts : hooks'[q] > 0 => hooks[q] > 0
  BY <1>1, <1>2
<1>4. Stays /\ HooksTrue'
  BY <1>2, <1>3 DEF IInv, Stays, HooksTrue, Dead
<1> QED
  BY <1>1, <1>2, <1>3, <1>4, PostStep, StaysTrue

------------------------------------------------------------------------------
(* Steps of the goroutines that revoke what an agent deleted.              *)
LEMMA WorkStep ==
  ASSUME IInv, UNCHANGED <<events, handler, post>>, Stays, wa' \in [Messages -> Wa],
         hooks' \in [Posts -> Nat], \A p \in Posts : hooks'[p] > 0 => hooks[p] > 0,
         row' \in [Messages -> Row],
         \A m \in Messages : row'[m].ref \in {Nothing, row[m].ref},
         \A m \in Messages : row'[m].at = "dropped" /\ row[m].at # "dropped" =>
           (m \in Album => wa[m].revoked) /\ Dead(PostOf[m]),
         NEW g \in Goroutines, NEW w \in Work, work' = [work EXCEPT ![g] = w],
         \A m \in w.left : Dead(PostOf[m]),
         w.at = "drop" => /\ w.of \in Messages /\ Dead(PostOf[w.of])
                          /\ w.of \in Album => wa'[w.of].revoked
  PROVE  IInv'
<1>1. Types'
  BY DEF IInv, Types
<1>2. EventsTrue'
  <2> SUFFICES ASSUME NEW i \in DOMAIN events, events[i].kind = "revoke"
               PROVE wa'[events[i].of].revoked
    BY DEF EventsTrue
  <2>1. events[i] \in Event
    BY DEF IInv, Types
  <2>2. events[i].of \in Messages
    BY <2>1 DEF Event
  <2> QED
    BY <2>2 DEF IInv, EventsTrue, Stays
<1>3. HandlerTrue' /\ HooksTrue'
  BY DEF IInv, HandlerTrue, HooksTrue, Stays, Dead, Event
<1>4. OwnRefs'
  BY DEF IInv, OwnRefs
<1>5. ASSUME NEW h \in Goroutines PROVE WorkTrue(h)'
  <2>1. work'[h] = IF h = g THEN w ELSE work[h]
    BY DEF IInv, Types
  <2>2. CASE h = g
    BY <2>1, <2>2 DEF WorkTrue, Dead
  <2>3. CASE h # g
    BY <2>1, <2>3 DEF IInv, WorkTrue, Dead, Stays
  <2> QED
    BY <2>2, <2>3
<1>6. DroppedIsGone'
  BY DEF IInv, DroppedIsGone, Stays, Dead
<1> QED
  BY <1>1, <1>2, <1>3, <1>4, <1>5, <1>6 DEF IInv

LEMMA AfterTyped ==
  ASSUME NEW g \in Goroutines, NEW left \in SUBSET Messages
  PROVE  /\ After(g, left) \in Work /\ After(g, left).at # "drop"
         /\ After(g, left).left \subseteq left
  BY DEF After, Work, NoWork

LEMMA Lists == ASSUME IInv, NEW g \in Goroutines, NEW p \in Posts, ListRows(g, p) PROVE IInv'
<1> DEFINE ms == {m \in Messages : There(m) /\ row[m].ref = p}
           w == IF ms = {} THEN NoWork ELSE [at |-> "revoke", left |-> ms, of |-> Nothing]
<1>1. /\ wa \in [Messages -> Wa] /\ row \in [Messages -> Row] /\ hooks \in [Posts -> Nat]
  BY DEF IInv, Types
<1>2. /\ hooks[p] > 0 /\ hooks' = [hooks EXCEPT ![p] = @ - 1]
      /\ work' = [work EXCEPT ![g] = w]
      /\ UNCHANGED <<wa, events, handler, row, post>>
  BY DEF ListRows
<1>3. hooks' \in [Posts -> Nat] /\ \A q \in Posts : hooks'[q] > 0 => hooks[q] > 0
  BY <1>1, <1>2
<1>4. \A m \in ms : Dead(PostOf[m])
  BY <1>2 DEF IInv, HooksTrue, OwnRefs
<1>5. w \in Work /\ w.at # "drop" /\ w.left \subseteq ms
  BY DEF Work, NoWork
<1>6. Stays
  BY <1>2 DEF Stays, Dead
<1> HIDE DEF w, ms
<1> QED
  BY <1>1, <1>2, <1>3, <1>4, <1>5, <1>6, WorkStep

LEMMA Revokes ==
  ASSUME IInv, NEW g \in Goroutines, NEW m \in Messages, RevokeNext(g, m) PROVE IInv'
<1>1. /\ wa \in [Messages -> Wa] /\ wa[m] \in Wa /\ row \in [Messages -> Row]
      /\ hooks \in [Posts -> Nat] /\ work[g] \in Work
  BY DEF IInv, Types
<1>2. /\ UNCHANGED <<events, handler, row, post, hooks>>
      /\ m \in work[g].left /\ work[g].left \subseteq Messages
  BY <1>1 DEF RevokeNext, Work
<1>3. \A n \in work[g].left : Dead(PostOf[n])
  BY DEF IInv, WorkTrue
<1>4. CASE /\ wa' = [wa EXCEPT ![m].revoked = @ \/ m \in Album]
           /\ work' = [work EXCEPT ![g] =
                [at |-> "drop", of |-> m, left |-> work[g].left \ {m}]]
  <2> DEFINE w == [at |-> "drop", of |-> m, left |-> work[g].left \ {m}]
  <2>1. wa' \in [Messages -> Wa] /\ (m \in Album => wa'[m].revoked)
    BY <1>1, <1>4 DEF Wa
  <2>2. \A n \in Messages : wa[n].revoked => wa'[n].revoked
    BY <1>1, <1>4 DEF Wa
  <2>3. Stays
    BY <1>2, <2>2 DEF Stays, Dead
  <2>4. w \in Work /\ w.left \subseteq work[g].left /\ w.of = m
    BY <1>2 DEF Work
  <2>5. work' = [work EXCEPT ![g] = w]
    BY <1>4
  <2> HIDE DEF w
  <2> QED
    BY <1>1, <1>2, <1>3, <2>1, <2>3, <2>4, <2>5, WorkStep
<1>5. CASE UNCHANGED wa /\ work' = [work EXCEPT ![g] = Refused(g, m)]
  <2>1. /\ Refused(g, m) \in Work /\ Refused(g, m).at # "drop"
        /\ Refused(g, m).left \subseteq work[g].left
    BY <1>2, AfterTyped DEF Refused
  <2>2. Stays
    BY <1>2, <1>5 DEF Stays, Dead
  <2> QED
    BY <1>1, <1>2, <1>3, <1>5, <2>1, <2>2, WorkStep
<1> QED
  BY <1>4, <1>5 DEF RevokeNext

LEMMA WorkDrops == ASSUME IInv, NEW g \in Goroutines, DropNext(g) PROVE IInv'
<1> DEFINE m == work[g].of
           w == After(g, work[g].left)
<1>1. /\ wa \in [Messages -> Wa] /\ row \in [Messages -> Row]
      /\ hooks \in [Posts -> Nat] /\ work[g] \in Work
  BY DEF IInv, Types
<1>2. m \in Messages /\ Dead(PostOf[m]) /\ (m \in Album => wa[m].revoked)
  BY DEF IInv, WorkTrue, DropNext
<1>3. /\ row' \in {row, Dropped(m)} /\ work' = [work EXCEPT ![g] = w]
      /\ UNCHANGED <<wa, events, handler, post, hooks>>
  BY DEF DropNext, Tries
<1>4. \A n \in work[g].left : Dead(PostOf[n])
  BY DEF IInv, WorkTrue
<1>5. w \in Work /\ w.at # "drop" /\ w.left \subseteq work[g].left
  <2>1. work[g].left \in SUBSET Messages
    BY <1>1 DEF Work
  <2> QED
    BY <2>1, AfterTyped
<1>6. Stays
  BY <1>3 DEF Stays, Dead
<1> HIDE DEF m, w
<1>7. row' \in [Messages -> Row] /\ \A n \in Messages : row'[n].ref \in {Nothing, row[n].ref}
  BY <1>1, <1>2, <1>3, DroppedTyped
<1>8. \A n \in Messages : row'[n].at = "dropped" /\ row[n].at # "dropped" => n = m
  BY <1>2, <1>3, DroppedTyped
<1> QED
  BY <1>1, <1>2, <1>3, <1>4, <1>5, <1>6, <1>7, <1>8, WorkStep

------------------------------------------------------------------------------
(* Steps on phones and of the API.                                         *)
LEMMA Phones ==
  ASSUME IInv, NEW m \in Messages, NEW a \in Actors, NEW e \in Emojis \cup {Nothing},
         Comes(m) \/ React(m, a, e) \/ Revoke(m)
  PROVE  IInv'
<1>1. wa \in [Messages -> Wa] /\ wa[m] \in Wa
  BY DEF IInv, Types
<1>2. UNCHANGED <<handler, row, post, hooks, work>>
  BY DEF Comes, React, Revoke
<1>3. CASE Comes(m)
  <2>1. wa' = [wa EXCEPT ![m].sent = TRUE]
    BY <1>3 DEF Comes
  <2>2. wa' \in [Messages -> Wa] /\ \A n \in Messages : wa'[n].revoked = wa[n].revoked
    BY <1>1, <2>1 DEF Wa
  <2>3. Stays
    BY <1>2, <2>2 DEF Stays, Dead
  <2>4. [kind |-> "message", of |-> m, by |-> Nothing, emoji |-> Nothing] \in Event
    BY DEF Event
  <2>5. events' = Append(events, [kind |-> "message", of |-> m, by |-> Nothing, emoji |-> Nothing])
    BY <1>3 DEF Comes, Tells
  <2> QED
    BY <1>2, <2>2, <2>3, <2>4, <2>5, PhoneStep
<1>4. CASE React(m, a, e)
  <2>1. wa' = [wa EXCEPT ![m].reactions[a] = e]
    BY <1>4 DEF React
  <2>2. wa' \in [Messages -> Wa] /\ \A n \in Messages : wa'[n].revoked = wa[n].revoked
    BY <1>1, <2>1 DEF Wa
  <2>3. Stays
    BY <1>2, <2>2 DEF Stays, Dead
  <2>4. [kind |-> "reaction", of |-> m, by |-> a, emoji |-> e] \in Event
    BY DEF Event
  <2>5. events' = Append(events, [kind |-> "reaction", of |-> m, by |-> a, emoji |-> e])
    BY <1>4 DEF React, Tells
  <2> QED
    BY <1>2, <2>2, <2>3, <2>4, <2>5, PhoneStep
<1>5. CASE Revoke(m)
  <2>1. wa' = [wa EXCEPT ![m].revoked = TRUE]
    BY <1>5 DEF Revoke
  <2>2. /\ wa' \in [Messages -> Wa] /\ wa'[m].revoked
        /\ \A n \in Messages : wa[n].revoked => wa'[n].revoked
    BY <1>1, <2>1 DEF Wa
  <2>3. Stays
    BY <1>2, <2>2 DEF Stays, Dead
  <2>4. [kind |-> "revoke", of |-> m, by |-> Nothing, emoji |-> Nothing] \in Event
    BY DEF Event
  <2>5. events' = Append(events, [kind |-> "revoke", of |-> m, by |-> Nothing, emoji |-> Nothing])
    BY <1>5 DEF Revoke, Tells
  <2> QED
    BY <1>2, <2>2, <2>3, <2>4, <2>5, PhoneStep
<1> QED
  BY <1>3, <1>4, <1>5

LEMMA Requests ==
  ASSUME IInv, NEW m \in Messages,
         \/ Send(m) \/ SaveSentFails(m)
         \/ \E e \in Emojis : ApiReacts(m, e)
         \/ \E forMe \in BOOLEAN : ApiDeletes(m, forMe)
  PROVE  IInv'
<1>1. wa \in [Messages -> Wa] /\ wa[m] \in Wa
  BY DEF IInv, Types
<1>2. UNCHANGED <<events, handler, row, post, hooks, work>>
  BY DEF Send, SaveSentFails, ApiReacts, ApiDeletes
<1>3. wa' \in [Messages -> Wa] /\ \A n \in Messages : wa[n].revoked => wa'[n].revoked
  <2>1. CASE Send(m)
    BY <1>1, <2>1 DEF Send, Wa
  <2>2. CASE SaveSentFails(m)
    BY <1>1, <2>2 DEF SaveSentFails
  <2>3. ASSUME NEW e \in Emojis, ApiReacts(m, e)
        PROVE wa' \in [Messages -> Wa] /\ \A n \in Messages : wa[n].revoked => wa'[n].revoked
    <3>1. wa' = [wa EXCEPT ![m].reactions[Me] = e]
      BY <2>3 DEF ApiReacts
    <3> QED
      BY <1>1, <3>1 DEF Wa, Actors
  <2>4. ASSUME NEW forMe \in BOOLEAN, ApiDeletes(m, forMe)
        PROVE wa' \in [Messages -> Wa] /\ \A n \in Messages : wa[n].revoked => wa'[n].revoked
    <3>1. wa' = wa \/ wa' = [wa EXCEPT ![m].revoked = @ \/ (forMe /\ m \in Album)]
      BY <2>4 DEF ApiDeletes
    <3> QED
      BY SMTT(60), <1>1, <3>1 DEF Wa
  <2> QED
    BY <2>1, <2>2, <2>3, <2>4
<1>4. Stays
  BY <1>2, <1>3 DEF Stays, Dead
<1>5. [kind |-> "message", of |-> m, by |-> Nothing, emoji |-> Nothing] \in Event
  BY DEF Event
<1> QED
  BY <1>2, <1>3, <1>4, <1>5, PhoneStep

------------------------------------------------------------------------------
LEMMA Stutters == ASSUME IInv, UNCHANGED updatesVars PROVE IInv'
<1> USE DEF updatesVars
<1>1. Types' /\ OwnRefs' /\ EventsTrue' /\ HandlerTrue' /\ HooksTrue'
  BY DEF IInv, Types, OwnRefs, EventsTrue, HandlerTrue, HooksTrue, Dead
<1>2. (\A g \in Goroutines : WorkTrue(g)') /\ DroppedIsGone'
  BY DEF IInv, WorkTrue, DroppedIsGone, Dead
<1> QED
  BY <1>1, <1>2 DEF IInv

LEMMA Inductive == IInv /\ [UpdatesNext]_updatesVars => IInv'
<1> SUFFICES ASSUME IInv, [UpdatesNext]_updatesVars PROVE IInv'
  OBVIOUS
<1>1. CASE \E m \in Messages : Send(m) \/ SaveSentFails(m)
  BY <1>1, Requests
<1>2. CASE \E m \in Messages : SaveSent(m)
  BY <1>2, SavesSent
<1>3. CASE \E m \in Messages : Comes(m) \/ Revoke(m)
  <2>1. Me \in Actors /\ Nothing \in Emojis \cup {Nothing}
    BY DEF Actors
  <2> QED
    BY <1>3, <2>1, Phones
<1>4. CASE \E m \in Messages : Bridge(m)
  BY <1>4, Bridges
<1>5. CASE \E m \in Messages, a \in Actors, e \in Emojis \cup {Nothing} : React(m, a, e)
  BY <1>5, Phones
<1>6. CASE Begin \/ SaveMessage \/ UpdateReactions \/ TellReaction
  BY <1>6, Begins, Saves, Reacts, TellsReaction
<1>7. CASE MarkDeleted \/ FindRow \/ RemovePost \/ DropRow
  BY <1>7, Marks, Removes, Drops
<1>8. CASE \E ms \in SUBSET Messages : SaveBatch(ms)
  BY <1>8, Batch
<1>9. CASE \E p \in Posts : AgentDeletes(p) \/ IgnoreHook(p) \/ \E g \in Goroutines : ListRows(g, p)
  BY <1>9, AgentsDelete, HookIgnored, Lists
<1>10. CASE ConversationGoes
  BY <1>10, ConversationGoesAway
<1>11. CASE \E g \in Goroutines : DropNext(g) \/ \E m \in Messages : RevokeNext(g, m)
  BY <1>11, WorkDrops, Revokes
<1>12. CASE \E m \in Messages : (\E e \in Emojis : ApiReacts(m, e))
                              \/ (\E forMe \in BOOLEAN : ApiDeletes(m, forMe))
  BY <1>12, Requests
<1>13. CASE UNCHANGED updatesVars
  BY <1>13, Stutters
<1> QED
  BY <1>1, <1>2, <1>3, <1>4, <1>5, <1>6, <1>7, <1>8, <1>9, <1>10, <1>11, <1>12, <1>13
     DEF UpdatesNext

(* A row is deleted only once its message is gone in Chatwoot and, if it   *)
(* is ours, at WhatsApp (repository.Delete, called by ProcessMessageDelete *)
(* and handleMessageDeleted), for any number of messages and goroutines.   *)
THEOREM GoneOnBothSides == UpdatesSpec => []DroppedIsGone
<1>1. IInv => DroppedIsGone
  BY DEF IInv
<1> QED
  BY <1>1, Initial, Inductive, PTL DEF UpdatesSpec
------------------------------------------------------------------------------
(* Reactions and deletions.  The events of a message come in the order in  *)
(* which it happened to the message; until its first event is handled it   *)
(* has no row of an event, and all that happened to it waits behind it.    *)
EventTrue(e) ==
  /\ wa[e.of].sent
  /\ e.kind = "message" => e.of \in Theirs
  /\ e.kind = "reaction" => e.by \in Actors
(* What is sent, and in which order its events come.                       *)
InOrder ==
  /\ \A i \in DOMAIN events : EventTrue(events[i])
  /\ handler.at # "idle" => EventTrue(handler.ev)
  /\ handler.at = "save" => handler.ev.kind = "message"
  /\ handler.at = "react" => handler.ev.kind = "reaction"
  /\ \A i, j \in DOMAIN events : i < j /\ events[i].of = events[j].of => events[j].kind # "message"
  /\ handler.at # "idle" =>
       \A j \in DOMAIN events : events[j].of = handler.ev.of => events[j].kind # "message"
Unsent(m) ==
  ~wa[m].sent => /\ \A a \in Actors : wa[m].reactions[a] = Nothing
                 /\ m \in Theirs => ~wa[m].revoked
RowTrue(m) ==
  /\ row[m].ref # Nothing => There(m)
  /\ row[m].reactions \subseteq Actors \X Emojis
Facts ==
  InOrder /\ (\A m \in Messages : Unsent(m) /\ RowTrue(m)) /\ count \in [DOMAIN Bounds -> Nat]

(* The event that makes the row of m waits or is in hand.                  *)
Unsaved(m) ==
  \/ \E i \in DOMAIN events : events[i].kind = "message" /\ events[i].of = m
  \/ handler.at = "save" /\ handler.ev.of = m
FromEvent(m) == There(m) /\ row[m].from = "event"

ReactsAt(i, m, a) == events[i].kind = "reaction" /\ events[i].of = m /\ events[i].by = a
Reacting(m, a) == handler.at = "react" /\ handler.ev.of = m /\ handler.ev.by = a
(* The last reaction of a that is not in the row of m yet is the one a has *)
(* given m, and when there is none the row shows what a has given m.       *)
ReactionTrue(m, a) ==
  /\ \A i \in DOMAIN events :
       ReactsAt(i, m, a) /\ (\A j \in DOMAIN events : ReactsAt(j, m, a) => j <= i)
         => events[i].emoji = wa[m].reactions[a]
  /\ (\A i \in DOMAIN events : ~ReactsAt(i, m, a)) =>
       /\ Reacting(m, a) => handler.ev.emoji = wa[m].reactions[a]
       /\ ~Reacting(m, a) /\ FromEvent(m) =>
            \A e \in Emojis : <<a, e>> \in row[m].reactions <=> e = wa[m].reactions[a]
       /\ Unsaved(m) => wa[m].reactions[a] = Nothing
ReactionsTrue == Undisturbed => \A m \in Messages, a \in Actors : ReactionTrue(m, a)

Revoking(m) == \E i \in DOMAIN events : events[i].kind = "revoke" /\ events[i].of = m
Marking(m) == handler.at = "mark" /\ handler.ev.of = m
Undoing(m) == handler.at \in {"mark", "find", "remove", "drop"} /\ handler.ev.of = m
Dropping(m) == \E g \in Goroutines : work[g].at = "drop" /\ work[g].of = m
Listed(m) == \E g \in Goroutines : m \in work[g].left
(* Whatever is to follow a deletion in Chatwoot or a revocation is under   *)
(* way.                                                                    *)
PostTrue(m) ==
  row[m].ref # Nothing /\ post[PostOf[m]] = "deleted" =>
    hooks[PostOf[m]] > 0 \/ Listed(m) \/ Dropping(m)
RevokeTrue(m) ==
  wa[m].revoked =>
    /\ Unsaved(m) => Revoking(m)
    /\ FromEvent(m) => m \in marked \/ Revoking(m) \/ Marking(m) \/ Dropping(m)
    /\ row[m].ref # Nothing => Revoking(m) \/ Undoing(m) \/ Dropping(m)
DeletionsTrue == Undisturbed => \A m \in Messages : PostTrue(m) /\ RevokeTrue(m)
Rest == Facts /\ ReactionsTrue /\ DeletionsTrue
Meet == IInv /\ Rest

LEMMA MeetsFirst == UpdatesInit => Meet
<1> SUFFICES ASSUME UpdatesInit PROVE Meet
  OBVIOUS
<1>1. events = <<>> /\ DOMAIN events = {} /\ handler.at = "idle"
  BY DEF UpdatesInit, Free
<1>2. InOrder
  BY <1>1 DEF InOrder
<1>3. count \in [DOMAIN Bounds -> Nat]
  BY DEF UpdatesInit
<1>4. \A m \in Messages : Unsent(m) /\ RowTrue(m)
  BY DEF UpdatesInit, Unsent, RowTrue, There, NoRow
<1>5. \A m \in Messages : ~There(m) /\ ~Unsaved(m) /\ row[m].ref = Nothing
  BY <1>1 DEF UpdatesInit, There, NoRow, Unsaved
<1>6. \A m \in Messages, a \in Actors : ReactionTrue(m, a)
  BY <1>1, <1>5 DEF ReactionTrue, FromEvent, Reacting
<1>7. \A m \in Messages : PostTrue(m) /\ RevokeTrue(m)
  BY <1>5 DEF PostTrue, RevokeTrue, FromEvent
<1> QED
  BY <1>2, <1>3, <1>4, <1>6, <1>7, Initial DEF Meet, Rest, Facts, ReactionsTrue, DeletionsTrue

------------------------------------------------------------------------------
(* What is counted is not forgotten.                                       *)
LEMMA Counted ==
  ASSUME Facts, NEW k \in DOMAIN Bounds, Counts(k)
  PROVE  /\ count' \in [DOMAIN Bounds -> Nat]
         /\ Undisturbed' => Undisturbed
         /\ k \in {"failures", "api"} => ~Undisturbed'
<1>1. /\ count \in [DOMAIN Bounds -> Nat]
      /\ DOMAIN Bounds = {"reacts", "revokes", "syncs", "api", "failures"}
  BY DEF Facts, Bounds
<1>2. count' = [count EXCEPT ![k] = @ + 1]
  BY DEF Counts
<1>3. /\ count' \in [DOMAIN Bounds -> Nat] /\ count'[k] = count[k] + 1
      /\ \A l \in DOMAIN Bounds : count'[l] >= count[l]
  BY <1>1, <1>2
<1>4. /\ count.failures = count["failures"] /\ count.api = count["api"]
      /\ count'.failures = count'["failures"] /\ count'.api = count'["api"]
  OBVIOUS
<1> QED
  BY <1>1, <1>3, <1>4 DEF Undisturbed

LEMMA Uncounted ==
  ASSUME Facts, count' = count
  PROVE  count' \in [DOMAIN Bounds -> Nat] /\ (Undisturbed' => Undisturbed)
  BY DEF Facts, Undisturbed

(* Steps that let the events be and bring the handler to no other event.   *)
Onward ==
  \/ handler' = handler
  \/ handler' = Free
  \/ handler'.ev = handler.ev /\ handler.at # "idle" /\ handler'.at \notin {"save", "react"}

LEMMA OrderKept ==
  ASSUME Facts, events' = events, Onward,
         IInv, \A m \in Messages : wa[m].sent => wa'[m].sent
  PROVE  InOrder'
<1>1. \A e \in Event : EventTrue(e) => EventTrue(e)'
  BY DEF EventTrue, Event
<1>2. \A i \in DOMAIN events : events[i] \in Event /\ EventTrue(events[i])
  BY DEF IInv, Types, Facts, InOrder
<1>3. handler.at # "idle" => handler.ev \in Event /\ EventTrue(handler.ev)
  BY DEF IInv, HandlerTrue, Facts, InOrder
<1>4. \A i \in DOMAIN events' : EventTrue(events[i])'
  BY <1>1, <1>2 DEF EventTrue
<1>5. handler'.at # "idle" => EventTrue(handler.ev)'
  <2>1. handler'.at # "idle" => handler'.ev = handler.ev /\ handler.at # "idle"
    BY DEF Onward, Free
  <2> QED
    BY <1>1, <1>3, <2>1 DEF EventTrue
<1>6. /\ handler'.at = "save" => handler'.ev.kind = "message"
      /\ handler'.at = "react" => handler'.ev.kind = "reaction"
  BY DEF Facts, InOrder, Onward, Free
<1>7. handler'.at # "idle" =>
        \A j \in DOMAIN events' : events'[j].of = handler'.ev.of => events'[j].kind # "message"
  BY DEF Facts, InOrder, Onward, Free
<1>8. \A i, j \in DOMAIN events' :
        i < j /\ events'[i].of = events'[j].of => events'[j].kind # "message"
  BY DEF Facts, InOrder
<1> QED
  BY <1>4, <1>5, <1>6, <1>7, <1>8 DEF InOrder

LEMMA ReactionsKept ==
  ASSUME ReactionsTrue, events' = events, Undisturbed' => Undisturbed,
         \A m \in Messages, a \in Actors :
           /\ wa'[m].reactions[a] = wa[m].reactions[a]
           /\ Reacting(m, a)' <=> Reacting(m, a)
           /\ Reacting(m, a) => handler'.ev = handler.ev,
         \A m \in Messages : Unsaved(m)' => Unsaved(m),
         \A m \in Messages : FromEvent(m)' =>
           \/ FromEvent(m) /\ row'[m].reactions = row[m].reactions
           \/ /\ row'[m].reactions = {}
              /\ \A a \in Actors : wa[m].reactions[a] # Nothing =>
                   \E i \in DOMAIN events : ReactsAt(i, m, a)
  PROVE  ReactionsTrue'
<1> SUFFICES ASSUME Undisturbed', NEW m \in Messages, NEW a \in Actors PROVE ReactionTrue(m, a)'
  BY DEF ReactionsTrue
<1>1. ReactionTrue(m, a)
  BY DEF ReactionsTrue
<1>2. \A i \in DOMAIN events : ReactsAt(i, m, a)' <=> ReactsAt(i, m, a)
  BY DEF ReactsAt
<1>3. ASSUME NEW i \in DOMAIN events', ReactsAt(i, m, a)',
             \A j \in DOMAIN events' : ReactsAt(j, m, a)' => j <= i
      PROVE  events'[i].emoji = wa'[m].reactions[a]
  BY <1>1, <1>2, <1>3 DEF ReactionTrue
<1>4. ASSUME \A i \in DOMAIN events' : ~ReactsAt(i, m, a)'
      PROVE  /\ Reacting(m, a)' => handler'.ev.emoji = wa'[m].reactions[a]
             /\ ~Reacting(m, a)' /\ FromEvent(m)' =>
                  \A e \in Emojis : <<a, e>> \in row'[m].reactions <=> e = wa'[m].reactions[a]
             /\ Unsaved(m)' => wa'[m].reactions[a] = Nothing
  <2>1. \A i \in DOMAIN events : ~ReactsAt(i, m, a)
    BY <1>2, <1>4
  <2> QED
    BY <1>1, <2>1 DEF ReactionTrue
<1> QED
  BY <1>3, <1>4 DEF ReactionTrue

LEMMA PostsKept ==
  ASSUME DeletionsTrue, Undisturbed,
         \A m \in Messages : row'[m].ref # Nothing /\ post'[PostOf[m]] = "deleted" =>
           /\ (row[m].ref # Nothing /\ post[PostOf[m]] = "deleted") \/ hooks'[PostOf[m]] > 0
           /\ hooks[PostOf[m]] > 0 => hooks'[PostOf[m]] > 0 \/ Listed(m)'
           /\ Listed(m) => Listed(m)' \/ Dropping(m)'
           /\ Dropping(m) => Dropping(m)'
  PROVE  \A m \in Messages : PostTrue(m)'
  BY DEF DeletionsTrue, PostTrue

LEMMA RevokesKept ==
  ASSUME Facts, DeletionsTrue, Undisturbed, events' = events, marked \subseteq marked',
         \A m \in Messages :
           /\ Unsaved(m)' => Unsaved(m)
           /\ Marking(m) => Marking(m)' \/ m \in marked'
           /\ Undoing(m) => Undoing(m)' \/ row'[m].ref = Nothing,
         \A m \in Messages : wa'[m].revoked /\ ~wa[m].revoked => m \in Album /\ Dropping(m)',
         \A m \in Messages : wa'[m].revoked =>
           /\ FromEvent(m)' => FromEvent(m) \/ Unsaved(m)
           /\ row'[m].ref # Nothing => row[m].ref # Nothing
           /\ Dropping(m) => Dropping(m)' \/ (~There(m)' /\ row'[m].ref = Nothing)
  PROVE  \A m \in Messages : RevokeTrue(m)'
<1> SUFFICES ASSUME NEW m \in Messages, wa'[m].revoked PROVE RevokeTrue(m)'
  BY DEF RevokeTrue
<1>1. Revoking(m)' <=> Revoking(m)
  BY DEF Revoking
<1>2. CASE ~wa[m].revoked
  <2>1. m \in Album /\ m \notin Theirs /\ Dropping(m)'
    BY <1>2
  <2>2. ~Unsaved(m)
    BY <2>1 DEF Unsaved, Facts, InOrder, EventTrue
  <2> QED
    BY <1>1, <2>1, <2>2 DEF RevokeTrue
<1>3. CASE wa[m].revoked
  <2>1. RevokeTrue(m)
    BY DEF DeletionsTrue
  <2>2. FromEvent(m)' => There(m)'
    BY DEF FromEvent
  <2> QED
    BY <1>1, <1>3, <2>1, <2>2 DEF RevokeTrue
<1> QED
  BY <1>2, <1>3

LEMMA FactsKept ==
  ASSUME IInv, Facts, events' = events, Onward, count' \in [DOMAIN Bounds -> Nat],
         \A m \in Messages : (wa[m].sent => wa'[m].sent) /\ Unsent(m)' /\ RowTrue(m)'
  PROVE  Facts'
  BY OrderKept DEF Facts

LEMMA SameEvents ==
  ASSUME UNCHANGED <<events, handler>>
  PROVE  /\ Onward
         /\ \A m \in Messages :
              /\ Unsaved(m)' => Unsaved(m)
              /\ Marking(m) => Marking(m)'
              /\ Undoing(m) => Undoing(m)'
         /\ \A m \in Messages, a \in Actors : Reacting(m, a)' <=> Reacting(m, a)
  BY DEF Onward, Unsaved, Reacting, Marking, Undoing

LEMMA Disturbed ==
  ASSUME Facts', ~Undisturbed'
  PROVE  Rest'
  BY DEF Rest, ReactionsTrue, DeletionsTrue

(* Steps that touch neither events, rows nor what was revoked.             *)
LEMMA RowsSame ==
  ASSUME Meet, UNCHANGED <<events, handler, row>>, marked \subseteq marked',
         count' \in [DOMAIN Bounds -> Nat], Undisturbed' => Undisturbed,
         \A m \in Messages :
           /\ wa[m].sent => wa'[m].sent
           /\ wa'[m].revoked = wa[m].revoked /\ wa'[m].reactions = wa[m].reactions,
         \A m \in Messages : Dropping(m) => Dropping(m)',
         Undisturbed' => \A m \in Messages : PostTrue(m)'
  PROVE  Rest'
<1>1. \A m \in Messages : Unsent(m) /\ RowTrue(m)
  BY DEF Meet, Rest, Facts
<1>2. \A m \in Messages : Unsent(m)'
  <2> SUFFICES ASSUME NEW m \in Messages PROVE Unsent(m)'
    OBVIOUS
  <2> QED
    BY <1>1 DEF Unsent
<1>3. \A m \in Messages : RowTrue(m)' /\ (FromEvent(m)' <=> FromEvent(m))
  BY <1>1 DEF RowTrue, There, FromEvent
<1>4. Facts'
  BY <1>2, <1>3, SameEvents, FactsKept DEF Meet, Rest
<1>5. ReactionsTrue'
  BY <1>3, SameEvents, ReactionsKept DEF Meet, Rest
<1>6. DeletionsTrue'
  <2> SUFFICES ASSUME Undisturbed' PROVE \A m \in Messages : PostTrue(m)' /\ RevokeTrue(m)'
    BY DEF DeletionsTrue
  <2> QED
    BY <1>3, SameEvents, RevokesKept DEF Meet, Rest
<1> QED
  BY <1>4, <1>5, <1>6 DEF Rest

LEMMA SendRest == ASSUME Meet, NEW m \in Messages, Send(m) PROVE Rest'
<1>1. wa \in [Messages -> Wa] /\ wa[m] \in Wa
  BY DEF Meet, IInv, Types
<1>2. /\ wa' = [wa EXCEPT ![m].sent = TRUE]
      /\ UNCHANGED <<events, handler, row, marked, post, hooks, work, count>>
  BY DEF Send
<1>3. \A n \in Messages :
        /\ wa[n].sent => wa'[n].sent
        /\ wa'[n].revoked = wa[n].revoked /\ wa'[n].reactions = wa[n].reactions
  BY <1>1, <1>2 DEF Wa
<1>4. count' \in [DOMAIN Bounds -> Nat] /\ (Undisturbed' => Undisturbed)
  BY <1>2, Uncounted DEF Meet, Rest
<1>5. Undisturbed' => \A n \in Messages : PostTrue(n)'
  BY <1>2, <1>4 DEF Meet, Rest, DeletionsTrue, PostTrue, Listed, Dropping
<1>6. \A n \in Messages : Dropping(n) => Dropping(n)'
  BY <1>2 DEF Dropping
<1> QED
  BY <1>2, <1>3, <1>4, <1>5, <1>6, RowsSame

(* A post or a conversation is deleted in Chatwoot.                        *)
LEMMA AgentRest == ASSUME Meet, NEW p \in Posts, AgentDeletes(p) PROVE Rest'
<1>1. hooks \in [Posts -> Nat] /\ post \in [Posts -> {"none", "there", "deleted", "gone"}]
  BY DEF Meet, IInv, Types
<1>2. /\ post' = [post EXCEPT ![p] = "deleted"] /\ hooks' = [hooks EXCEPT ![p] = @ + 1]
      /\ UNCHANGED <<wa, events, handler, row, marked, work, count>>
  BY DEF AgentDeletes
<1>3. count' \in [DOMAIN Bounds -> Nat] /\ (Undisturbed' => Undisturbed)
  BY <1>2, Uncounted DEF Meet, Rest
<1>4. /\ hooks'[p] > 0
      /\ \A q \in Posts : q # p => hooks'[q] = hooks[q] /\ post'[q] = post[q]
  BY <1>1, <1>2
<1>5. \A n \in Messages : (Listed(n)' <=> Listed(n)) /\ (Dropping(n)' <=> Dropping(n))
  BY <1>2 DEF Listed, Dropping
<1>6. Undisturbed' => \A n \in Messages : PostTrue(n)'
  <2> SUFFICES ASSUME Undisturbed', NEW n \in Messages PROVE PostTrue(n)'
    OBVIOUS
  <2>1. PostTrue(n) /\ PostOf[n] \in Posts
    BY <1>3 DEF Meet, Rest, DeletionsTrue
  <2> QED
    BY <1>2, <1>4, <1>5, <2>1 DEF PostTrue
<1> QED
  BY <1>2, <1>3, <1>5, <1>6, RowsSame

LEMMA GoneRest == ASSUME Meet, ConversationGoes PROVE Rest'
<1>1. /\ post' = [p \in Posts |-> "gone"]
      /\ UNCHANGED <<wa, events, handler, row, marked, work, hooks, count>>
  BY DEF ConversationGoes
<1>2. count' \in [DOMAIN Bounds -> Nat] /\ (Undisturbed' => Undisturbed)
  BY <1>1, Uncounted DEF Meet, Rest
<1>3. \A n \in Messages : PostTrue(n)'
  BY <1>1 DEF PostTrue
<1>4. \A n \in Messages : Dropping(n) => Dropping(n)'
  BY <1>1 DEF Dropping
<1> QED
  BY <1>1, <1>2, <1>3, <1>4, RowsSame

LEMMA HookRest == ASSUME Meet, NEW p \in Posts, IgnoreHook(p) PROVE Rest'
<1>1. UNCHANGED <<wa, events, handler, row, marked, post, work>> /\ Counts("failures")
  BY DEF IgnoreHook
<1>2. "failures" \in DOMAIN Bounds
  BY DEF Bounds
<1>3. count' \in [DOMAIN Bounds -> Nat] /\ ~Undisturbed'
  BY <1>1, <1>2, Counted DEF Meet, Rest
<1>4. \A n \in Messages : Dropping(n) => Dropping(n)'
  BY <1>1 DEF Dropping
<1> QED
  BY <1>1, <1>3, <1>4, RowsSame

(* A goroutine takes a webhook: every row that refers to the post is on    *)
(* its list.                                                               *)
LEMMA ListRest ==
  ASSUME Meet, NEW g \in Goroutines, NEW p \in Posts, ListRows(g, p) PROVE Rest'
<1> DEFINE ms == {m \in Messages : There(m) /\ row[m].ref = p}
           w == IF ms = {} THEN NoWork ELSE [at |-> "revoke", left |-> ms, of |-> Nothing]
<1>1. hooks \in [Posts -> Nat] /\ work \in [Goroutines -> Work]
  BY DEF Meet, IInv, Types
<1>2. /\ hooks' = [hooks EXCEPT ![p] = @ - 1] /\ work' = [work EXCEPT ![g] = w]
      /\ work[g] = NoWork /\ UNCHANGED <<wa, events, handler, row, marked, post, count>>
  BY DEF ListRows
<1>3. count' \in [DOMAIN Bounds -> Nat] /\ (Undisturbed' => Undisturbed)
  BY <1>2, Uncounted DEF Meet, Rest
<1>4. w.left = ms
  BY DEF NoWork
<1>5. \A h \in Goroutines : work'[h] = IF h = g THEN w ELSE work[h]
  BY <1>1, <1>2
<1>6. work[g].left = {} /\ work[g].at = "idle"
  BY <1>2 DEF NoWork
<1> HIDE DEF ms, w
<1>7. ASSUME NEW n \in Messages
      PROVE  (Listed(n) => Listed(n)') /\ (Dropping(n) => Dropping(n)')
  BY <1>5, <1>6 DEF Listed, Dropping
<1>8. Undisturbed' => \A n \in Messages : PostTrue(n)'
  <2> SUFFICES ASSUME Undisturbed', NEW n \in Messages, row[n].ref # Nothing,
                      post[PostOf[n]] = "deleted"
               PROVE  hooks'[PostOf[n]] > 0 \/ Listed(n)' \/ Dropping(n)'
    BY <1>2 DEF PostTrue
  <2>1. hooks[PostOf[n]] > 0 \/ Listed(n) \/ Dropping(n)
    BY <1>3 DEF Meet, Rest, DeletionsTrue, PostTrue
  <2>2. There(n) /\ row[n].ref = PostOf[n] /\ PostOf[n] \in Posts
    BY DEF Meet, Rest, Facts, RowTrue, IInv, OwnRefs
  <2>3. CASE PostOf[n] = p
    <3>1. n \in ms
      BY <2>2, <2>3 DEF ms
    <3> QED
      BY <1>4, <1>5, <3>1 DEF Listed
  <2>4. CASE PostOf[n] # p
    <3>1. hooks'[PostOf[n]] = hooks[PostOf[n]]
      BY <1>1, <1>2, <2>2, <2>4
    <3> QED
      BY <1>7, <2>1, <3>1
  <2> QED
    BY <2>3, <2>4
<1> QED
  BY <1>2, <1>3, <1>7, <1>8, RowsSame

LEMMA SaveFailsRest == ASSUME Meet, NEW m \in Messages, SaveSentFails(m) PROVE Rest'
<1>1. UNCHANGED <<wa, events, handler, row, marked, post, hooks, work>> /\ Counts("failures")
  BY DEF SaveSentFails
<1>2. "failures" \in DOMAIN Bounds
  BY DEF Bounds
<1>3. count' \in [DOMAIN Bounds -> Nat] /\ ~Undisturbed'
  BY <1>1, <1>2, Counted DEF Meet, Rest
<1>4. \A n \in Messages : Dropping(n) => Dropping(n)'
  BY <1>1 DEF Dropping
<1> QED
  BY <1>1, <1>3, <1>4, RowsSame

(* The API reacts or deletes: no event tells of it.                        *)
LEMMA ApiRest ==
  ASSUME Meet, NEW m \in Messages,
         (\E e \in Emojis : ApiReacts(m, e)) \/ (\E forMe \in BOOLEAN : ApiDeletes(m, forMe))
  PROVE  Rest'
<1>1. wa \in [Messages -> Wa] /\ wa[m] \in Wa
  BY DEF Meet, IInv, Types
<1>2. UNCHANGED <<events, handler, row, post, hooks, work>> /\ Counts("api") /\ wa[m].sent
  BY DEF ApiReacts, ApiDeletes
<1>3. "api" \in DOMAIN Bounds
  BY DEF Bounds
<1>4. count' \in [DOMAIN Bounds -> Nat] /\ ~Undisturbed'
  BY <1>2, <1>3, Counted DEF Meet, Rest
<1>5. \A n \in Messages : wa'[n].sent = wa[n].sent /\ (n # m => wa'[n] = wa[n])
  <2>1. ASSUME NEW e \in Emojis, ApiReacts(m, e)
        PROVE \A n \in Messages : wa'[n].sent = wa[n].sent /\ (n # m => wa'[n] = wa[n])
    <3>1. wa' = [wa EXCEPT ![m].reactions[Me] = e]
      BY <2>1 DEF ApiReacts
    <3> QED
      BY <1>1, <3>1 DEF Wa
  <2>2. ASSUME NEW forMe \in BOOLEAN, ApiDeletes(m, forMe)
        PROVE \A n \in Messages : wa'[n].sent = wa[n].sent /\ (n # m => wa'[n] = wa[n])
    <3>1. wa' = wa \/ wa' = [wa EXCEPT ![m].revoked = @ \/ (forMe /\ m \in Album)]
      BY <2>2 DEF ApiDeletes
    <3> QED
      BY <1>1, <3>1 DEF Wa
  <2> QED
    BY <2>1, <2>2
<1>6. \A n \in Messages : Unsent(n) /\ RowTrue(n)
  BY DEF Meet, Rest, Facts
<1>7. \A n \in Messages : Unsent(n)' /\ RowTrue(n)'
  BY <1>2, <1>5, <1>6 DEF Unsent, RowTrue, There
<1>8. Facts'
  BY <1>2, <1>4, <1>5, <1>7, SameEvents, FactsKept DEF Meet, Rest
<1> QED
  BY <1>4, <1>8, Disturbed

(* The row of a sent message is saved: nothing has happened to the message *)
(* yet, or it counts as late.                                              *)
LEMMA SaveRest == ASSUME Meet, NEW m \in Messages, SaveSent(m) PROVE Rest'
<1> DEFINE r == IF There(m) THEN [row[m] EXCEPT !.ref = PostOf[m]]
                            ELSE Inserted("event", PostOf[m], {})
<1>1. row \in [Messages -> Row] /\ row[m] \in Row /\ PostOf[m] \in Posts
  BY DEF Meet, IInv, Types
<1>2. /\ row' = [row EXCEPT ![m] = r]
      /\ UNCHANGED <<wa, events, handler, marked, post, hooks, work>>
      /\ IF Late(m) THEN Counts("failures") ELSE UNCHANGED count
  BY <1>1 DEF SaveSent
<1>3. /\ r.ref = PostOf[m] /\ r.at = "there"
      /\ There(m) => r.from = row[m].from /\ r.reactions = row[m].reactions
      /\ ~There(m) => r.reactions = {}
  BY <1>1 DEF Row, Inserted, There
<1>4. "failures" \in DOMAIN Bounds
  BY DEF Bounds
<1>5. /\ count' \in [DOMAIN Bounds -> Nat] /\ (Undisturbed' => Undisturbed)
      /\ Undisturbed' => ~Late(m)
  BY <1>2, <1>4, Counted, Uncounted DEF Meet, Rest
<1> HIDE DEF r
<1>6. \A n \in Messages : row'[n] = IF n = m THEN r ELSE row[n]
  BY <1>1, <1>2
<1>7. \A n \in Messages : Unsent(n) /\ RowTrue(n)
  BY DEF Meet, Rest, Facts
<1>8. \A n \in Messages : Unsent(n)' /\ RowTrue(n)'
  <2> SUFFICES ASSUME NEW n \in Messages PROVE Unsent(n)' /\ RowTrue(n)'
    OBVIOUS
  <2>1. Unsent(n)'
    BY <1>2, <1>7 DEF Unsent
  <2>2. RowTrue(n)'
    BY <1>3, <1>6, <1>7 DEF RowTrue, There
  <2> QED
    BY <2>1, <2>2
<1>9. Facts'
  BY <1>2, <1>5, <1>8, SameEvents, FactsKept DEF Meet, Rest
<1>10. ReactionsTrue'
  <2> SUFFICES ASSUME Undisturbed' PROVE ReactionsTrue'
    BY DEF ReactionsTrue
  <2>1. \A a \in Actors : wa[m].reactions[a] = Nothing
    BY <1>5 DEF Late
  <2>2. \A n \in Messages : FromEvent(n)' =>
          \/ FromEvent(n) /\ row'[n].reactions = row[n].reactions
          \/ row'[n].reactions = {} /\ n = m
    BY <1>3, <1>6 DEF FromEvent, There
  <2> QED
    BY <1>2, <1>5, <2>1, <2>2, SameEvents, ReactionsKept DEF Meet, Rest
<1>11. DeletionsTrue'
  <2> SUFFICES ASSUME Undisturbed' PROVE \A n \in Messages : PostTrue(n)' /\ RevokeTrue(n)'
    BY DEF DeletionsTrue
  <2>1. ~wa[m].revoked /\ post[PostOf[m]] # "deleted"
    BY <1>5 DEF Late
  <2>2. \A n \in Messages : (Listed(n)' <=> Listed(n)) /\ (Dropping(n)' <=> Dropping(n))
    BY <1>2 DEF Listed, Dropping
  <2>3. \A n \in Messages : PostTrue(n)'
    BY <1>2, <1>5, <1>6, <2>1, <2>2, PostsKept DEF Meet, Rest
  <2>4. \A n \in Messages : n # m =>
          (FromEvent(n)' => FromEvent(n)) /\ row'[n].ref = row[n].ref
    BY <1>6 DEF FromEvent, There
  <2>5. \A n \in Messages : RevokeTrue(n)'
    BY <1>2, <1>5, <2>1, <2>2, <2>4, SameEvents, RevokesKept DEF Meet, Rest
  <2> QED
    BY <2>3, <2>5
<1> QED
  BY <1>9, <1>10, <1>11 DEF Rest

LEMMA BridgeRest == ASSUME Meet, NEW m \in Messages, Bridge(m) PROVE Rest'
<1>1. /\ row \in [Messages -> Row] /\ row[m] \in Row /\ PostOf[m] \in Posts
      /\ post \in [Posts -> {"none", "there", "deleted", "gone"}]
  BY DEF Meet, IInv, Types
<1>2. /\ row' = [row EXCEPT ![m].ref = PostOf[m]] /\ There(m)
      /\ post' = [post EXCEPT ![PostOf[m]] = "there"]
      /\ UNCHANGED <<wa, events, handler, marked, hooks, work>>
      /\ IF wa[m].revoked THEN Counts("failures") ELSE UNCHANGED count
  BY DEF Bridge
<1>3. "failures" \in DOMAIN Bounds
  BY DEF Bounds
<1>4. /\ count' \in [DOMAIN Bounds -> Nat] /\ (Undisturbed' => Undisturbed)
      /\ Undisturbed' => ~wa[m].revoked
  BY <1>2, <1>3, Counted, Uncounted DEF Meet, Rest
<1>5. \A n \in Messages :
        /\ row'[n].at = row[n].at /\ row'[n].from = row[n].from
        /\ row'[n].reactions = row[n].reactions
        /\ n # m => row'[n].ref = row[n].ref
  BY <1>1, <1>2 DEF Row
<1>6. \A n \in Messages : Unsent(n) /\ RowTrue(n)
  BY DEF Meet, Rest, Facts
<1>7. \A n \in Messages : Unsent(n)' /\ RowTrue(n)'
  <2> SUFFICES ASSUME NEW n \in Messages PROVE Unsent(n)' /\ RowTrue(n)'
    OBVIOUS
  <2>1. Unsent(n)'
    BY <1>2, <1>6 DEF Unsent
  <2>2. RowTrue(n)'
    BY <1>2, <1>5, <1>6 DEF RowTrue, There
  <2> QED
    BY <2>1, <2>2
<1>8. Facts'
  BY <1>2, <1>4, <1>7, SameEvents, FactsKept DEF Meet, Rest
<1>9. \A n \in Messages : FromEvent(n)' <=> FromEvent(n)
  BY <1>5 DEF FromEvent, There
<1>10. ReactionsTrue'
  BY <1>2, <1>4, <1>5, <1>9, SameEvents, ReactionsKept DEF Meet, Rest
<1>11. DeletionsTrue'
  <2> SUFFICES ASSUME Undisturbed' PROVE \A n \in Messages : PostTrue(n)' /\ RevokeTrue(n)'
    BY DEF DeletionsTrue
  <2>1. \A n \in Messages : (Listed(n)' <=> Listed(n)) /\ (Dropping(n)' <=> Dropping(n))
    BY <1>2 DEF Listed, Dropping
  <2>2. /\ post'[PostOf[m]] = "there"
        /\ \A n \in Messages : PostOf[n] # PostOf[m] => post'[PostOf[n]] = post[PostOf[n]] /\ n # m
    BY <1>1, <1>2
  <2>3. \A n \in Messages : PostTrue(n)'
    BY <1>2, <1>4, <1>5, <2>1, <2>2, PostsKept DEF Meet, Rest
  <2>4. \A n \in Messages : RevokeTrue(n)'
    BY <1>2, <1>4, <1>5, <1>9, <2>1, SameEvents, RevokesKept DEF Meet, Rest
  <2> QED
    BY <2>3, <2>4
<1> QED
  BY <1>8, <1>10, <1>11 DEF Rest

LEMMA BatchRest == ASSUME Meet, NEW ms \in SUBSET Messages, SaveBatch(ms) PROVE Rest'
<1>1. \A m \in Messages :
        \/ row'[m] = row[m]
        \/ /\ ~There(m)
           /\ row'[m] = Inserted("history", Nothing, IF wa[m].revoked THEN {} ELSE BuildReactions(m))
  BY DEF SaveBatch
<1>2. UNCHANGED <<wa, events, handler, marked, post, hooks, work>> /\ Counts("syncs")
  BY DEF SaveBatch
<1>3. "syncs" \in DOMAIN Bounds
  BY DEF Bounds
<1>4. count' \in [DOMAIN Bounds -> Nat] /\ (Undisturbed' => Undisturbed)
  BY <1>2, <1>3, Counted DEF Meet, Rest
<1>5. \A m \in Messages : BuildReactions(m) \subseteq Actors \X Emojis
  BY DEF Meet, IInv, Types, Wa, BuildReactions, Actors
<1>6. ASSUME NEW m \in Messages
      PROVE  \/ row'[m] = row[m]
             \/ /\ ~There(m) /\ row'[m].at = "there" /\ row'[m].from = "history"
                /\ row'[m].ref = Nothing /\ row'[m].reactions \subseteq Actors \X Emojis
  <2> DEFINE rs == IF wa[m].revoked THEN {} ELSE BuildReactions(m)
  <2>1. rs \subseteq Actors \X Emojis
    BY <1>5
  <2>2. row'[m] = row[m] \/ (~There(m) /\ row'[m] = Inserted("history", Nothing, rs))
    BY <1>1
  <2> HIDE DEF rs
  <2> QED
    BY <2>1, <2>2 DEF Inserted
<1>7. \A m \in Messages : Unsent(m) /\ RowTrue(m)
  BY DEF Meet, Rest, Facts
<1>8. \A m \in Messages : Unsent(m)' /\ RowTrue(m)'
  <2> SUFFICES ASSUME NEW m \in Messages PROVE Unsent(m)' /\ RowTrue(m)'
    OBVIOUS
  <2>1. Unsent(m)'
    BY <1>2, <1>7 DEF Unsent
  <2>2. RowTrue(m)'
    BY <1>6, <1>7 DEF RowTrue, There
  <2> QED
    BY <2>1, <2>2
<1>9. Facts'
  BY <1>2, <1>4, <1>8, SameEvents, FactsKept DEF Meet, Rest
<1>10. \A m \in Messages :
         /\ FromEvent(m)' => FromEvent(m) /\ row'[m] = row[m]
         /\ row'[m].ref # Nothing => row'[m] = row[m]
  BY <1>6 DEF FromEvent, There
<1>11. ReactionsTrue'
  BY <1>2, <1>4, <1>10, SameEvents, ReactionsKept DEF Meet, Rest
<1>12. DeletionsTrue'
  <2> SUFFICES ASSUME Undisturbed' PROVE \A m \in Messages : PostTrue(m)' /\ RevokeTrue(m)'
    BY DEF DeletionsTrue
  <2>1. \A m \in Messages : (Listed(m)' <=> Listed(m)) /\ (Dropping(m)' <=> Dropping(m))
    BY <1>2 DEF Listed, Dropping
  <2>2. \A m \in Messages : PostTrue(m)'
    BY <1>2, <1>4, <1>10, <2>1, PostsKept DEF Meet, Rest
  <2>3. \A m \in Messages : RevokeTrue(m)'
    BY <1>2, <1>4, <1>10, <2>1, SameEvents, RevokesKept DEF Meet, Rest
  <2> QED
    BY <2>2, <2>3
<1> QED
  BY <1>9, <1>11, <1>12 DEF Rest

LEMMA RevokeNextRest ==
  ASSUME Meet, NEW g \in Goroutines, NEW m \in Messages, RevokeNext(g, m) PROVE Rest'
<1> DEFINE w == [at |-> "drop", of |-> m, left |-> work[g].left \ {m}]
<1>1. /\ wa \in [Messages -> Wa] /\ wa[m] \in Wa /\ work \in [Goroutines -> Work]
  BY DEF Meet, IInv, Types
<1>2. /\ UNCHANGED <<events, handler, row, marked, post, hooks>>
      /\ work[g].at = "revoke" /\ m \in work[g].left
  BY DEF RevokeNext
<1>3. \A n \in Messages : Unsent(n) /\ RowTrue(n)
  BY DEF Meet, Rest, Facts
<1>4. CASE UNCHANGED wa /\ Counts("failures")
  <2>1. "failures" \in DOMAIN Bounds
    BY DEF Bounds
  <2>2. count' \in [DOMAIN Bounds -> Nat] /\ ~Undisturbed'
    BY <1>4, <2>1, Counted DEF Meet, Rest
  <2>3. \A n \in Messages : Unsent(n)' /\ RowTrue(n)'
    BY <1>2, <1>3, <1>4 DEF Unsent, RowTrue, There
  <2>4. Facts'
    BY <1>2, <1>4, <2>2, <2>3, SameEvents, FactsKept DEF Meet, Rest
  <2> QED
    BY <2>2, <2>4, Disturbed
<1>5. CASE /\ wa' = [wa EXCEPT ![m].revoked = @ \/ m \in Album]
           /\ work' = [work EXCEPT ![g] = w] /\ UNCHANGED count
  <2>1. \A n \in Messages :
          /\ wa'[n].sent = wa[n].sent /\ wa'[n].reactions = wa[n].reactions
          /\ n # m => wa'[n].revoked = wa[n].revoked
          /\ wa'[n].revoked /\ ~wa[n].revoked => n = m /\ n \in Album
    BY <1>1, <1>5 DEF Wa
  <2>2. count' \in [DOMAIN Bounds -> Nat] /\ (Undisturbed' => Undisturbed)
    BY <1>5, Uncounted DEF Meet, Rest
  <2>3. \A n \in Messages : Unsent(n)' /\ RowTrue(n)'
    <3> SUFFICES ASSUME NEW n \in Messages PROVE Unsent(n)' /\ RowTrue(n)'
      OBVIOUS
    <3>1. Unsent(n)'
      BY <1>3, <2>1 DEF Unsent
    <3>2. RowTrue(n)'
      BY <1>2, <1>3 DEF RowTrue, There
    <3> QED
      BY <3>1, <3>2
  <2>4. Facts'
    BY <1>2, <2>1, <2>2, <2>3, SameEvents, FactsKept DEF Meet, Rest
  <2>5. \A n \in Messages : FromEvent(n)' <=> FromEvent(n)
    BY <1>2 DEF FromEvent, There
  <2>6. ReactionsTrue'
    BY <1>2, <2>1, <2>2, <2>5, SameEvents, ReactionsKept DEF Meet, Rest
  <2>7. w.at = "drop" /\ w.of = m /\ w.left = work[g].left \ {m}
    OBVIOUS
  <2>8. \A h \in Goroutines : work'[h] = IF h = g THEN w ELSE work[h]
    BY <1>1, <1>5
  <2> HIDE DEF w
  <2>9. Dropping(m)'
    BY <2>7, <2>8 DEF Dropping
  <2>10. ASSUME NEW n \in Messages
         PROVE  (Listed(n) => Listed(n)' \/ Dropping(n)') /\ (Dropping(n) => Dropping(n)')
    <3>1. Dropping(n) => Dropping(n)'
      BY <1>2, <2>7, <2>8 DEF Dropping
    <3>2. n # m => (Listed(n) => Listed(n)')
      BY <2>7, <2>8 DEF Listed
    <3> QED
      BY <2>9, <3>1, <3>2
  <2>11. DeletionsTrue'
    <3> SUFFICES ASSUME Undisturbed' PROVE \A n \in Messages : PostTrue(n)' /\ RevokeTrue(n)'
      BY DEF DeletionsTrue
    <3>1. \A n \in Messages : PostTrue(n)'
      BY <1>2, <2>2, <2>10, PostsKept DEF Meet, Rest
    <3>2. \A n \in Messages : RevokeTrue(n)'
      BY <1>2, <2>1, <2>2, <2>5, <2>9, <2>10, SameEvents, RevokesKept DEF Meet, Rest
    <3> QED
      BY <3>1, <3>2
  <2> QED
    BY <2>4, <2>6, <2>11 DEF Rest
<1> QED
  BY <1>4, <1>5 DEF RevokeNext

(* A row is dropped: of what is recorded about a message, only that.       *)
LEMMA DroppedRow ==
  ASSUME Meet, NEW m \in Messages
  PROVE  /\ Dropped(m)[m].at # "there" /\ Dropped(m)[m].ref = Nothing
         /\ Dropped(m)[m].reactions \subseteq Actors \X Emojis
         /\ \A n \in Messages : n # m => Dropped(m)[n] = row[n]
<1>1. row \in [Messages -> Row] /\ RowTrue(m)
  BY DEF Meet, IInv, Types, Rest, Facts
<1>2. /\ [NoRow EXCEPT !.at = "dropped"].at = "dropped"
      /\ [NoRow EXCEPT !.at = "dropped"].ref = Nothing
      /\ [NoRow EXCEPT !.at = "dropped"].reactions = {}
  BY DEF NoRow
<1> QED
  BY <1>1, <1>2 DEF Dropped, There, RowTrue

LEMMA DropNextRest == ASSUME Meet, NEW g \in Goroutines, DropNext(g) PROVE Rest'
<1> DEFINE m == work[g].of
           w == After(g, work[g].left)
<1>1. work \in [Goroutines -> Work]
  BY DEF Meet, IInv, Types
<1>2. m \in Messages
  BY DEF Meet, IInv, WorkTrue, DropNext
<1>3. /\ \/ row' = Dropped(m) /\ UNCHANGED count
         \/ row' = row /\ Counts("failures")
      /\ work' = [work EXCEPT ![g] = w] /\ work[g].at = "drop"
      /\ UNCHANGED <<wa, events, handler, marked, post, hooks>>
  BY DEF DropNext, Tries
<1>4. w.left = work[g].left
  BY DEF After, NoWork
<1>5. "failures" \in DOMAIN Bounds
  BY DEF Bounds
<1>6. /\ count' \in [DOMAIN Bounds -> Nat] /\ (Undisturbed' => Undisturbed)
      /\ Undisturbed' => row' = Dropped(m)
  BY <1>3, <1>5, Counted, Uncounted DEF Meet, Rest
<1>7. \A h \in Goroutines : work'[h] = IF h = g THEN w ELSE work[h]
  BY <1>1, <1>3
<1>8. \A n \in Messages : Listed(n) => Listed(n)'
  BY <1>4, <1>7 DEF Listed
<1>9. \A n \in Messages : n # m => (Dropping(n) => Dropping(n)')
  BY <1>7 DEF Dropping
<1> HIDE DEF m, w
<1>10. \A n \in Messages : Unsent(n) /\ RowTrue(n)
  BY DEF Meet, Rest, Facts
<1>11. \A n \in Messages : Unsent(n)' /\ RowTrue(n)'
  <2> SUFFICES ASSUME NEW n \in Messages PROVE Unsent(n)' /\ RowTrue(n)'
    OBVIOUS
  <2>1. Unsent(n)'
    BY <1>3, <1>10 DEF Unsent
  <2>2. RowTrue(n)'
    BY <1>2, <1>3, <1>10, DroppedRow DEF RowTrue, There
  <2> QED
    BY <2>1, <2>2
<1>12. Facts'
  BY <1>3, <1>6, <1>11, SameEvents, FactsKept DEF Meet, Rest
<1>13. ASSUME Undisturbed', NEW n \in Messages
       PROVE  /\ FromEvent(n)' => FromEvent(n) /\ row'[n] = row[n]
              /\ row'[n].ref # Nothing => row'[n] = row[n]
              /\ n = m => ~There(n)' /\ row'[n].ref = Nothing
  BY <1>2, <1>6, <1>13, DroppedRow DEF FromEvent, There
<1>14. ReactionsTrue'
  <2> SUFFICES ASSUME Undisturbed' PROVE ReactionsTrue'
    BY DEF ReactionsTrue
  <2> QED
    BY <1>3, <1>6, <1>13, SameEvents, ReactionsKept DEF Meet, Rest
<1>15. DeletionsTrue'
  <2> SUFFICES ASSUME Undisturbed' PROVE \A n \in Messages : PostTrue(n)' /\ RevokeTrue(n)'
    BY DEF DeletionsTrue
  <2>1. \A n \in Messages : PostTrue(n)'
    BY <1>3, <1>6, <1>8, <1>9, <1>13, PostsKept DEF Meet, Rest
  <2>2. \A n \in Messages : RevokeTrue(n)'
    BY <1>3, <1>6, <1>9, <1>13, SameEvents, RevokesKept DEF Meet, Rest
  <2> QED
    BY <2>1, <2>2
<1> QED
  BY <1>12, <1>14, <1>15 DEF Rest

------------------------------------------------------------------------------
(* The handler goes on with an event that is no message and no reaction.   *)
LEMMA HandlerRest ==
  ASSUME Meet, UNCHANGED <<wa, events, work>>, marked \subseteq marked',
         handler.at \notin {"idle", "save", "react"},
         \/ handler' = Free
         \/ handler'.ev = handler.ev /\ handler'.at \notin {"save", "react"},
         count' \in [DOMAIN Bounds -> Nat], Undisturbed' => Undisturbed,
         \A m \in Messages : RowTrue(m)',
         Undisturbed' => \A m \in Messages :
           /\ FromEvent(m)' => FromEvent(m) /\ row'[m].reactions = row[m].reactions
           /\ row'[m].ref # Nothing => row'[m].ref = row[m].ref
           /\ hooks[PostOf[m]] > 0 => hooks'[PostOf[m]] > 0
           /\ post'[PostOf[m]] = "deleted" =>
                post[PostOf[m]] = "deleted" \/ hooks'[PostOf[m]] > 0
           /\ Marking(m) => Marking(m)' \/ m \in marked'
           /\ Undoing(m) => Undoing(m)' \/ row'[m].ref = Nothing
  PROVE  Rest'
<1>1. Onward
  BY DEF Onward
<1>2. \A m \in Messages : Unsent(m)'
  BY DEF Meet, Rest, Facts, Unsent
<1>3. Facts'
  BY <1>1, <1>2, FactsKept DEF Meet, Rest
<1>4. /\ \A m \in Messages : Unsaved(m)' => Unsaved(m)
      /\ \A m \in Messages, a \in Actors : ~Reacting(m, a) /\ ~Reacting(m, a)'
  BY DEF Unsaved, Reacting, Free
<1>5. ReactionsTrue'
  <2> SUFFICES ASSUME Undisturbed' PROVE ReactionsTrue'
    BY DEF ReactionsTrue
  <2> QED
    BY <1>4, ReactionsKept DEF Meet, Rest
<1>6. DeletionsTrue'
  <2> SUFFICES ASSUME Undisturbed' PROVE \A m \in Messages : PostTrue(m)' /\ RevokeTrue(m)'
    BY DEF DeletionsTrue
  <2>1. \A m \in Messages : (Listed(m)' <=> Listed(m)) /\ (Dropping(m)' <=> Dropping(m))
    BY DEF Listed, Dropping
  <2>2. \A m \in Messages : PostTrue(m)'
    BY <2>1, PostsKept DEF Meet, Rest
  <2>3. \A m \in Messages : RevokeTrue(m)'
    BY <1>4, <2>1, RevokesKept DEF Meet, Rest
  <2> QED
    BY <2>2, <2>3
<1> QED
  BY <1>3, <1>5, <1>6 DEF Rest

(* The references of a conversation that is gone are cleared.              *)
LEMMA ClearedRows ==
  ASSUME Meet, row' \in {row, Cleared}
  PROVE  \A m \in Messages :
           /\ RowTrue(m)' /\ (FromEvent(m)' => FromEvent(m))
           /\ row'[m].reactions = row[m].reactions
           /\ row'[m].ref # Nothing => row'[m].ref = row[m].ref
<1>1. \A m \in Messages : row[m] \in Row /\ RowTrue(m)
  BY DEF Meet, IInv, Types, Rest, Facts
<1>2. \A m \in Messages :
        /\ row'[m].at = row[m].at /\ row'[m].from = row[m].from
        /\ row'[m].reactions = row[m].reactions /\ row'[m].ref \in {row[m].ref, Nothing}
  BY <1>1 DEF Cleared, Row
<1> QED
  BY <1>1, <1>2 DEF RowTrue, FromEvent, There

LEMMA TellRest == ASSUME Meet, TellReaction PROVE Rest'
<1>1. /\ row' \in {row, Cleared} /\ handler' = Free /\ handler.at = "tell"
      /\ UNCHANGED <<wa, events, marked, post, hooks, work, count>>
  BY DEF TellReaction, Goes
<1>2. count' \in [DOMAIN Bounds -> Nat] /\ (Undisturbed' => Undisturbed)
  BY <1>1, Uncounted DEF Meet, Rest
<1>3. \A m \in Messages : ~Marking(m) /\ ~Undoing(m)
  BY <1>1 DEF Marking, Undoing
<1> QED
  BY <1>1, <1>2, <1>3, ClearedRows, HandlerRest

LEMMA MarkRest == ASSUME Meet, MarkDeleted PROVE Rest'
<1>1. /\ \/ marked' = marked \cup {handler.ev.of} /\ UNCHANGED count
         \/ marked' = marked /\ Counts("failures")
      /\ handler.at = "mark" /\ handler' = [handler EXCEPT !.at = "find"]
      /\ UNCHANGED <<wa, events, row, post, hooks, work>>
  BY DEF MarkDeleted, Goes, Tries
<1>2. handler'.ev = handler.ev /\ handler'.at = "find"
  BY <1>1 DEF Meet, IInv, Types, Handler
<1>3. "failures" \in DOMAIN Bounds
  BY DEF Bounds
<1>4. /\ count' \in [DOMAIN Bounds -> Nat] /\ (Undisturbed' => Undisturbed)
      /\ Undisturbed' => marked' = marked \cup {handler.ev.of}
  BY <1>1, <1>3, Counted, Uncounted DEF Meet, Rest
<1>5. \A m \in Messages : Undoing(m) => Undoing(m)'
  BY <1>2 DEF Undoing
<1>6. Undisturbed' => \A m \in Messages : Marking(m) => m \in marked'
  BY <1>4 DEF Marking
<1>7. \A m \in Messages : RowTrue(m)' /\ (FromEvent(m)' <=> FromEvent(m))
  BY <1>1 DEF Meet, Rest, Facts, RowTrue, FromEvent, There
<1> QED
  BY <1>1, <1>2, <1>4, <1>5, <1>6, <1>7, HandlerRest

LEMMA FindRest == ASSUME Meet, FindRow PROVE Rest'
<1> DEFINE m == handler.ev.of
           found == row[m].at = "there" /\ row[m].ref # Nothing
<1>1. /\ handler.at = "find"
      /\ handler' = IF found THEN [handler EXCEPT !.at = "remove"] ELSE Free
      /\ UNCHANGED <<wa, events, row, marked, post, hooks, work, count>>
  BY DEF FindRow
<1>2. /\ found => handler'.ev = handler.ev /\ handler'.at = "remove"
      /\ ~found => handler' = Free
  BY <1>1 DEF Meet, IInv, Types, Handler
<1>3. count' \in [DOMAIN Bounds -> Nat] /\ (Undisturbed' => Undisturbed)
  BY <1>1, Uncounted DEF Meet, Rest
<1>4. \A n \in Messages : RowTrue(n) /\ RowTrue(n)' /\ (FromEvent(n)' <=> FromEvent(n))
  BY <1>1 DEF Meet, Rest, Facts, RowTrue, FromEvent, There
<1>5. m \in Messages
  BY <1>1 DEF Meet, IInv, HandlerTrue, Event
<1>6. ~found => row'[m].ref = Nothing
  BY <1>1, <1>4, <1>5 DEF RowTrue, There
<1>7. \A n \in Messages : ~Marking(n) /\ (Undoing(n) => n = m)
  BY <1>1 DEF Marking, Undoing
<1>8. found => \A n \in Messages : Undoing(n) => Undoing(n)'
  BY <1>2 DEF Undoing
<1> HIDE DEF m, found
<1>9. \A n \in Messages : Undoing(n) => Undoing(n)' \/ row'[n].ref = Nothing
  BY <1>6, <1>7, <1>8
<1>10. \/ handler' = Free
       \/ handler'.ev = handler.ev /\ handler'.at \notin {"save", "react"}
  BY <1>2
<1> QED
  BY <1>1, <1>3, <1>4, <1>7, <1>9, <1>10, HandlerRest

LEMMA RemoveRest == ASSUME Meet, RemovePost PROVE Rest'
<1> DEFINE p == PostOf[handler.ev.of]
           ahead == [handler EXCEPT !.at = "drop"]
<1>1. /\ hooks \in [Posts -> Nat] /\ post \in [Posts -> {"none", "there", "deleted", "gone"}]
      /\ handler \in Handler
  BY DEF Meet, IInv, Types
<1>2. handler.ev.of \in Messages /\ p \in Posts
  BY DEF Meet, IInv, HandlerTrue, RemovePost, Event
<1>3. /\ handler.at = "remove" /\ UNCHANGED <<wa, events, marked, work>>
      /\ \/ row' = Cleared /\ handler' = ahead /\ UNCHANGED <<post, hooks, count>>
         \/ /\ handler' = ahead /\ UNCHANGED <<row, count>>
            /\ post' = [post EXCEPT ![p] = "deleted"] /\ hooks' = [hooks EXCEPT ![p] = @ + 1]
         \/ Counts("failures") /\ handler' = Free /\ UNCHANGED <<row, post, hooks>>
  BY DEF RemovePost, Goes
<1>4. ahead.ev = handler.ev /\ ahead.at = "drop"
  BY <1>1 DEF Handler
<1> HIDE DEF p, ahead
<1>5. "failures" \in DOMAIN Bounds
  BY DEF Bounds
<1>6. /\ count' \in [DOMAIN Bounds -> Nat] /\ (Undisturbed' => Undisturbed)
      /\ Undisturbed' => handler' = ahead
  BY <1>3, <1>5, Counted, Uncounted DEF Meet, Rest
<1>7. \A m \in Messages : ~Marking(m)
  BY <1>3 DEF Marking
<1>8. Undisturbed' => \A m \in Messages : Undoing(m) => Undoing(m)'
  BY <1>3, <1>4, <1>6 DEF Undoing
<1>9. \A q \in Posts :
        /\ hooks[q] > 0 => hooks'[q] > 0
        /\ post'[q] = "deleted" => post[q] = "deleted" \/ hooks'[q] > 0
  BY <1>1, <1>2, <1>3
<1>10. \/ handler' = Free
       \/ handler'.ev = handler.ev /\ handler'.at \notin {"save", "react"}
  BY <1>3, <1>4
<1>11. row' \in {row, Cleared} /\ \A m \in Messages : PostOf[m] \in Posts
  BY <1>3
<1> QED
  BY <1>3, <1>6, <1>7, <1>8, <1>9, <1>10, <1>11, ClearedRows, HandlerRest

LEMMA DropRest == ASSUME Meet, DropRow PROVE Rest'
<1> DEFINE m == handler.ev.of
<1>1. /\ \/ row' = Dropped(m) /\ UNCHANGED count
         \/ row' = row /\ Counts("failures")
      /\ handler.at = "drop" /\ handler' = Free
      /\ UNCHANGED <<wa, events, marked, post, hooks, work>>
  BY DEF DropRow, Tries, Goes
<1>2. m \in Messages
  BY <1>1 DEF Meet, IInv, HandlerTrue, Event
<1>3. "failures" \in DOMAIN Bounds
  BY DEF Bounds
<1>4. /\ count' \in [DOMAIN Bounds -> Nat] /\ (Undisturbed' => Undisturbed)
      /\ Undisturbed' => row' = Dropped(m)
  BY <1>1, <1>3, Counted, Uncounted DEF Meet, Rest
<1>5. \A n \in Messages : ~Marking(n) /\ (Undoing(n) => n = m)
  BY <1>1 DEF Marking, Undoing
<1> HIDE DEF m
<1>6. \A n \in Messages : RowTrue(n)
  BY DEF Meet, Rest, Facts
<1>7. \A n \in Messages : RowTrue(n)'
  BY <1>1, <1>2, <1>6, DroppedRow DEF RowTrue, There
<1>8. ASSUME Undisturbed', NEW n \in Messages
      PROVE  /\ FromEvent(n)' => FromEvent(n) /\ row'[n] = row[n]
             /\ row'[n].ref # Nothing => row'[n] = row[n]
             /\ n = m => row'[n].ref = Nothing
  BY <1>2, <1>4, <1>8, DroppedRow DEF FromEvent, There
<1> QED
  BY <1>1, <1>4, <1>5, <1>7, <1>8, HandlerRest

(* The event of a message makes its row: what happened to the message      *)
(* since then waits behind it.                                             *)
LEMMA MessageRest == ASSUME Meet, SaveMessage PROVE Rest'
<1> DEFINE m == handler.ev.of
           r == IF There(m) THEN row[m] ELSE Inserted("event", Nothing, {})
<1>1. row \in [Messages -> Row]
  BY DEF Meet, IInv, Types
<1>2. m \in Messages /\ handler.at = "save"
  BY DEF Meet, IInv, HandlerTrue, SaveMessage, Event
<1>3. /\ \/ row' = [row EXCEPT ![m] = r] /\ UNCHANGED count
         \/ row' = row /\ Counts("failures")
      /\ handler' = Free /\ UNCHANGED <<wa, events, marked, post, hooks, work>>
  BY <1>1, <1>2 DEF SaveMessage, Goes, Tries
<1>4. /\ There(m) => r = row[m]
      /\ ~There(m) => r.at = "there" /\ r.ref = Nothing /\ r.reactions = {}
  BY DEF Inserted
<1>5. "failures" \in DOMAIN Bounds
  BY DEF Bounds
<1>6. count' \in [DOMAIN Bounds -> Nat] /\ (Undisturbed' => Undisturbed)
  BY <1>3, <1>5, Counted, Uncounted DEF Meet, Rest
<1>7. /\ \A n \in Messages : (Unsaved(n)' => Unsaved(n)) /\ ~Marking(n) /\ ~Undoing(n)
      /\ \A n \in Messages, a \in Actors : ~Reacting(n, a) /\ ~Reacting(n, a)'
      /\ Unsaved(m) /\ Onward
  BY <1>2, <1>3 DEF Unsaved, Marking, Undoing, Reacting, Free, Onward
<1> HIDE DEF m, r
<1>8. \A n \in Messages :
        row'[n] = row[n] \/ (n = m /\ ~There(m) /\ row'[m] = r)
  BY <1>1, <1>2, <1>3, <1>4
<1>9. \A n \in Messages : Unsent(n) /\ RowTrue(n)
  BY DEF Meet, Rest, Facts
<1>10. \A n \in Messages : Unsent(n)' /\ RowTrue(n)'
  <2> SUFFICES ASSUME NEW n \in Messages PROVE Unsent(n)' /\ RowTrue(n)'
    OBVIOUS
  <2>1. Unsent(n)'
    BY <1>3, <1>9 DEF Unsent
  <2>2. RowTrue(n)'
    BY <1>4, <1>8, <1>9 DEF RowTrue, There
  <2> QED
    BY <2>1, <2>2
<1>11. Facts'
  BY <1>3, <1>6, <1>7, <1>10, FactsKept DEF Meet, Rest
<1>12. \A n \in Messages :
         /\ FromEvent(n)' => (FromEvent(n) /\ row'[n] = row[n])
                             \/ (n = m /\ row'[n].reactions = {})
         /\ row'[n].ref # Nothing => row'[n] = row[n]
  BY <1>4, <1>8 DEF FromEvent, There
<1>13. ReactionsTrue'
  <2> SUFFICES ASSUME Undisturbed' PROVE ReactionsTrue'
    BY DEF ReactionsTrue
  <2>1. \A a \in Actors : wa[m].reactions[a] # Nothing => \E i \in DOMAIN events : ReactsAt(i, m, a)
    <3> SUFFICES ASSUME NEW a \in Actors, \A i \in DOMAIN events : ~ReactsAt(i, m, a)
                 PROVE  wa[m].reactions[a] = Nothing
      OBVIOUS
    <3>1. ReactionTrue(m, a)
      BY <1>2, <1>6 DEF Meet, Rest, ReactionsTrue
    <3> QED
      BY <1>7, <3>1 DEF ReactionTrue
  <2> QED
    BY <1>3, <1>6, <1>7, <1>12, <2>1, ReactionsKept DEF Meet, Rest
<1>14. DeletionsTrue'
  <2> SUFFICES ASSUME Undisturbed' PROVE \A n \in Messages : PostTrue(n)' /\ RevokeTrue(n)'
    BY DEF DeletionsTrue
  <2>1. \A n \in Messages : (Listed(n)' <=> Listed(n)) /\ (Dropping(n)' <=> Dropping(n))
    BY <1>3 DEF Listed, Dropping
  <2>2. \A n \in Messages : PostTrue(n)'
    BY <1>3, <1>6, <1>12, <2>1, PostsKept DEF Meet, Rest
  <2>3. \A n \in Messages : FromEvent(n)' => FromEvent(n) \/ Unsaved(n)
    BY <1>7, <1>12
  <2>4. \A n \in Messages : RevokeTrue(n)'
    BY <1>3, <1>6, <1>7, <1>12, <2>1, <2>3, RevokesKept DEF Meet, Rest
  <2> QED
    BY <2>2, <2>4
<1> QED
  BY <1>11, <1>13, <1>14 DEF Rest

(* A reaction changes what the row shows of its actor, and nothing else.   *)
LEMMA ReactRest == ASSUME Meet, UpdateReactions PROVE Rest'
<1> DEFINE m == handler.ev.of
           a == handler.ev.by
           e == handler.ev.emoji
           rs == IF ~There(m) THEN row[m].reactions
                 ELSE IF e = Nothing THEN RemoveReaction(row[m].reactions, a)
                                     ELSE AddReaction(row[m].reactions, a, e)
<1>1. /\ m \in Messages /\ e \in Emojis \cup {Nothing} /\ handler.at = "react"
      /\ handler \in Handler /\ handler.ev.kind = "reaction" /\ EventTrue(handler.ev)
  BY DEF Meet, IInv, Types, HandlerTrue, UpdateReactions, Event, Rest, Facts, InOrder
<1>2. a \in Actors
  BY <1>1 DEF EventTrue
<1>3. row \in [Messages -> Row] /\ row[m] \in Row /\ RowTrue(m)
  BY <1>1 DEF Meet, IInv, Types, Rest, Facts
<1>4. /\ \/ row' = [row EXCEPT ![m].reactions = rs] /\ UNCHANGED count
         \/ row' = row /\ Counts("failures")
      /\ handler' = Free \/ handler' = [handler EXCEPT !.at = "tell"]
      /\ UNCHANGED <<wa, events, marked, post, hooks, work>>
  BY <1>1, <1>3 DEF UpdateReactions, Tries, Goes
<1>5. rs \subseteq Actors \X Emojis
  BY <1>1, <1>2, <1>3 DEF RowTrue, RemoveReaction, AddReaction
<1>6. \A b \in Actors, f \in Emojis :
        /\ b # a => (<<b, f>> \in rs <=> <<b, f>> \in row[m].reactions)
        /\ There(m) => (<<a, f>> \in rs <=> f = e)
  BY <1>1, <1>2 DEF RemoveReaction, AddReaction
<1>7. \/ handler' = Free
      \/ handler'.ev = handler.ev /\ handler'.at = "tell"
  BY <1>1, <1>4 DEF Handler
<1>8. "failures" \in DOMAIN Bounds
  BY DEF Bounds
<1>9. /\ count' \in [DOMAIN Bounds -> Nat] /\ (Undisturbed' => Undisturbed)
      /\ Undisturbed' => row' = [row EXCEPT ![m].reactions = rs]
  BY <1>4, <1>8, Counted, Uncounted DEF Meet, Rest
<1>10. /\ \A n \in Messages : (Unsaved(n)' => Unsaved(n)) /\ ~Marking(n) /\ ~Undoing(n)
       /\ \A n \in Messages, b \in Actors :
            ~Reacting(n, b)' /\ (Reacting(n, b) <=> n = m /\ b = a)
       /\ Onward
  BY <1>1, <1>4, <1>7 DEF Unsaved, Marking, Undoing, Reacting, Free, Onward
<1>11. e = handler.ev.emoji
  OBVIOUS
<1> HIDE DEF m, a, e, rs
<1>12. \A n \in Messages :
         /\ row'[n].at = row[n].at /\ row'[n].from = row[n].from /\ row'[n].ref = row[n].ref
         /\ row'[n].reactions = row[n].reactions \/ (n = m /\ row'[n].reactions = rs)
  BY <1>1, <1>3, <1>4 DEF Row
<1>13. \A n \in Messages : Unsent(n) /\ RowTrue(n)
  BY DEF Meet, Rest, Facts
<1>14. \A n \in Messages : Unsent(n)' /\ RowTrue(n)'
  <2> SUFFICES ASSUME NEW n \in Messages PROVE Unsent(n)' /\ RowTrue(n)'
    OBVIOUS
  <2>1. Unsent(n)'
    BY <1>4, <1>13 DEF Unsent
  <2>2. RowTrue(n)'
    BY <1>5, <1>12, <1>13 DEF RowTrue, There
  <2> QED
    BY <2>1, <2>2
<1>15. Facts'
  BY <1>4, <1>9, <1>10, <1>14, FactsKept DEF Meet, Rest
<1>16. \A n \in Messages : FromEvent(n)' <=> FromEvent(n)
  BY <1>12 DEF FromEvent, There
<1>17. ASSUME Undisturbed', NEW n \in Messages, NEW b \in Actors PROVE ReactionTrue(n, b)'
  <2>1. ReactionTrue(n, b)
    BY <1>9, <1>17 DEF Meet, Rest, ReactionsTrue
  <2>2. \A i \in DOMAIN events : ReactsAt(i, n, b)' <=> ReactsAt(i, n, b)
    BY <1>4 DEF ReactsAt
  <2>3. ASSUME NEW i \in DOMAIN events', ReactsAt(i, n, b)',
               \A j \in DOMAIN events' : ReactsAt(j, n, b)' => j <= i
        PROVE  events'[i].emoji = wa'[n].reactions[b]
    BY <1>4, <2>1, <2>2, <2>3 DEF ReactionTrue
  <2>4. ASSUME \A i \in DOMAIN events : ~ReactsAt(i, n, b), FromEvent(n), NEW f \in Emojis
        PROVE  <<b, f>> \in row'[n].reactions <=> f = wa[n].reactions[b]
    <3>1. row' = [row EXCEPT ![m].reactions = rs]
      BY <1>9, <1>17
    <3>2. row'[n].reactions = IF n = m THEN rs ELSE row[n].reactions
      BY <1>1, <1>3, <3>1 DEF Row
    <3>3. CASE n = m /\ b = a
      <4>1. wa[n].reactions[b] = e
        BY <1>10, <1>11, <2>1, <2>4, <3>3 DEF ReactionTrue
      <4>2. There(m)
        BY <2>4, <3>3 DEF FromEvent
      <4> QED
        BY <1>6, <3>2, <3>3, <4>1, <4>2
    <3>4. CASE ~(n = m /\ b = a)
      <4>1. ~Reacting(n, b)
        BY <1>10, <3>4
      <4>2. <<b, f>> \in row[n].reactions <=> f = wa[n].reactions[b]
        BY <2>1, <2>4, <4>1 DEF ReactionTrue
      <4> QED
        BY <1>6, <3>2, <3>4, <4>2
    <3> QED
      BY <3>3, <3>4
  <2>5. ASSUME \A i \in DOMAIN events' : ~ReactsAt(i, n, b)'
        PROVE  /\ Reacting(n, b)' => handler'.ev.emoji = wa'[n].reactions[b]
               /\ ~Reacting(n, b)' /\ FromEvent(n)' =>
                    \A f \in Emojis : <<b, f>> \in row'[n].reactions <=> f = wa'[n].reactions[b]
               /\ Unsaved(n)' => wa'[n].reactions[b] = Nothing
    <3>1. \A i \in DOMAIN events : ~ReactsAt(i, n, b)
      BY <1>4, <2>2, <2>5
    <3>2. Unsaved(n) => wa[n].reactions[b] = Nothing
      BY <2>1, <3>1 DEF ReactionTrue
    <3> QED
      BY <1>4, <1>10, <1>16, <2>4, <3>1, <3>2
  <2> QED
    BY <2>3, <2>5 DEF ReactionTrue
<1>18. DeletionsTrue'
  <2> SUFFICES ASSUME Undisturbed' PROVE \A n \in Messages : PostTrue(n)' /\ RevokeTrue(n)'
    BY DEF DeletionsTrue
  <2>1. \A n \in Messages : (Listed(n)' <=> Listed(n)) /\ (Dropping(n)' <=> Dropping(n))
    BY <1>4 DEF Listed, Dropping
  <2>2. \A n \in Messages : PostTrue(n)'
    BY <1>4, <1>9, <1>12, <2>1, PostsKept DEF Meet, Rest
  <2>3. \A n \in Messages : RevokeTrue(n)'
    BY <1>4, <1>9, <1>10, <1>12, <1>16, <2>1, RevokesKept DEF Meet, Rest
  <2> QED
    BY <2>2, <2>3
<1> QED
  BY <1>15, <1>17, <1>18 DEF Rest, ReactionsTrue

(* The handler takes the first event.                                      *)
LEMMA BeginRest == ASSUME Meet, Begin PROVE Rest'
<1> DEFINE h == events[1]
<1>1. events \in Seq(Event) /\ events # <<>>
  BY DEF Meet, IInv, Types, Begin
<1>2. /\ Head(events) = h /\ h \in Event /\ 1 \in DOMAIN events
      /\ \A i \in DOMAIN events : i >= 1 /\ (i = 1 \/ i - 1 \in DOMAIN Tail(events))
      /\ \A i \in DOMAIN Tail(events) :
           i \in Nat /\ i + 1 \in DOMAIN events /\ Tail(events)[i] = events[i + 1]
  BY <1>1
<1>3. events' = Tail(events) /\ handler = Free
      /\ UNCHANGED <<wa, row, marked, sending, post, hooks, work, count>>
  BY DEF Begin
<1>4. /\ handler'.ev = h /\ handler'.at \in {"save", "react", "mark"}
      /\ handler'.at = "save" <=> h.kind = "message"
      /\ handler'.at = "react" <=> h.kind = "reaction"
      /\ handler'.at = "mark" <=> h.kind = "revoke"
  BY <1>2 DEF Begin, Event
<1>5. handler.at = "idle"
  BY <1>3 DEF Free
<1> HIDE DEF h
<1>6. DOMAIN events' = DOMAIN Tail(events)
      /\ \A i \in DOMAIN events' : i + 1 \in DOMAIN events /\ events'[i] = events[i + 1] /\ i \in Nat
  BY <1>2, <1>3
<1>7. /\ \A i \in DOMAIN events : EventTrue(events[i])
      /\ \A i, j \in DOMAIN events :
           i < j /\ events[i].of = events[j].of => events[j].kind # "message"
  BY DEF Meet, Rest, Facts, InOrder
<1>9. events[1] = h
  BY DEF h
<1>10. \A j \in DOMAIN events' : events'[j].of = h.of => events'[j].kind # "message"
  <2> SUFFICES ASSUME NEW j \in DOMAIN events', events'[j].of = h.of
               PROVE  events'[j].kind # "message"
    OBVIOUS
  <2>1. 1 \in DOMAIN events /\ j + 1 \in DOMAIN events /\ 1 < j + 1
    BY <1>2, <1>3, <1>6
  <2> QED
    BY <1>6, <1>7, <1>9, <2>1
<1>11. InOrder'
  <2>1. \A i \in DOMAIN events' : EventTrue(events[i])'
    BY <1>3, <1>6, <1>7 DEF EventTrue
  <2>2. EventTrue(handler.ev)'
    BY <1>2, <1>3, <1>4, <1>7, <1>9 DEF EventTrue
  <2>3. \A i, j \in DOMAIN events' :
          i < j /\ events'[i].of = events'[j].of => events'[j].kind # "message"
    <3> SUFFICES ASSUME NEW i \in DOMAIN events', NEW j \in DOMAIN events',
                        i < j, events'[i].of = events'[j].of
                 PROVE  events'[j].kind # "message"
      OBVIOUS
    <3>1. /\ i + 1 \in DOMAIN events /\ j + 1 \in DOMAIN events /\ i + 1 < j + 1
          /\ events'[i] = events[i + 1] /\ events'[j] = events[j + 1]
      BY <1>6
    <3> QED
      BY <1>7, <3>1
  <2> QED
    BY <1>4, <1>10, <2>1, <2>2, <2>3 DEF InOrder
<1>12. Facts'
  <2>1. \A m \in Messages : Unsent(m)' /\ RowTrue(m)'
    BY <1>3 DEF Meet, Rest, Facts, Unsent, RowTrue, There
  <2>2. count' \in [DOMAIN Bounds -> Nat]
    BY <1>3 DEF Meet, Rest, Facts
  <2> QED
    BY <1>11, <2>1, <2>2 DEF Facts
<1>13. ASSUME NEW m \in Messages
       PROVE  /\ Unsaved(m)' => Unsaved(m)
              /\ Unsaved(m)' => ~(h.of = m /\ h.kind # "message")
  <2>1. ASSUME NEW i \in DOMAIN events', events'[i].kind = "message", events'[i].of = m
        PROVE  Unsaved(m) /\ h.of # m
    BY <1>6, <1>10, <2>1 DEF Unsaved
  <2>2. handler'.at = "save" /\ handler'.ev.of = m => Unsaved(m) /\ h.kind = "message"
    BY <1>2, <1>4, <1>9 DEF Unsaved
  <2> QED
    BY <2>1, <2>2 DEF Unsaved
<1>14. ASSUME Undisturbed', NEW m \in Messages, NEW a \in Actors PROVE ReactionTrue(m, a)'
  <2>1. ReactionTrue(m, a)
    BY <1>3, <1>14 DEF Meet, Rest, ReactionsTrue, Undisturbed
  <2>2. \A i \in DOMAIN events' : ReactsAt(i, m, a)' <=> ReactsAt(i + 1, m, a)
    BY <1>6 DEF ReactsAt
  <2>3. /\ ReactsAt(1, m, a) <=> h.kind = "reaction" /\ h.of = m /\ h.by = a
        /\ Reacting(m, a)' <=> ReactsAt(1, m, a)
        /\ ~Reacting(m, a)
    BY <1>4, <1>5, <1>9 DEF ReactsAt, Reacting
  <2>4. ASSUME NEW i \in DOMAIN events', ReactsAt(i, m, a)',
               \A j \in DOMAIN events' : ReactsAt(j, m, a)' => j <= i
        PROVE  events'[i].emoji = wa'[m].reactions[a]
    <3>1. i + 1 \in DOMAIN events /\ ReactsAt(i + 1, m, a) /\ events'[i] = events[i + 1]
      BY <1>6, <2>2, <2>4
    <3>2. ASSUME NEW j \in DOMAIN events, ReactsAt(j, m, a) PROVE j <= i + 1
      <4>1. i \in Nat /\ DOMAIN events' = DOMAIN Tail(events)
        BY <1>6
      <4>2. CASE j = 1
        BY <4>1, <4>2
      <4>3. CASE j - 1 \in DOMAIN events'
        <5>1. j - 1 \in Nat
          BY <1>6, <4>3
        <5>2. j = (j - 1) + 1
          BY <1>1
        <5>3. ReactsAt(j - 1, m, a)'
          BY <2>2, <3>2, <4>3, <5>2
        <5>4. j - 1 <= i
          BY <2>4, <4>3, <5>3
        <5> QED
          BY <4>1, <5>1, <5>2, <5>4
      <4> QED
        BY <1>2, <4>1, <4>2, <4>3
    <3> QED
      BY <1>3, <2>1, <3>1, <3>2 DEF ReactionTrue
  <2>5. ASSUME \A i \in DOMAIN events' : ~ReactsAt(i, m, a)'
        PROVE  /\ Reacting(m, a)' => handler'.ev.emoji = wa'[m].reactions[a]
               /\ ~Reacting(m, a)' /\ FromEvent(m)' =>
                    \A f \in Emojis : <<a, f>> \in row'[m].reactions <=> f = wa'[m].reactions[a]
               /\ Unsaved(m)' => wa'[m].reactions[a] = Nothing
    <3>1. \A j \in DOMAIN events : ReactsAt(j, m, a) => j = 1
      <4> SUFFICES ASSUME NEW j \in DOMAIN events, ReactsAt(j, m, a), j # 1 PROVE FALSE
        OBVIOUS
      <4>1. j - 1 \in DOMAIN events' /\ j = (j - 1) + 1
        BY <1>1, <1>2, <1>6
      <4> QED
        BY <2>2, <2>5, <4>1
    <3>2. CASE ReactsAt(1, m, a)
      <4>1. h.emoji = wa[m].reactions[a]
        <5>1. \A j \in DOMAIN events : ReactsAt(j, m, a) => j <= 1
          BY <3>1
        <5> QED
          BY <1>2, <1>9, <2>1, <3>2, <5>1 DEF ReactionTrue
      <4>2. Reacting(m, a)' /\ ~Unsaved(m)'
        BY <1>13, <2>3, <3>2
      <4> QED
        BY <1>3, <1>4, <4>1, <4>2
    <3>3. CASE ~ReactsAt(1, m, a)
      <4>1. \A j \in DOMAIN events : ~ReactsAt(j, m, a)
        BY <3>1, <3>3
      <4>2. ~Reacting(m, a)'
        BY <2>3, <3>3
      <4>3. FromEvent(m)' <=> FromEvent(m)
        BY <1>3 DEF FromEvent, There
      <4>4. /\ FromEvent(m) => \A f \in Emojis : <<a, f>> \in row[m].reactions <=> f = wa[m].reactions[a]
            /\ Unsaved(m) => wa[m].reactions[a] = Nothing
        BY <2>1, <2>3, <4>1 DEF ReactionTrue
      <4> QED
        BY <1>3, <1>13, <4>2, <4>3, <4>4
    <3> QED
      BY <3>2, <3>3
  <2> QED
    BY <2>4, <2>5 DEF ReactionTrue
<1>15. ASSUME Undisturbed', NEW m \in Messages PROVE PostTrue(m)' /\ RevokeTrue(m)'
  <2>1. PostTrue(m) /\ RevokeTrue(m)
    BY <1>3, <1>15 DEF Meet, Rest, DeletionsTrue, Undisturbed
  <2>2. PostTrue(m)'
    BY <1>3, <2>1 DEF PostTrue, Listed, Dropping
  <2>3. /\ Dropping(m)' <=> Dropping(m)
        /\ FromEvent(m)' <=> FromEvent(m)
        /\ ~Marking(m) /\ ~Undoing(m)
    BY <1>3, <1>5 DEF Dropping, FromEvent, There, Marking, Undoing
  <2>4. Revoking(m) => Revoking(m)' \/ (h.kind = "revoke" /\ h.of = m)
    <3> SUFFICES ASSUME NEW i \in DOMAIN events, events[i].kind = "revoke", events[i].of = m, i # 1
                 PROVE  Revoking(m)'
      BY <1>9 DEF Revoking
    <3>1. i - 1 \in DOMAIN events' /\ i = (i - 1) + 1
      BY <1>1, <1>2, <1>6
    <3>2. events'[i - 1] = events[i]
      BY <1>6, <3>1
    <3> QED
      BY <3>1, <3>2 DEF Revoking
  <2>5. h.kind = "revoke" /\ h.of = m => Marking(m)' /\ Undoing(m)' /\ ~Unsaved(m)'
    BY <1>4, <1>13 DEF Marking, Undoing
  <2>6. RevokeTrue(m)'
    BY <1>3, <1>13, <2>1, <2>3, <2>4, <2>5 DEF RevokeTrue
  <2> QED
    BY <2>2, <2>6
<1> QED
  BY <1>12, <1>14, <1>15 DEF Rest, ReactionsTrue, DeletionsTrue

(* An event is told: it is the last that waits.                            *)
LEMMA Appended ==
  ASSUME Meet, NEW e, events' = Append(events, e)
  PROVE  /\ Len(events) + 1 \in DOMAIN events' /\ events'[Len(events) + 1] = e
         /\ \A i \in DOMAIN events :
              i \in DOMAIN events' /\ events'[i] = events[i] /\ i < Len(events) + 1
         /\ \A i \in DOMAIN events' : i \in DOMAIN events \/ i = Len(events) + 1
  BY DEF Meet, IInv, Types

LEMMA OrderTold ==
  ASSUME Meet, NEW e \in Event, events' = Append(events, e), handler' = handler,
         \A m \in Messages : wa[m].sent => wa'[m].sent, EventTrue(e)',
         e.kind = "message" => ~wa[e.of].sent
  PROVE  InOrder'
<1>1. /\ \A i \in DOMAIN events : events[i] \in Event /\ EventTrue(events[i])
      /\ handler.at # "idle" => handler.ev \in Event /\ EventTrue(handler.ev)
  BY DEF Meet, IInv, Types, HandlerTrue, Rest, Facts, InOrder
<1>2. \A f \in Event : EventTrue(f) => EventTrue(f)'
  BY DEF EventTrue, Event
<1>3. ASSUME NEW i \in DOMAIN events' PROVE EventTrue(events[i])'
  <2>1. CASE i \in DOMAIN events
    BY <1>1, <1>2, <2>1, Appended DEF EventTrue
  <2>2. CASE i = Len(events) + 1
    <3>1. events'[i] = e
      BY <2>2, Appended
    <3> QED
      BY <3>1 DEF EventTrue
  <2> QED
    BY <2>1, <2>2, <1>3, Appended
<1>4. handler'.at # "idle" => EventTrue(handler.ev)'
  BY <1>1, <1>2 DEF EventTrue
<1>5. /\ \A i, j \in DOMAIN events :
           i < j /\ events[i].of = events[j].of => events[j].kind # "message"
      /\ handler.at # "idle" =>
           \A j \in DOMAIN events : events[j].of = handler.ev.of => events[j].kind # "message"
  BY DEF Meet, Rest, Facts, InOrder
<1>6. /\ \A i \in DOMAIN events : e.kind = "message" => events[i].of # e.of
      /\ handler.at # "idle" /\ e.kind = "message" => handler.ev.of # e.of
  BY <1>1 DEF EventTrue
<1>7. ASSUME NEW i \in DOMAIN events', NEW j \in DOMAIN events',
             i < j, events'[i].of = events'[j].of
      PROVE  events'[j].kind # "message"
  <2>1. CASE j \in DOMAIN events
    <3>1. i \in DOMAIN events
      <4>1. i = Len(events) + 1 => FALSE
        <5>1. j < Len(events) + 1 /\ Len(events) \in Nat /\ j \in Nat
          BY <2>1, Appended DEF Meet, IInv, Types
        <5> QED
          BY <1>7, <5>1
      <4> QED
        BY <1>7, <4>1, Appended
    <3> QED
      BY <1>5, <1>7, <2>1, <3>1, Appended
  <2>2. CASE j = Len(events) + 1
    <3>1. i \in DOMAIN events /\ events'[i] = events[i] /\ events'[j] = e
      BY <1>7, <2>2, Appended DEF Meet, IInv, Types
    <3> QED
      BY <1>6, <1>7, <3>1
  <2> QED
    BY <1>7, <2>1, <2>2, Appended
<1>8. ASSUME handler'.at # "idle", NEW j \in DOMAIN events', events'[j].of = handler'.ev.of
      PROVE  events'[j].kind # "message"
  BY <1>5, <1>6, <1>8, Appended
<1>9. /\ handler'.at = "save" => handler'.ev.kind = "message"
      /\ handler'.at = "react" => handler'.ev.kind = "reaction"
  BY DEF Meet, Rest, Facts, InOrder
<1> QED
  BY <1>3, <1>4, <1>7, <1>8, <1>9 DEF InOrder

(* Something happens to a message on a phone, and an event tells of it.    *)
LEMMA ToldRest ==
  ASSUME Meet, NEW m \in Messages, NEW e \in Event, e.of = m,
         events' = Append(events, e), UNCHANGED <<handler, row, marked, post, hooks, work>>,
         EventTrue(e)', e.kind = "message" => ~wa[m].sent,
         \A n \in Messages :
           /\ wa[n].sent => wa'[n].sent
           /\ n # m => wa'[n] = wa[n],
         wa'[m].sent,
         \A a \in Actors :
           IF e.kind = "reaction" /\ e.by = a THEN wa'[m].reactions[a] = e.emoji
                                              ELSE wa'[m].reactions[a] = wa[m].reactions[a],
         wa'[m].revoked => wa[m].revoked \/ e.kind = "revoke",
         count' \in [DOMAIN Bounds -> Nat], Undisturbed' => Undisturbed
  PROVE  Rest'
<1>1. Facts'
  <2>1. InOrder'
    BY OrderTold
  <2>2. \A n \in Messages : Unsent(n) /\ RowTrue(n)
    BY DEF Meet, Rest, Facts
  <2>3. ASSUME NEW n \in Messages PROVE Unsent(n)' /\ RowTrue(n)'
    <3>1. RowTrue(n)'
      BY <2>2 DEF RowTrue, There
    <3>2. CASE n = m
      BY <3>1, <3>2 DEF Unsent
    <3>3. CASE n # m
      BY <2>2, <3>1, <3>3 DEF Unsent
    <3> QED
      BY <3>2, <3>3
  <2> QED
    BY <2>1, <2>3 DEF Facts
<1>2. \A n \in Messages, a \in Actors :
        /\ Reacting(n, a)' <=> Reacting(n, a)
        /\ FromEvent(n)' <=> FromEvent(n)
  BY DEF Reacting, FromEvent, There
<1>3. PICK l \in Nat : l = Len(events) + 1
  BY DEF Meet, IInv, Types
<1>4. /\ l \in DOMAIN events' /\ events'[l] = e
      /\ \A i \in DOMAIN events :
           i \in DOMAIN events' /\ events'[i] = events[i] /\ i < l /\ i \in Nat
      /\ \A i \in DOMAIN events' : i \in DOMAIN events \/ i = l
  BY <1>3, Appended DEF Meet, IInv, Types
<1>5. \A n \in Messages :
        /\ Unsaved(n)' <=> Unsaved(n) \/ (n = m /\ e.kind = "message")
        /\ Revoking(n)' <=> Revoking(n) \/ (n = m /\ e.kind = "revoke")
  BY <1>4 DEF Unsaved, Revoking
<1>6. \A n \in Messages : ~wa[n].sent =>
        /\ \A a \in Actors : wa[n].reactions[a] = Nothing
        /\ n \in Theirs => ~wa[n].revoked
  BY DEF Meet, Rest, Facts, Unsent
<1>7. ASSUME Undisturbed', NEW n \in Messages, NEW a \in Actors PROVE ReactionTrue(n, a)'
  <2> DEFINE told == e.kind = "reaction" /\ n = m /\ e.by = a
  <2>1. ReactionTrue(n, a)
    BY <1>7 DEF Meet, Rest, ReactionsTrue
  <2>2. /\ \A i \in DOMAIN events : ReactsAt(i, n, a)' <=> ReactsAt(i, n, a)
        /\ ReactsAt(l, n, a)' <=> told
    BY <1>4 DEF ReactsAt
  <2>3. /\ told => wa'[n].reactions[a] = e.emoji
        /\ ~told => wa'[n].reactions[a] = wa[n].reactions[a]
    OBVIOUS
  <2> HIDE DEF told
  <2>4. ASSUME NEW i \in DOMAIN events', ReactsAt(i, n, a)',
               \A j \in DOMAIN events' : ReactsAt(j, n, a)' => j <= i
        PROVE  events'[i].emoji = wa'[n].reactions[a]
    <3>1. CASE told
      <4>1. l <= i
        BY <1>4, <2>2, <2>4, <3>1
      <4>2. i = l
        BY <1>4, <2>4, <4>1
      <4> QED
        BY <1>4, <2>3, <3>1, <4>2
    <3>2. CASE ~told
      <4>1. i \in DOMAIN events /\ ReactsAt(i, n, a) /\ events'[i] = events[i]
        BY <1>4, <2>2, <2>4, <3>2
      <4>2. \A j \in DOMAIN events : ReactsAt(j, n, a) => j <= i
        BY <1>4, <2>2, <2>4
      <4> QED
        BY <2>1, <2>3, <3>2, <4>1, <4>2 DEF ReactionTrue
    <3> QED
      BY <3>1, <3>2
  <2>5. ASSUME \A i \in DOMAIN events' : ~ReactsAt(i, n, a)'
        PROVE  /\ Reacting(n, a)' => handler'.ev.emoji = wa'[n].reactions[a]
               /\ ~Reacting(n, a)' /\ FromEvent(n)' =>
                    \A f \in Emojis : <<a, f>> \in row'[n].reactions <=> f = wa'[n].reactions[a]
               /\ Unsaved(n)' => wa'[n].reactions[a] = Nothing
    <3>1. ~told /\ \A i \in DOMAIN events : ~ReactsAt(i, n, a)
      BY <1>4, <2>2, <2>5
    <3>2. Unsaved(n)' => wa[n].reactions[a] = Nothing
      BY <1>5, <1>6, <2>1, <3>1 DEF ReactionTrue
    <3> QED
      BY <1>2, <2>1, <2>3, <3>1, <3>2 DEF ReactionTrue
  <2> QED
    BY <2>4, <2>5 DEF ReactionTrue
<1>8. ASSUME Undisturbed', NEW n \in Messages PROVE PostTrue(n)' /\ RevokeTrue(n)'
  <2>1. PostTrue(n) /\ RevokeTrue(n)
    BY <1>8 DEF Meet, Rest, DeletionsTrue
  <2>2. PostTrue(n)'
    BY <2>1 DEF PostTrue, Listed, Dropping
  <2>3. /\ Dropping(n)' <=> Dropping(n)
        /\ Marking(n)' <=> Marking(n)
        /\ Undoing(n)' <=> Undoing(n)
    BY DEF Dropping, Marking, Undoing
  <2>4. FromEvent(n)' <=> FromEvent(n)
    BY DEF FromEvent, There
  <2>5. e.kind = "message" => m \in Theirs /\ ~wa[m].revoked
    BY <1>6 DEF EventTrue
  <2>6. wa'[n].revoked => wa[n].revoked \/ Revoking(n)'
    BY <1>5
  <2>7. CASE Revoking(n)'
    BY <2>2, <2>7 DEF RevokeTrue
  <2>8. CASE ~Revoking(n)' /\ wa'[n].revoked
    <3>1. wa[n].revoked /\ ~Revoking(n) /\ (Unsaved(n)' => Unsaved(n))
      <4>1. wa[n].revoked /\ ~Revoking(n) /\ ~(n = m /\ e.kind = "revoke")
        BY <1>5, <2>6, <2>8
      <4>2. n = m => wa[m].revoked
        BY <4>1
      <4> QED
        BY <1>5, <2>5, <4>1, <4>2
    <3> QED
      BY <2>1, <2>2, <2>3, <2>4, <3>1 DEF RevokeTrue
  <2>9. CASE ~wa'[n].revoked
    BY <2>2, <2>9 DEF RevokeTrue
  <2> QED
    BY <2>7, <2>8, <2>9
<1> QED
  BY <1>1, <1>7, <1>8 DEF Rest, ReactionsTrue, DeletionsTrue

LEMMA PhonesRest ==
  ASSUME Meet, NEW m \in Messages, NEW a \in Actors, NEW f \in Emojis \cup {Nothing},
         Comes(m) \/ React(m, a, f) \/ Revoke(m)
  PROVE  Rest'
<1>1. wa \in [Messages -> Wa] /\ wa[m] \in Wa
  BY DEF Meet, IInv, Types
<1>2. UNCHANGED <<handler, row, marked, post, hooks, work>>
  BY DEF Comes, React, Revoke
<1>3. CASE Comes(m)
  <2> DEFINE e == [kind |-> "message", of |-> m, by |-> Nothing, emoji |-> Nothing]
  <2>1. /\ wa' = [wa EXCEPT ![m].sent = TRUE] /\ events' = Append(events, e)
        /\ m \in Theirs /\ ~wa[m].sent /\ count' = count
    BY <1>3 DEF Comes, Tells
  <2>2. /\ \A n \in Messages : (wa[n].sent => wa'[n].sent) /\ (n # m => wa'[n] = wa[n])
        /\ wa'[m].sent /\ wa'[m].reactions = wa[m].reactions
        /\ wa'[m].revoked = wa[m].revoked
    BY <1>1, <2>1 DEF Wa
  <2>3. e \in Event /\ e.of = m /\ e.kind = "message"
    BY DEF Event
  <2>4. count' \in [DOMAIN Bounds -> Nat] /\ (Undisturbed' => Undisturbed)
    BY <2>1, Uncounted DEF Meet, Rest
  <2>5. EventTrue(e)'
    BY <2>1, <2>2 DEF EventTrue
  <2> HIDE DEF e
  <2> QED
    BY <1>2, <2>1, <2>2, <2>3, <2>4, <2>5, ToldRest
<1>4. CASE React(m, a, f)
  <2> DEFINE e == [kind |-> "reaction", of |-> m, by |-> a, emoji |-> f]
  <2>1. /\ wa' = [wa EXCEPT ![m].reactions[a] = f] /\ events' = Append(events, e)
        /\ wa[m].sent /\ Counts("reacts")
    BY <1>4 DEF React, Tells
  <2>2. /\ \A n \in Messages : (wa[n].sent => wa'[n].sent) /\ (n # m => wa'[n] = wa[n])
        /\ wa'[m].sent /\ wa'[m].revoked = wa[m].revoked
        /\ \A b \in Actors :
             wa'[m].reactions[b] = IF b = a THEN f ELSE wa[m].reactions[b]
    BY <1>1, <2>1 DEF Wa
  <2>3. e \in Event /\ e.of = m /\ e.kind = "reaction" /\ e.by = a /\ e.emoji = f
    BY DEF Event
  <2>4. "reacts" \in DOMAIN Bounds
    BY DEF Bounds
  <2>5. count' \in [DOMAIN Bounds -> Nat] /\ (Undisturbed' => Undisturbed)
    BY <2>1, <2>4, Counted DEF Meet, Rest
  <2>6. EventTrue(e)'
    BY <2>1, <2>2 DEF EventTrue
  <2> HIDE DEF e
  <2> QED
    BY <1>2, <2>1, <2>2, <2>3, <2>5, <2>6, ToldRest
<1>5. CASE Revoke(m)
  <2> DEFINE e == [kind |-> "revoke", of |-> m, by |-> Nothing, emoji |-> Nothing]
  <2>1. /\ wa' = [wa EXCEPT ![m].revoked = TRUE] /\ events' = Append(events, e)
        /\ wa[m].sent /\ Counts("revokes")
    BY <1>5 DEF Revoke, Tells
  <2>2. /\ \A n \in Messages : (wa[n].sent => wa'[n].sent) /\ (n # m => wa'[n] = wa[n])
        /\ wa'[m].sent /\ wa'[m].reactions = wa[m].reactions
    BY <1>1, <2>1 DEF Wa
  <2>3. e \in Event /\ e.of = m /\ e.kind = "revoke"
    BY DEF Event
  <2>4. "revokes" \in DOMAIN Bounds
    BY DEF Bounds
  <2>5. count' \in [DOMAIN Bounds -> Nat] /\ (Undisturbed' => Undisturbed)
    BY <2>1, <2>4, Counted DEF Meet, Rest
  <2>6. EventTrue(e)'
    BY <2>1, <2>2 DEF EventTrue
  <2> HIDE DEF e
  <2> QED
    BY <1>2, <2>1, <2>2, <2>3, <2>5, <2>6, ToldRest
<1> QED
  BY <1>3, <1>4, <1>5

LEMMA StutterRest == ASSUME Meet, UNCHANGED updatesVars PROVE Rest'
<1>1. UNCHANGED <<wa, events, handler, row, marked, post, hooks, work, count>>
  BY DEF updatesVars
<1>2. count' \in [DOMAIN Bounds -> Nat] /\ (Undisturbed' => Undisturbed)
  BY <1>1, Uncounted DEF Meet, Rest
<1>3. \A m \in Messages : Dropping(m) => Dropping(m)'
  BY <1>1 DEF Dropping
<1>4. Undisturbed' => \A m \in Messages : PostTrue(m)'
  BY <1>1, <1>2 DEF Meet, Rest, DeletionsTrue, PostTrue, Listed, Dropping
<1> QED
  BY <1>1, <1>2, <1>3, <1>4, RowsSame

LEMMA MeetsOn == Meet /\ [UpdatesNext]_updatesVars => Meet'
<1> SUFFICES ASSUME Meet, [UpdatesNext]_updatesVars PROVE Rest'
  BY Inductive DEF Meet
<1>1. CASE \E m \in Messages : Send(m) \/ SaveSentFails(m) \/ SaveSent(m) \/ Bridge(m)
  BY <1>1, SendRest, SaveFailsRest, SaveRest, BridgeRest
<1>2. CASE \E m \in Messages : Comes(m) \/ Revoke(m)
  <2>1. Me \in Actors /\ Nothing \in Emojis \cup {Nothing}
    BY DEF Actors
  <2> QED
    BY <1>2, <2>1, PhonesRest
<1>3. CASE \E m \in Messages, a \in Actors, e \in Emojis \cup {Nothing} : React(m, a, e)
  BY <1>3, PhonesRest
<1>4. CASE Begin \/ SaveMessage \/ UpdateReactions \/ TellReaction
  BY <1>4, BeginRest, MessageRest, ReactRest, TellRest
<1>5. CASE MarkDeleted \/ FindRow \/ RemovePost \/ DropRow
  BY <1>5, MarkRest, FindRest, RemoveRest, DropRest
<1>6. CASE \E ms \in SUBSET Messages : SaveBatch(ms)
  BY <1>6, BatchRest
<1>7. CASE \E p \in Posts : AgentDeletes(p) \/ IgnoreHook(p) \/ \E g \in Goroutines : ListRows(g, p)
  BY <1>7, AgentRest, HookRest, ListRest
<1>8. CASE ConversationGoes
  BY <1>8, GoneRest
<1>9. CASE \E g \in Goroutines : DropNext(g) \/ \E m \in Messages : RevokeNext(g, m)
  BY <1>9, DropNextRest, RevokeNextRest
<1>10. CASE \E m \in Messages : (\E e \in Emojis : ApiReacts(m, e))
                              \/ (\E forMe \in BOOLEAN : ApiDeletes(m, forMe))
  BY <1>10, ApiRest
<1>11. CASE UNCHANGED updatesVars
  BY <1>11, StutterRest
<1> QED
  BY <1>1, <1>2, <1>3, <1>4, <1>5, <1>6, <1>7, <1>8, <1>9, <1>10, <1>11 DEF UpdatesNext

LEMMA MeetsAtRest == Meet => DeletionsMeet
<1> SUFFICES ASSUME Meet, AtRest, Undisturbed, NEW m \in Messages
             PROVE  /\ row[m].ref # Nothing => post[row[m].ref] # "deleted"
                    /\ wa[m].revoked /\ There(m) /\ row[m].from = "event" => m \in marked
                    /\ wa[m].revoked /\ There(m) => row[m].ref = Nothing
  BY DEF DeletionsMeet
<1>1. /\ PostTrue(m) /\ RevokeTrue(m)
      /\ row[m].ref \in {Nothing, PostOf[m]} /\ PostOf[m] \in Posts
  BY DEF Meet, Rest, DeletionsTrue, IInv, OwnRefs
<1>2. /\ hooks[PostOf[m]] = 0
      /\ ~Listed(m) /\ ~Dropping(m)
  BY <1>1 DEF AtRest, Listed, Dropping, NoWork
<1>3. DOMAIN events = {} /\ handler.at = "idle"
  BY DEF AtRest, Free
<1>4. ~Revoking(m) /\ ~Marking(m) /\ ~Undoing(m)
  BY <1>3 DEF Revoking, Marking, Undoing
<1> QED
  BY <1>1, <1>2, <1>4 DEF PostTrue, RevokeTrue, FromEvent

LEMMA ReactionsMeet == Meet => ReactionsAgree
<1> SUFFICES ASSUME Meet, Undisturbed, NEW m \in Messages, There(m),
                    row[m].from = "event", ~Pending(m)
             PROVE  row[m].reactions =
                      {<<a, wa[m].reactions[a]>> : a \in {b \in Actors : wa[m].reactions[b] # Nothing}}
  BY DEF ReactionsAgree
<1>1. RowTrue(m) /\ wa[m] \in Wa
  BY DEF Meet, Rest, Facts, IInv, Types
<1>2. ASSUME NEW a \in Actors, NEW e \in Emojis
      PROVE  <<a, e>> \in row[m].reactions <=> e = wa[m].reactions[a]
  <2>1. ReactionTrue(m, a)
    BY DEF Meet, Rest, ReactionsTrue
  <2>2. ~Reacting(m, a) /\ \A i \in DOMAIN events : ~ReactsAt(i, m, a)
    BY DEF Pending, Reacting, ReactsAt
  <2> QED
    BY <2>1, <2>2 DEF ReactionTrue, FromEvent
<1>3. \A a \in Actors : wa[m].reactions[a] \in Emojis \cup {Nothing} /\ Nothing \notin Emojis
  BY <1>1 DEF Wa
<1> DEFINE rs == {<<a, wa[m].reactions[a]>> : a \in {b \in Actors : wa[m].reactions[b] # Nothing}}
<1>4. ASSUME NEW x \in row[m].reactions PROVE x \in rs
  <2>1. PICK a \in Actors, e \in Emojis : x = <<a, e>>
    BY <1>1 DEF RowTrue
  <2> QED
    BY <1>2, <1>3, <2>1
<1>5. ASSUME NEW x \in rs PROVE x \in row[m].reactions
  <2>1. PICK a \in Actors : wa[m].reactions[a] # Nothing /\ x = <<a, wa[m].reactions[a]>>
    OBVIOUS
  <2> QED
    BY <1>2, <1>3, <2>1
<1> QED
  BY <1>4, <1>5

(* Rows, Chatwoot and WhatsApp agree about what was deleted and how people *)
(* reacted, whatever order events, history syncs, agents, goroutines and   *)
(* the bridge's own deletions run in: a dropped row's message is gone on   *)
(* both sides, no row refers to a deleted post and no revoked message      *)
(* stays when all is handled, and a row shows everyone's last reaction.    *)
THEOREM RowsMeet == UpdatesSpec => []RowsAreTrue
<1>1. Meet => RowsAreTrue
  BY MeetsAtRest, ReactionsMeet DEF Meet, IInv, RowsAreTrue
<1> QED
  BY <1>1, MeetsFirst, MeetsOn, PTL DEF UpdatesSpec

------------------------------------------------------------------------------
(* The synchronisation with Chatwoot's database.                           *)

(* Every finite set of numbers has a largest.                              *)
LEMMA LargestIs ==
  ASSUME NEW M \in SUBSET Nat, IsFiniteSet(M), M # {} PROVE \E n \in M : \A k \in M : k <= n
<1> DEFINE above == [n \in M |-> {k \in M : k > n}]
           F == {above[n] : n \in M}
           R == StrictSubsetOrdering(M)
<1>1. IsWellFoundedOn(R, FiniteSubsetsOf(M))
  BY FS_StrictSubsetOrderingWellFounded
<1>2. F \subseteq FiniteSubsetsOf(M) /\ F # {}
  <2>1. ASSUME NEW n \in M PROVE above[n] \in FiniteSubsetsOf(M)
    BY FS_Subset DEF FiniteSubsetsOf
  <2> QED BY <2>1
<1>3. \E y \in F : \A z \in F : <<z, y>> \notin R
  <2> HIDE DEF F, R
  <2> QED BY <1>1, <1>2, WFMin
<1>4. PICK n \in M : \A k \in M : <<above[k], above[n]>> \notin R
  BY <1>3
<1>5. ASSUME NEW k \in M, k > n PROVE FALSE
  <2>0. \A j \in M : j \in Nat
    OBVIOUS
  <2>1. above[k] \subseteq above[n] /\ k \in above[n] /\ k \notin above[k]
    <3>1. k \in above[n] /\ k \notin above[k]
      BY <1>5, <2>0
    <3>2. ASSUME NEW j \in above[k] PROVE j \in above[n]
      <4>1. j \in M /\ j > k
        OBVIOUS
      <4>2. j > n
        BY <1>5, <2>0, <4>1
      <4> QED BY <4>1, <4>2
    <3> QED BY <3>1, <3>2
  <2>2. above[k] \in SUBSET M /\ above[n] \in SUBSET M
    OBVIOUS
  <2>3. <<above[k], above[n]>> \in R
    <3> HIDE DEF above
    <3> QED BY <2>1, <2>2 DEF StrictSubsetOrdering
  <2> QED BY <1>4, <2>3
<1> QED BY <1>5

(* The smallest of some numbers, and their sorted list.                    *)
LEMMA SmallestIs ==
  ASSUME NEW M \in SUBSET Nat, M # {} PROVE Min(M) \in M /\ \A n \in M : Min(M) <= n
<1> DEFINE F == {0 .. n : n \in M}
           R == StrictSubsetOrdering(Nat)
<1>1. IsWellFoundedOn(R, FiniteSubsetsOf(Nat))
  BY FS_StrictSubsetOrderingWellFounded
<1>2. F \subseteq FiniteSubsetsOf(Nat) /\ F # {}
  <2>1. ASSUME NEW n \in M PROVE 0 .. n \in FiniteSubsetsOf(Nat)
    BY FS_Interval DEF FiniteSubsetsOf
  <2> QED BY ZenonT(60), <2>1
<1>3. \E y \in F : \A z \in F : <<z, y>> \notin R
  <2> HIDE DEF F, R
  <2> QED BY <1>1, <1>2, WFMin
<1>4. PICK n \in M : \A k \in M : <<0 .. k, 0 .. n>> \notin R
  BY <1>3
<1>5. ASSUME NEW k \in M, k < n PROVE FALSE
  <2>1. 0 .. k \subseteq 0 .. n /\ n \in 0 .. n /\ n \notin 0 .. k
    BY <1>5
  <2>2. 0 .. k \in SUBSET Nat /\ 0 .. n \in SUBSET Nat
    OBVIOUS
  <2>3. <<0 .. k, 0 .. n>> \in R
    BY <2>1, <2>2 DEF StrictSubsetOrdering
  <2> QED BY <1>4, <2>3
<1>6. \A k \in M : n <= k
  BY <1>5
<1> QED BY <1>6 DEF Min

Below(M, m) == {k \in M : k < m}

(* In a finite set every place is somebody's, and nobody else's.           *)
LEMMA Places ==
  ASSUME NEW M \in SUBSET Nat, IsFiniteSet(M)
  PROVE  /\ Cardinality(M) \in Nat
         /\ \A i \in 1 .. Cardinality(M) : \E m \in M : Cardinality(Below(M, m)) = i - 1
         /\ \A m, n \in M : Cardinality(Below(M, m)) = Cardinality(Below(M, n)) => m = n
<1> DEFINE Filled(T) == \A i \in 1 .. Cardinality(T) : \E m \in T : Cardinality(Below(T, m)) = i - 1
           Bad == {T \in FiniteSubsetsOf(Nat) : ~Filled(T)}
           R == StrictSubsetOrdering(Nat)
<1>1. IsWellFoundedOn(R, FiniteSubsetsOf(Nat))
  BY FS_StrictSubsetOrderingWellFounded
<1>2. Bad = {}
  <2>1. ASSUME Bad # {} PROVE FALSE
    <3>1. PICK T \in Bad : \A S \in Bad : <<S, T>> \notin R
      <4>1. Bad \subseteq FiniteSubsetsOf(Nat)
        OBVIOUS
      <4> HIDE DEF Bad, R
      <4> QED BY <1>1, <2>1, <4>1, WFMin
    <3>2. T \in SUBSET Nat /\ IsFiniteSet(T) /\ Cardinality(T) \in Nat
      BY FS_CardinalityType DEF FiniteSubsetsOf
    <3>3. T # {}
      <4>1. Cardinality({}) = 0
        BY FS_EmptySet
      <4>2. 1 .. 0 = {}
        OBVIOUS
      <4> QED BY <3>1, <4>1, <4>2
    <3>4. PICK n \in T : \A k \in T : k <= n
      BY <3>2, <3>3, LargestIs
    <3> DEFINE S == T \ {n}
    <3>5. IsFiniteSet(S) /\ Cardinality(S) = Cardinality(T) - 1 /\ S \in SUBSET Nat
      BY <3>2, <3>4, FS_RemoveElement
    <3>6. S \in FiniteSubsetsOf(Nat) /\ <<S, T>> \in R
      BY <3>2, <3>5 DEF FiniteSubsetsOf, StrictSubsetOrdering
    <3>7. Filled(S)
      <4> HIDE DEF Filled, R, S
      <4> QED BY <3>1, <3>6
    <3>8. ASSUME NEW i \in 1 .. Cardinality(T)
          PROVE  \E m \in T : Cardinality(Below(T, m)) = i - 1
      <4>1. CASE i = Cardinality(T)
        <5>0. \A k \in T : k \in Nat
          BY <3>2
        <5>1. ASSUME NEW k \in T PROVE k < n <=> k # n
          BY <3>4, <5>0
        <5>2. Below(T, n) = S
          BY <5>1 DEF Below
        <5> QED BY <3>5, <4>1, <5>2, <3>4
      <4>2. CASE i # Cardinality(T)
        <5>1. i \in 1 .. Cardinality(S)
          BY <3>2, <3>5, <4>2
        <5>2. PICK m \in S : Cardinality(Below(S, m)) = i - 1
          BY <3>7, <5>1
        <5>3. Below(T, m) = Below(S, m)
          BY <3>2, <3>4 DEF Below
        <5> QED BY <5>2, <5>3
      <4> QED BY <4>1, <4>2
    <3> QED BY <3>1, <3>8
  <2> QED BY <2>1
<1>3. M \in FiniteSubsetsOf(Nat) /\ Cardinality(M) \in Nat
  BY FS_CardinalityType DEF FiniteSubsetsOf
<1>4. Filled(M)
  BY <1>2, <1>3
<1>5. ASSUME NEW m \in M, NEW n \in M, m < n
      PROVE  Cardinality(Below(M, m)) # Cardinality(Below(M, n))
  <2>0. \A k \in M : k \in Nat
    OBVIOUS
  <2>1. Below(M, m) \subseteq Below(M, n) /\ m \in Below(M, n) /\ m \notin Below(M, m)
    <3>1. \A k \in M : k < m => k < n
      BY <1>5, <2>0
    <3>2. ~(m < m)
      BY <2>0
    <3> QED BY <1>5, <3>1, <3>2 DEF Below
  <2>2. IsFiniteSet(Below(M, n))
    BY FS_Subset DEF Below
  <2> QED BY <2>1, <2>2, FS_Subset
<1>6. ASSUME NEW m \in M, NEW n \in M, Cardinality(Below(M, m)) = Cardinality(Below(M, n))
      PROVE  m = n
  <2>1. m < n \/ n < m \/ m = n
    OBVIOUS
  <2> QED BY <1>5, <1>6, <2>1
<1> QED BY <1>3, <1>4, <1>6

(* The sorted list of a finite set has each of its elements once, and the  *)
(* next batch is a beginning of it.                                        *)
LEMMA SortedLists ==
  ASSUME NEW M \in SUBSET Nat, IsFiniteSet(M)
  PROVE  /\ Cardinality(M) \in Nat
         /\ Sorted(M) \in [1 .. Cardinality(M) -> M]
         /\ \A i, j \in 1 .. Cardinality(M) : Sorted(M)[i] = Sorted(M)[j] => i = j
<1>1. /\ Cardinality(M) \in Nat
      /\ \A i \in 1 .. Cardinality(M) : \E m \in M : Cardinality(Below(M, m)) = i - 1
  BY Places
<1>2. \A i \in 1 .. Cardinality(M) :
        Sorted(M)[i] \in M /\ Cardinality(Below(M, Sorted(M)[i])) = i - 1
  BY <1>1 DEF Sorted, Below
<1>3. Sorted(M) \in [1 .. Cardinality(M) -> M]
  BY <1>2 DEF Sorted
<1>4. ASSUME NEW i \in 1 .. Cardinality(M), NEW j \in 1 .. Cardinality(M),
             Sorted(M)[i] = Sorted(M)[j]
      PROVE  i = j
  <2>1. i - 1 = j - 1
    BY <1>2, <1>4
  <2> QED BY <1>1, <2>1
<1> QED BY <1>1, <1>3, <1>4

LEMMA BatchBegins ==
  ASSUME NEW M \in SUBSET Message
  PROVE  /\ NextBatch(M) \in Seq(M)
         /\ \A i, j \in DOMAIN NextBatch(M) : NextBatch(M)[i] = NextBatch(M)[j] => i = j
<1>1. IsFiniteSet(M) /\ M \in SUBSET Nat
  <2>1. IsFiniteSet(Message)
    BY FS_Interval, ChatSyncAssumption DEF Message
  <2>2. M \in SUBSET Nat
    BY ChatSyncAssumption DEF Message
  <2>3. IsFiniteSet(M)
    BY <2>1, FS_Subset
  <2> QED BY <2>2, <2>3
<1>2. /\ Cardinality(M) \in Nat
      /\ Sorted(M) \in [1 .. Cardinality(M) -> M]
      /\ \A i, j \in 1 .. Cardinality(M) : Sorted(M)[i] = Sorted(M)[j] => i = j
  BY <1>1, SortedLists
<1> DEFINE k == Min({BatchSize, Cardinality(M)})
<1>3. k \in 0 .. Cardinality(M)
  <2>1. {BatchSize, Cardinality(M)} \in SUBSET Nat /\ {BatchSize, Cardinality(M)} # {}
    BY <1>2, ChatSyncAssumption
  <2>2. k \in {BatchSize, Cardinality(M)} /\ k <= Cardinality(M)
    BY <2>1, SmallestIs
  <2> QED BY <1>2, <2>1, <2>2
<1> DEFINE s == Sorted(M)
           n == Cardinality(M)
<1>4. NextBatch(M) = SubSeq(s, 1, k)
  BY DEF NextBatch
<1> HIDE DEF k, s, n
<1>5. s \in Seq(M) /\ Len(s) = n /\ n \in Nat /\ k \in 0 .. n
      /\ \A i, j \in 1 .. n : s[i] = s[j] => i = j
  BY <1>2, <1>3 DEF s, n
<1>6. /\ SubSeq(s, 1, k) \in Seq(M) /\ DOMAIN SubSeq(s, 1, k) = 1 .. k
      /\ \A i \in 1 .. k : SubSeq(s, 1, k)[i] = s[i]
  BY <1>5
<1> QED BY <1>4, <1>5, <1>6
PCs == {"off", "set", "inbox", "contacts", "read", "lookup", "create", "upsert", "link",
        "converse", "query", "text", "ids", "record", "media", "dates", "done", "fail"}
Task == [pc : PCs, type : SyncTypes, read : SUBSET Message, wanted : SUBSET Message,
         chats : SUBSET (Chats \X Nat), batch : SUBSET Message, ids : SUBSET (Message \X Nat),
         jobs : SUBSET Message, busy : SUBSET Message, done : SUBSET Nat, sound : BOOLEAN]
Post == [msg : Message, conv : Nat]

(* A step of caller c that changes these fields of its sync only.          *)
Agree(r, s, F) ==
  /\ "pc" \in F \/ r.pc = s.pc
  /\ "type" \in F \/ r.type = s.type
  /\ "read" \in F \/ r.read = s.read
  /\ "wanted" \in F \/ r.wanted = s.wanted
  /\ "chats" \in F \/ r.chats = s.chats
  /\ "batch" \in F \/ r.batch = s.batch
  /\ "ids" \in F \/ r.ids = s.ids
  /\ "jobs" \in F \/ r.jobs = s.jobs
  /\ "busy" \in F \/ r.busy = s.busy
  /\ "done" \in F \/ r.done = s.done
  /\ "sound" \in F \/ r.sound = s.sound
Alters(c, F) ==
  /\ task' \in [Callers -> Task]
  /\ \A d \in Callers : d # c => task'[d] = task[d]
  /\ Agree(task'[c], task[c], F)

(* What each kind of step of a sync makes of its fields, one lemma for    *)
(* each set of fields that change together.                                *)
LEMMA Altered ==
  ASSUME task \in [Callers -> Task], NEW c \in Callers, NEW F, NEW STATE r, r \in Task,
         Agree(r, task[c], F), task' = [task EXCEPT ![c] = r]
  PROVE  Alters(c, F) /\ task'[c] = r
BY DEF Alters

LEMMA GoesFacts ==
  ASSUME task \in [Callers -> Task], NEW c \in Callers,
         NEW q \in PCs,
         task' = [task EXCEPT ![c].pc = q]
  PROVE  /\ Alters(c, {"pc"})
         /\ task'[c].pc = q
<1> DEFINE r == [task[c] EXCEPT !.pc = q]
<1>1. task[c] \in Task
  OBVIOUS
<1>2. r \in Task /\ r.pc = q
  BY <1>1 DEF Task
<1>3. Agree(r, task[c], {"pc"})
  BY <1>1 DEF Task, Agree
<1>4. task' = [task EXCEPT ![c] = r]
  OBVIOUS
<1> HIDE DEF r
<1> QED BY <1>2, <1>3, <1>4, Altered

LEMMA FailFacts ==
  ASSUME task \in [Callers -> Task], NEW c \in Callers,
         NEW q \in PCs,
         task' = [task EXCEPT ![c].pc = q, ![c].sound = FALSE]
  PROVE  /\ Alters(c, {"pc", "sound"})
         /\ task'[c].pc = q /\ task'[c].sound = FALSE
<1> DEFINE r == [task[c] EXCEPT !.pc = q, !.sound = FALSE]
<1>1. task[c] \in Task
  OBVIOUS
<1>2. r \in Task /\ r.pc = q /\ r.sound = FALSE
  BY <1>1 DEF Task
<1>3. Agree(r, task[c], {"pc", "sound"})
  BY <1>1 DEF Task, Agree
<1>4. task' = [task EXCEPT ![c] = r]
  OBVIOUS
<1> HIDE DEF r
<1> QED BY <1>2, <1>3, <1>4, Altered

LEMMA ReadFacts ==
  ASSUME task \in [Callers -> Task], NEW c \in Callers,
         NEW q \in PCs, NEW S \in SUBSET Message,
         task' = [task EXCEPT ![c].pc = q, ![c].read = S]
  PROVE  /\ Alters(c, {"pc", "read"})
         /\ task'[c].pc = q /\ task'[c].read = S
<1> DEFINE r == [task[c] EXCEPT !.pc = q, !.read = S]
<1>1. task[c] \in Task
  OBVIOUS
<1>2. r \in Task /\ r.pc = q /\ r.read = S
  BY <1>1 DEF Task
<1>3. Agree(r, task[c], {"pc", "read"})
  BY <1>1 DEF Task, Agree
<1>4. task' = [task EXCEPT ![c] = r]
  OBVIOUS
<1> HIDE DEF r
<1> QED BY <1>2, <1>3, <1>4, Altered

LEMMA FilterFacts ==
  ASSUME task \in [Callers -> Task], NEW c \in Callers,
         NEW q \in PCs, NEW S \in SUBSET Message,
         task' = [task EXCEPT ![c].wanted = S, ![c].pc = q]
  PROVE  /\ Alters(c, {"wanted", "pc"})
         /\ task'[c].wanted = S /\ task'[c].pc = q
<1> DEFINE r == [task[c] EXCEPT !.wanted = S, !.pc = q]
<1>1. task[c] \in Task
  OBVIOUS
<1>2. r \in Task /\ r.wanted = S /\ r.pc = q
  BY <1>1 DEF Task
<1>3. Agree(r, task[c], {"wanted", "pc"})
  BY <1>1 DEF Task, Agree
<1>4. task' = [task EXCEPT ![c] = r]
  OBVIOUS
<1> HIDE DEF r
<1> QED BY <1>2, <1>3, <1>4, Altered

LEMMA MapFacts ==
  ASSUME task \in [Callers -> Task], NEW c \in Callers,
         NEW q \in PCs, NEW S \in SUBSET (Chats \X Nat),
         task' = [task EXCEPT ![c].pc = q, ![c].chats = S]
  PROVE  /\ Alters(c, {"pc", "chats"})
         /\ task'[c].pc = q /\ task'[c].chats = S
<1> DEFINE r == [task[c] EXCEPT !.pc = q, !.chats = S]
<1>1. task[c] \in Task
  OBVIOUS
<1>2. r \in Task /\ r.pc = q /\ r.chats = S
  BY <1>1 DEF Task
<1>3. Agree(r, task[c], {"pc", "chats"})
  BY <1>1 DEF Task, Agree
<1>4. task' = [task EXCEPT ![c] = r]
  OBVIOUS
<1> HIDE DEF r
<1> QED BY <1>2, <1>3, <1>4, Altered

LEMMA InsertFacts ==
  ASSUME task \in [Callers -> Task], NEW c \in Callers,
         NEW q \in PCs, NEW S \in SUBSET Message, NEW B \in SUBSET Message,
         task' = [task EXCEPT ![c].pc = q, ![c].wanted = S, ![c].batch = B]
  PROVE  /\ Alters(c, {"pc", "wanted", "batch"})
         /\ task'[c].pc = q /\ task'[c].wanted = S /\ task'[c].batch = B
<1> DEFINE r == [task[c] EXCEPT !.pc = q, !.wanted = S, !.batch = B]
<1>1. task[c] \in Task
  OBVIOUS
<1>2. r \in Task /\ r.pc = q /\ r.wanted = S /\ r.batch = B
  BY <1>1 DEF Task
<1>3. Agree(r, task[c], {"pc", "wanted", "batch"})
  BY <1>1 DEF Task, Agree
<1>4. task' = [task EXCEPT ![c] = r]
  OBVIOUS
<1> HIDE DEF r
<1> QED BY <1>2, <1>3, <1>4, Altered

LEMMA SkipFacts ==
  ASSUME task \in [Callers -> Task], NEW c \in Callers,
         NEW S \in SUBSET Message,
         task' = [task EXCEPT ![c].wanted = S, ![c].sound = FALSE]
  PROVE  /\ Alters(c, {"wanted", "sound"})
         /\ task'[c].wanted = S /\ task'[c].sound = FALSE
<1> DEFINE r == [task[c] EXCEPT !.wanted = S, !.sound = FALSE]
<1>1. task[c] \in Task
  OBVIOUS
<1>2. r \in Task /\ r.wanted = S /\ r.sound = FALSE
  BY <1>1 DEF Task
<1>3. Agree(r, task[c], {"wanted", "sound"})
  BY <1>1 DEF Task, Agree
<1>4. task' = [task EXCEPT ![c] = r]
  OBVIOUS
<1> HIDE DEF r
<1> QED BY <1>2, <1>3, <1>4, Altered

LEMMA IdsFacts ==
  ASSUME task \in [Callers -> Task], NEW c \in Callers,
         NEW q \in PCs, NEW S \in SUBSET (Message \X Nat),
         task' = [task EXCEPT ![c].pc = q, ![c].ids = S]
  PROVE  /\ Alters(c, {"pc", "ids"})
         /\ task'[c].pc = q /\ task'[c].ids = S
<1> DEFINE r == [task[c] EXCEPT !.pc = q, !.ids = S]
<1>1. task[c] \in Task
  OBVIOUS
<1>2. r \in Task /\ r.pc = q /\ r.ids = S
  BY <1>1 DEF Task
<1>3. Agree(r, task[c], {"pc", "ids"})
  BY <1>1 DEF Task, Agree
<1>4. task' = [task EXCEPT ![c] = r]
  OBVIOUS
<1> HIDE DEF r
<1> QED BY <1>2, <1>3, <1>4, Altered

LEMMA BackFacts ==
  ASSUME task \in [Callers -> Task], NEW c \in Callers,
         NEW q \in PCs,
         task' = [task EXCEPT ![c].pc = q, ![c].batch = {}]
  PROVE  /\ Alters(c, {"pc", "batch"})
         /\ task'[c].pc = q /\ task'[c].batch = {}
<1> DEFINE r == [task[c] EXCEPT !.pc = q, !.batch = {}]
<1>1. task[c] \in Task
  OBVIOUS
<1>2. r \in Task /\ r.pc = q /\ r.batch = {}
  BY <1>1 DEF Task
<1>3. Agree(r, task[c], {"pc", "batch"})
  BY <1>1 DEF Task, Agree
<1>4. task' = [task EXCEPT ![c] = r]
  OBVIOUS
<1> HIDE DEF r
<1> QED BY <1>2, <1>3, <1>4, Altered

LEMMA RecordFacts ==
  ASSUME task \in [Callers -> Task], NEW c \in Callers,
         NEW S \in SUBSET (Message \X Nat),
         task' = [task EXCEPT ![c].ids = S]
  PROVE  /\ Alters(c, {"ids"})
         /\ task'[c].ids = S
<1> DEFINE r == [task[c] EXCEPT !.ids = S]
<1>1. task[c] \in Task
  OBVIOUS
<1>2. r \in Task /\ r.ids = S
  BY <1>1 DEF Task
<1>3. Agree(r, task[c], {"ids"})
  BY <1>1 DEF Task, Agree
<1>4. task' = [task EXCEPT ![c] = r]
  OBVIOUS
<1> HIDE DEF r
<1> QED BY <1>2, <1>3, <1>4, Altered

LEMMA JobsFacts ==
  ASSUME task \in [Callers -> Task], NEW c \in Callers,
         NEW q \in PCs, NEW S \in SUBSET Message,
         task' = [task EXCEPT ![c].pc = q, ![c].jobs = S]
  PROVE  /\ Alters(c, {"pc", "jobs"})
         /\ task'[c].pc = q /\ task'[c].jobs = S
<1> DEFINE r == [task[c] EXCEPT !.pc = q, !.jobs = S]
<1>1. task[c] \in Task
  OBVIOUS
<1>2. r \in Task /\ r.pc = q /\ r.jobs = S
  BY <1>1 DEF Task
<1>3. Agree(r, task[c], {"pc", "jobs"})
  BY <1>1 DEF Task, Agree
<1>4. task' = [task EXCEPT ![c] = r]
  OBVIOUS
<1> HIDE DEF r
<1> QED BY <1>2, <1>3, <1>4, Altered

LEMMA TakeFacts ==
  ASSUME task \in [Callers -> Task], NEW c \in Callers,
         NEW S \in SUBSET Message, NEW B \in SUBSET Message,
         task' = [task EXCEPT ![c].jobs = S, ![c].busy = B]
  PROVE  /\ Alters(c, {"jobs", "busy"})
         /\ task'[c].jobs = S /\ task'[c].busy = B
<1> DEFINE r == [task[c] EXCEPT !.jobs = S, !.busy = B]
<1>1. task[c] \in Task
  OBVIOUS
<1>2. r \in Task /\ r.jobs = S /\ r.busy = B
  BY <1>1 DEF Task
<1>3. Agree(r, task[c], {"jobs", "busy"})
  BY <1>1 DEF Task, Agree
<1>4. task' = [task EXCEPT ![c] = r]
  OBVIOUS
<1> HIDE DEF r
<1> QED BY <1>2, <1>3, <1>4, Altered

LEMMA DoneFacts ==
  ASSUME task \in [Callers -> Task], NEW c \in Callers,
         NEW S \in SUBSET Message, NEW D \in SUBSET Nat, NEW b \in BOOLEAN,
         task' = [task EXCEPT ![c].busy = S, ![c].done = D, ![c].sound = b]
  PROVE  /\ Alters(c, {"busy", "done", "sound"})
         /\ task'[c].busy = S /\ task'[c].done = D /\ task'[c].sound = b
<1> DEFINE r == [task[c] EXCEPT !.busy = S, !.done = D, !.sound = b]
<1>1. task[c] \in Task
  OBVIOUS
<1>2. r \in Task /\ r.busy = S /\ r.done = D /\ r.sound = b
  BY <1>1 DEF Task
<1>3. Agree(r, task[c], {"busy", "done", "sound"})
  BY <1>1 DEF Task, Agree
<1>4. task' = [task EXCEPT ![c] = r]
  OBVIOUS
<1> HIDE DEF r
<1> QED BY <1>2, <1>3, <1>4, Altered

(* The state of the syncs: types, and numbers that exist.                  *)
Statuses == {"idle", "running", "completed", "failed"}
SyncShape ==
  /\ rows \subseteq Message /\ ref \in [Message -> Nat]
  /\ live \in [Message -> [pc : {"none", "post", "ref"}, post : Nat]]
  /\ contacts \subseteq Chats /\ inboxes \subseteq Chats /\ conv \in [Chats -> Nat]
  /\ era \in Nat \ {0} /\ posts \in Seq(Post) /\ kept \subseteq PostIds /\ dated \subseteq PostIds
  /\ status \in Statuses
  /\ task \in [Callers -> Task] /\ reset \in {"off", "conversations", "links", "contacts"}
  /\ spent \in [DOMAIN Budget -> Nat] /\ rounds \in [Message -> Nat]

RowsRight ==
  \A m \in Message :
    /\ ref[m] \in {0} \cup PostIds /\ live[m].post \in {0} \cup PostIds
    /\ ref[m] # 0 => posts[ref[m]].msg = m
    /\ live[m].pc = "ref" => live[m].post # 0
    /\ live[m].post # 0 => posts[live[m].post].msg = m
ConvsRight ==
  /\ \A x \in Chats : conv[x] \in 0 .. era
  /\ \A p \in PostIds : posts[p].conv \in 1 .. era
TaskRight(c) ==
  /\ \A z \in task[c].chats : z[2] \in 1 .. era
  /\ \A z \in task[c].ids : z[2] \in PostIds /\ posts[z[2]].msg = z[1]
  /\ task[c].done \subseteq PostIds
PoolRight(c) ==
  \A m \in task[c].jobs \cup task[c].busy :
    task[c].pc = "media" /\ \E z \in task[c].chats : z[1] = ChatOf[m]
PoolsRight == \A c \in Callers : PoolRight(c)
TasksRight == \A c \in Callers : TaskRight(c)
SpentRight ==
  /\ \A k \in DOMAIN Budget : spent[k] \in 0 .. Budget[k]
  /\ era <= spent.resets + 1 /\ (reset = "conversations" => era <= spent.resets)
SyncBase ==
  SyncShape /\ RowsRight /\ ConvsRight /\ TasksRight /\ PoolsRight /\ SpentRight

Grows ==
  /\ posts' \in Seq(Post) /\ Len(posts) <= Len(posts')
  /\ \A p \in PostIds : posts'[p] = posts[p]

LEMMA Budgets == DOMAIN Budget = {"syncs", "resets", "crashes"} /\ Budget.resets = MaxResets
                 /\ \A k \in DOMAIN Budget : Budget[k] \in Nat
BY ChatSyncAssumption DEF Budget

LEMMA Stands == ASSUME SyncShape, posts' = posts PROVE Grows
BY DEF SyncShape, Grows

LEMMA RowsStay ==
  ASSUME SyncShape, RowsRight, Grows, UNCHANGED <<ref, live>>
  PROVE  RowsRight'
<1> SUFFICES ASSUME NEW m \in Message
    PROVE  /\ ref[m] \in {0} \cup PostIds' /\ live[m].post \in {0} \cup PostIds'
           /\ ref[m] # 0 => posts'[ref[m]].msg = m
           /\ live[m].pc = "ref" => live[m].post # 0
           /\ live[m].post # 0 => posts'[live[m].post].msg = m
  BY DEF RowsRight
<1>1. ref[m] \in Nat /\ live[m].post \in Nat /\ Len(posts) \in Nat /\ Len(posts') \in Nat
  BY DEF SyncShape, Grows
<1> QED BY <1>1 DEF RowsRight, Grows, PostIds

LEMMA TasksStay ==
  ASSUME SyncShape, TasksRight, Grows, era' \in Nat, era <= era', task' \in [Callers -> Task],
         \A c \in Callers : Agree(task'[c], task[c], {"pc", "type", "read", "wanted", "batch",
                                                      "jobs", "busy", "sound"})
  PROVE  TasksRight'
<1> SUFFICES ASSUME NEW c \in Callers
    PROVE  /\ \A z \in task'[c].chats : z[2] \in 1 .. era'
           /\ \A z \in task'[c].ids : z[2] \in PostIds' /\ posts'[z[2]].msg = z[1]
           /\ task'[c].done \subseteq PostIds'
  BY DEF TasksRight, TaskRight
<1>1. task'[c].chats = task[c].chats /\ task'[c].ids = task[c].ids /\ task'[c].done = task[c].done
  BY DEF Agree
<1>2. Len(posts) \in Nat /\ Len(posts') \in Nat /\ era \in Nat
  BY DEF SyncShape, Grows
<1>3. PostIds \subseteq PostIds' /\ 1 .. era \subseteq 1 .. era'
  BY <1>2 DEF Grows, PostIds
<1> QED BY <1>1, <1>3 DEF TasksRight, TaskRight, Grows

(* A step that changes the syncs, what Chatwoot has beside the posts, and  *)
(* counters.                                                               *)
LEMMA SyncStep ==
  ASSUME SyncBase, UNCHANGED <<rows, ref, live, era, posts, kept, reset>>,
         contacts' \subseteq Chats, inboxes' \subseteq Chats, conv' \in [Chats -> Nat],
         \A x \in Chats : conv'[x] \in 0 .. era, dated' \subseteq PostIds,
         status' \in Statuses, task' \in [Callers -> Task], TasksRight',
         PoolsRight', spent' \in [DOMAIN Budget -> Nat], SpentRight',
         rounds' \in [Message -> Nat]
  PROVE  SyncBase'
<1>1. Grows
  BY Stands DEF SyncBase
<1>2. SyncShape'
  BY DEF SyncBase, SyncShape, PostIds
<1>3. RowsRight'
  BY <1>1, RowsStay DEF SyncBase
<1>4. ConvsRight'
  BY DEF SyncBase, ConvsRight, PostIds
<1> QED BY <1>2, <1>3, <1>4 DEF SyncBase

(* The same where only the syncs change.                                   *)
LEMMA TaskStep ==
  ASSUME SyncBase, UNCHANGED <<rows, ref, live, chatwoot, status, reset, spent, rounds>>,
         task' \in [Callers -> Task], TasksRight', PoolsRight'
  PROVE  SyncBase'
<1>1. SpentRight'
  BY DEF SyncBase, SpentRight, chatwoot
<1> QED BY <1>1, SyncStep DEF SyncBase, SyncShape, ConvsRight, chatwoot

LEMMA AltersStay ==
  ASSUME SyncBase, Grows, era' = era, NEW c \in Callers, NEW F, Alters(c, F),
         F \cap {"chats", "ids", "done"} = {}
  PROVE  TasksRight'
<1>1. ASSUME NEW d \in Callers
      PROVE  Agree(task'[d], task[d], {"pc", "type", "read", "wanted", "batch", "jobs", "busy",
                                       "sound"})
  BY DEF Alters, Agree
<1>2. era \in Nat
  BY DEF SyncBase, SyncShape
<1> QED BY <1>1, <1>2, TasksStay DEF SyncBase, Alters

LEMMA PoolsStay ==
  ASSUME SyncBase, NEW c \in Callers, NEW F, Alters(c, F), F \cap {"chats", "jobs", "busy"} = {},
         task[c].pc # "media" \/ task[c].jobs \cup task[c].busy = {} \/ task'[c].pc = task[c].pc
  PROVE  PoolsRight'
<1>1. PoolRight(c)'
  <2>1. /\ task'[c].chats = task[c].chats /\ task'[c].jobs = task[c].jobs
        /\ task'[c].busy = task[c].busy
    BY DEF Alters, Agree
  <2> QED BY <2>1 DEF SyncBase, PoolsRight, PoolRight
<1>2. ASSUME NEW d \in Callers, d # c PROVE PoolRight(d)'
  BY <1>2 DEF SyncBase, PoolsRight, PoolRight, Alters
<1> QED BY <1>1, <1>2 DEF PoolsRight

LEMMA PcStep ==
  ASSUME SyncBase, UNCHANGED <<rows, ref, live, chatwoot, status, reset, spent, rounds>>,
         NEW c \in Callers, NEW F, Alters(c, F),
         F \cap {"chats", "ids", "done", "jobs", "busy"} = {},
         task[c].pc # "media" \/ task[c].jobs \cup task[c].busy = {} \/ task'[c].pc = task[c].pc
  PROVE  SyncBase'
<1>1. Grows /\ era' = era
  BY Stands DEF SyncBase, chatwoot
<1>2. TasksRight' /\ task' \in [Callers -> Task]
  BY <1>1, AltersStay DEF Alters
<1>3. PoolsRight'
  BY PoolsStay
<1> QED BY <1>2, <1>3, TaskStep

LEMMA MappedIs ==
  ASSUME SyncBase, NEW S \in SUBSET Chats
  PROVE  /\ Mapped(S) \in SUBSET (Chats \X Nat)
         /\ \A z \in Mapped(S) : z[1] \in S \cap contacts /\ z[2] = conv[z[1]] /\ z[2] \in 1 .. era
         /\ \A x \in S \cap contacts : conv[x] # 0 => <<x, conv[x]>> \in Mapped(S)
<1>1. ASSUME NEW x \in S, conv[x] # 0
      PROVE  conv[x] \in 1 .. era /\ conv[x] \in Nat
  BY <1>1 DEF SyncBase, SyncShape, ConvsRight
<1> QED BY <1>1 DEF Mapped

LEMMA NeededIs ==
  ASSUME SyncShape, NEW c \in Callers
  PROVE  Needed(c) \in SUBSET Chats
<1>1. task[c] \in Task
  BY DEF SyncShape
<1> QED BY <1>1 DEF Needed, Chats, Task

LEMMA IdsAre ==
  ASSUME SyncShape, NEW B \in SUBSET Message
  PROVE  /\ Ids(B) \in SUBSET (Message \X Nat)
         /\ \A z \in Ids(B) : z[2] \in PostIds /\ posts[z[2]].msg = z[1]
<1>1. kept \subseteq PostIds /\ PostIds \subseteq Nat
  BY DEF SyncShape, PostIds
<1> QED BY <1>1 DEF Ids

LEMMA SpendsIs ==
  ASSUME SyncBase, NEW k \in DOMAIN Budget, Spends(k)
  PROVE  /\ spent' \in [DOMAIN Budget -> Nat]
         /\ \A l \in DOMAIN Budget : spent'[l] \in 0 .. Budget[l] /\ spent[l] <= spent'[l]
         /\ spent'[k] = spent[k] + 1 /\ \A l \in DOMAIN Budget : l # k => spent'[l] = spent[l]
<1>1. spent[k] < Budget[k] /\ spent' = [spent EXCEPT ![k] = spent[k] + 1]
  BY DEF Spends
<1>2. \A l \in DOMAIN Budget : Budget[l] \in Nat /\ spent[l] \in Nat /\ spent[l] \in 0 .. Budget[l]
  BY Budgets DEF SyncBase, SyncShape, SpentRight
<1>3. spent \in [DOMAIN Budget -> Nat]
  BY DEF SyncBase, SyncShape
<1> QED BY <1>1, <1>2, <1>3

LEMMA SpendsBase ==
  ASSUME SyncBase, NEW k \in DOMAIN Budget \ {"resets"}, Spends(k), era' = era, reset' = reset
  PROVE  spent' \in [DOMAIN Budget -> Nat] /\ SpentRight'
BY SpendsIs, Budgets DEF SyncBase, SpentRight

LEMMA OffIs == Off \in Task /\ Off.pc = "off" /\ Off.chats = {} /\ Off.ids = {} /\ Off.done = {}
               /\ Off.jobs = {} /\ Off.busy = {}
BY DEF Off, Task, PCs, SyncTypes

LEMMA CheckBase == ASSUME SyncBase, NEW c \in Callers, Check(c) PROVE SyncBase'
<1>1. PICK t \in SyncTypes : task' = [task EXCEPT ![c] = [Off EXCEPT !.pc = "set", !.type = t]]
  BY DEF Check
<1> DEFINE r == [Off EXCEPT !.pc = "set", !.type = t]
<1>2. r \in Task /\ r.chats = {} /\ r.ids = {} /\ r.done = {}
      /\ r.jobs = {} /\ r.busy = {}
  BY OffIs DEF Task, PCs
<1>3. task' = [task EXCEPT ![c] = r]
  BY <1>1
<1> HIDE DEF r
<1>4. task' \in [Callers -> Task] /\ task'[c] = r /\ \A d \in Callers : d # c => task'[d] = task[d]
  BY <1>2, <1>3 DEF SyncBase, SyncShape
<1>5. UNCHANGED <<rows, ref, live, chatwoot, status, reset, rounds>> /\ Spends("syncs")
  BY DEF Check
<1>6. TasksRight'
  BY <1>2, <1>4, <1>5 DEF SyncBase, TasksRight, TaskRight, chatwoot, PostIds
<1>7. spent' \in [DOMAIN Budget -> Nat] /\ SpentRight'
  BY <1>5, SpendsBase, Budgets DEF chatwoot
<1>8. PoolsRight'
  BY <1>2, <1>4 DEF SyncBase, PoolsRight, PoolRight
<1> QED BY <1>4, <1>5, <1>6, <1>7, <1>8, SyncStep DEF SyncBase, SyncShape, ConvsRight, chatwoot

LEMMA StartBase == ASSUME SyncBase, NEW c \in Callers, Start(c) PROVE SyncBase'
<1> DEFINE q == CASE task[c].type = "all" -> "inbox"
               [] task[c].type = "contacts" -> "contacts"
               [] OTHER -> "read"
<1>1. q \in PCs /\ task' = [task EXCEPT ![c].pc = q] /\ status' \in Statuses
  BY DEF PCs, Start, GoesTo, Statuses
<1> HIDE DEF q
<1>2. Alters(c, {"pc"})
  BY <1>1, GoesFacts DEF SyncBase, SyncShape
<1>3. Grows /\ era' = era
  BY Stands DEF SyncBase, Start, chatwoot
<1>4. TasksRight' /\ task' \in [Callers -> Task]
  BY <1>2, <1>3, AltersStay DEF Alters
<1>5. SpentRight'
  BY DEF SyncBase, SpentRight, Start, chatwoot
<1>6. PoolsRight'
  BY <1>2, PoolsStay DEF Start, At
<1> QED BY <1>1, <1>4, <1>5, <1>6, SyncStep DEF Start, SyncBase, SyncShape, ConvsRight, chatwoot

LEMMA ValidateBase == ASSUME SyncBase, NEW c \in Callers, ValidateInbox(c) PROVE SyncBase'
<1>0. task \in [Callers -> Task] /\ {"contacts", "fail"} \subseteq PCs
  BY DEF SyncBase, SyncShape, PCs
<1>1. CASE GoesTo(c, "contacts")
  <2>1. Alters(c, {"pc"})
    BY <1>0, <1>1, GoesFacts DEF GoesTo
  <2> QED BY <2>1, PcStep DEF ValidateInbox, At
<1>2. CASE Fails(c, "inbox")
  <2>1. Alters(c, {"pc", "sound"})
    BY <1>0, <1>2, FailFacts DEF Fails
  <2> QED BY <2>1, PcStep DEF ValidateInbox, At
<1> QED BY <1>1, <1>2 DEF ValidateInbox

LEMMA ReadBase == ASSUME SyncBase, NEW c \in Callers, ReadRows(c) PROVE SyncBase'
<1>0. task \in [Callers -> Task] /\ {"lookup", "done", "fail"} \subseteq PCs
      /\ rows \in SUBSET Message
  BY DEF SyncBase, SyncShape, PCs
<1>1. CASE task' = [task EXCEPT ![c].pc = "lookup", ![c].read = rows]
  <2>1. Alters(c, {"pc", "read"})
    BY <1>0, <1>1, ReadFacts
  <2> QED BY <2>1, PcStep DEF ReadRows, At
<1>2. CASE \E q \in {"done", "fail"} : task' = [task EXCEPT ![c].pc = q, ![c].sound = FALSE]
  <2>1. Alters(c, {"pc", "sound"})
    BY <1>0, <1>2, FailFacts
  <2> QED BY <2>1, PcStep DEF ReadRows, At
<1> QED BY <1>1, <1>2 DEF ReadRows, Fails

LEMMA FilterBase == ASSUME SyncBase, NEW c \in Callers, Filter(c) PROVE SyncBase'
<1>0. task \in [Callers -> Task] /\ {"create", "done"} \subseteq PCs
  BY DEF SyncBase, SyncShape, PCs
<1>1. PICK known :
        task' = [task EXCEPT ![c].wanted = task[c].read \ known,
                             ![c].pc = IF task[c].read \ known = {} THEN "done" ELSE "create"]
  BY DEF Filter
<1>2. task[c].read \ known \in SUBSET Message
  <2>1. task[c] \in Task
    BY <1>0
  <2> QED BY <2>1 DEF Task
<1>3. (IF task[c].read \ known = {} THEN "done" ELSE "create") \in PCs
  BY <1>0
<1>4. Alters(c, {"wanted", "pc"})
  BY <1>0, <1>1, <1>2, <1>3, FilterFacts
<1> QED BY <1>4, PcStep DEF Filter, At

LEMMA MessagesFailBase ==
  ASSUME SyncBase, NEW c \in Callers, MessagesFail(c), task[c].pc # "media",
         UNCHANGED <<rows, ref, live, chatwoot, status, reset, spent, rounds>>
  PROVE  SyncBase'
<1>1. (IF task[c].type = "all" THEN "done" ELSE "fail") \in PCs
  BY DEF PCs
<1>2. Alters(c, {"pc", "sound"})
  BY <1>1, FailFacts DEF SyncBase, SyncShape, MessagesFail
<1> QED BY <1>2, PcStep

(* The mapping of chats to conversations, as the statements return it.     *)
LEMMA MapStep ==
  ASSUME SyncBase, NEW c \in Callers, task[c].pc # "media",
         task' = [task EXCEPT ![c].pc = "text", ![c].chats = Mapped(Needed(c))],
         posts' = posts, era' = era
  PROVE  task' \in [Callers -> Task] /\ TasksRight' /\ PoolsRight'
<1>1. /\ Mapped(Needed(c)) \in SUBSET (Chats \X Nat)
      /\ \A z \in Mapped(Needed(c)) : z[2] \in 1 .. era
  BY MappedIs, NeededIs DEF SyncBase
<1>2. Alters(c, {"pc", "chats"}) /\ task'[c].chats = Mapped(Needed(c))
  <2>1. "text" \in PCs /\ task \in [Callers -> Task]
    BY DEF PCs, SyncBase, SyncShape
  <2> DEFINE S == Mapped(Needed(c))
  <2>2. S \in SUBSET (Chats \X Nat) /\ task' = [task EXCEPT ![c].pc = "text", ![c].chats = S]
    BY <1>1
  <2> HIDE DEF S
  <2>3. Alters(c, {"pc", "chats"}) /\ task'[c].chats = S
    BY <2>1, <2>2, MapFacts
  <2> QED BY <2>3 DEF S
<1>3. ASSUME NEW d \in Callers PROVE TaskRight(d)' /\ PoolRight(d)'
  <2>1. CASE d = c
    <3>1. /\ task'[c].ids = task[c].ids /\ task'[c].done = task[c].done
          /\ task'[c].jobs = task[c].jobs /\ task'[c].busy = task[c].busy
      BY <1>2 DEF Alters, Agree
    <3>2. TaskRight(c)'
      BY <1>1, <1>2, <3>1 DEF SyncBase, TasksRight, TaskRight, PostIds
    <3>3. PoolRight(c)'
      BY <3>1 DEF SyncBase, PoolsRight, PoolRight
    <3> QED BY <2>1, <3>2, <3>3
  <2>2. CASE d # c
    BY <1>2, <2>2 DEF Alters, SyncBase, TasksRight, TaskRight, PoolsRight, PoolRight, PostIds
  <2> QED BY <2>1, <2>2
<1> QED BY <1>2, <1>3 DEF TasksRight, PoolsRight, Alters

LEMMA QueryBase == ASSUME SyncBase, NEW c \in Callers, QueryFKs(c) PROVE SyncBase'
<1>0. /\ task[c].pc # "media" /\ posts' = posts /\ era' = era
      /\ UNCHANGED <<rows, ref, live, chatwoot, status, reset, spent, rounds>>
  BY DEF QueryFKs, At, chatwoot
<1>1. CASE task' = [task EXCEPT ![c].pc = "text", ![c].chats = Mapped(Needed(c))]
  BY <1>0, <1>1, MapStep, TaskStep
<1>2. CASE MessagesFail(c)
  BY <1>0, <1>2, MessagesFailBase
<1> QED BY <1>1, <1>2 DEF QueryFKs

(* The contacts, inboxes and conversations the statements make.            *)
LEMMA ChatStep ==
  ASSUME SyncBase, NEW c \in Callers, UNCHANGED <<rows, ref, live, era, posts, kept, dated,
                                                  status, reset, spent, rounds>>,
         contacts' \subseteq Chats, inboxes' \subseteq Chats,
         conv' = conv \/ \E S : conv' = [x \in Chats |-> IF x \in S /\ conv[x] = 0
                                                         THEN era ELSE conv[x]],
         task' \in [Callers -> Task], TasksRight', PoolsRight'
  PROVE  SyncBase'
<1>1. conv \in [Chats -> Nat] /\ era \in Nat \ {0} /\ \A x \in Chats : conv[x] \in 0 .. era
  BY DEF SyncBase, SyncShape, ConvsRight
<1>2. conv' \in [Chats -> Nat] /\ \A x \in Chats : conv'[x] \in 0 .. era
  BY <1>1
<1>3. SpentRight' /\ dated' \subseteq PostIds /\ status' \in Statuses
      /\ spent' \in [DOMAIN Budget -> Nat] /\ rounds' \in [Message -> Nat]
  BY DEF SyncBase, SpentRight, SyncShape
<1> QED BY <1>2, <1>3, SyncStep

LEMMA GoesChatStep ==
  ASSUME SyncBase, NEW c \in Callers, NEW q \in PCs, GoesTo(c, q), task[c].pc # "media",
         UNCHANGED <<rows, ref, live, era, posts, kept, dated, status, reset, spent, rounds>>,
         contacts' \subseteq Chats, inboxes' \subseteq Chats,
         conv' = conv \/ \E S : conv' = [x \in Chats |-> IF x \in S /\ conv[x] = 0
                                                         THEN era ELSE conv[x]]
  PROVE  SyncBase'
<1>1. Alters(c, {"pc"})
  BY GoesFacts DEF GoesTo, SyncBase, SyncShape
<1>2. Grows
  BY Stands DEF SyncBase
<1>3. task' \in [Callers -> Task] /\ TasksRight' /\ PoolsRight'
  BY <1>1, <1>2, AltersStay, PoolsStay DEF Alters
<1> QED BY <1>3, ChatStep

LEMMA CreateBase == ASSUME SyncBase, NEW c \in Callers, Create(c) PROVE SyncBase'
<1>0. Needed(c) \in SUBSET Chats /\ contacts \in SUBSET Chats /\ inboxes \in SUBSET Chats
      /\ {"upsert", "link", "converse", "query"} \subseteq PCs
  BY NeededIs DEF SyncBase, SyncShape, PCs
<1>1. CASE CreateOptimized(c)
  <2>1. /\ task[c].pc # "media"
        /\ UNCHANGED <<rows, ref, live, era, posts, kept, dated, status, reset, spent, rounds>>
    BY <1>1 DEF CreateOptimized, At
  <2>2. CASE /\ contacts' = contacts \cup Needed(c)
             /\ inboxes' = inboxes \cup Needed(c)
             /\ conv' = [x \in Chats |-> IF x \in Needed(c) \cap inboxes /\ conv[x] = 0
                                         THEN era ELSE conv[x]]
             /\ task' = [task EXCEPT ![c].pc = "text", ![c].chats = Mapped(Needed(c))]
    <3>1. task' \in [Callers -> Task] /\ TasksRight' /\ PoolsRight'
      BY <2>1, <2>2, MapStep
    <3> QED BY <1>0, <2>1, <2>2, <3>1, ChatStep
  <2>3. CASE GoesTo(c, "upsert") /\ UNCHANGED <<contacts, inboxes, conv>>
    BY <1>0, <2>1, <2>3, GoesChatStep
  <2> QED BY <1>1, <2>2, <2>3 DEF CreateOptimized
<1>2. CASE UpsertContacts(c)
  <2>1. CASE contacts' = contacts \cup Needed(c) /\ GoesTo(c, "link")
    BY <1>0, <1>2, <2>1, GoesChatStep DEF UpsertContacts, At
  <2>2. CASE MessagesFail(c) /\ UNCHANGED contacts
    BY <1>2, <2>2, MessagesFailBase DEF UpsertContacts, At, chatwoot
  <2> QED BY <1>2, <2>1, <2>2 DEF UpsertContacts
<1>3. CASE CreateInboxes(c)
  <2>1. CASE inboxes' = inboxes \cup (Needed(c) \cap contacts) /\ GoesTo(c, "converse")
    BY <1>0, <1>3, <2>1, GoesChatStep DEF CreateInboxes, At
  <2>2. CASE MessagesFail(c) /\ UNCHANGED inboxes
    BY <1>3, <2>2, MessagesFailBase DEF CreateInboxes, At, chatwoot
  <2> QED BY <1>3, <2>1, <2>2 DEF CreateInboxes
<1>4. CASE CreateConversations(c)
  <2>1. CASE /\ conv' = [x \in Chats |-> IF x \in Needed(c) \cap inboxes /\ conv[x] = 0
                                         THEN era ELSE conv[x]]
             /\ GoesTo(c, "query")
    BY <1>0, <1>4, <2>1, GoesChatStep DEF CreateConversations, At
  <2>2. CASE MessagesFail(c) /\ UNCHANGED conv
    BY <1>4, <2>2, MessagesFailBase DEF CreateConversations, At, chatwoot
  <2> QED BY <1>4, <2>1, <2>2 DEF CreateConversations
<1>5. CASE QueryFKs(c)
  BY <1>5, QueryBase
<1> QED BY <1>1, <1>2, <1>3, <1>4, <1>5 DEF Create

LEMMA ContactsBase == ASSUME SyncBase, NEW c \in Callers, SyncContacts(c) PROVE SyncBase'
<1> DEFINE q == IF task[c].type = "all" THEN "read" ELSE "done"
<1>1. q \in PCs /\ GoesTo(c, q)
  BY DEF PCs, SyncContacts
<1> HIDE DEF q
<1>2. contacts' \subseteq Chats /\ inboxes' \subseteq Chats
  BY ChatSyncAssumption DEF SyncContacts, SyncBase, SyncShape
<1> QED BY <1>1, <1>2, GoesChatStep DEF SyncContacts, At

(* Steps that post.                                                        *)
LEMMA GrowsBy ==
  ASSUME SyncShape, NEW a \in Seq(Post), posts' = posts \o a
  PROVE  /\ Grows /\ Len(a) \in Nat /\ Len(posts) \in Nat /\ Len(posts') = Len(posts) + Len(a)
         /\ \A p \in PostIds' \ PostIds : p - Len(posts) \in 1 .. Len(a)
                                          /\ posts'[p] = a[p - Len(posts)]
<1>1. posts \in Seq(Post)
  BY DEF SyncShape
<1>2. /\ posts' \in Seq(Post) /\ Len(posts') = Len(posts) + Len(a)
      /\ \A p \in 1 .. Len(posts) : posts'[p] = posts[p]
      /\ \A p \in Len(posts) + 1 .. Len(posts) + Len(a) : posts'[p] = a[p - Len(posts)]
  BY <1>1
<1>3. Len(posts) \in Nat /\ Len(a) \in Nat
  BY <1>1
<1> QED BY <1>2, <1>3 DEF Grows, PostIds

LEMMA PostBase ==
  ASSUME SyncBase, Grows, UNCHANGED <<rows, ref, era, status, reset, spent, rounds>>,
         \A p \in PostIds' \ PostIds : posts'[p].conv \in 1 .. era,
         contacts' \subseteq Chats, inboxes' \subseteq Chats, conv' \in [Chats -> Nat],
         \A x \in Chats : conv'[x] \in 0 .. era, kept' \subseteq PostIds', dated' \subseteq PostIds',
         live' \in [Message -> [pc : {"none", "post", "ref"}, post : Nat]], RowsRight',
         task' \in [Callers -> Task], TasksRight', PoolsRight'
  PROVE  SyncBase'
<1>1. SyncShape'
  BY DEF SyncBase, SyncShape, Grows
<1>2. ConvsRight'
  <2>1. \A p \in PostIds' : posts'[p].conv \in 1 .. era
    BY DEF SyncBase, ConvsRight, Grows
  <2> QED BY <2>1 DEF ConvsRight
<1>3. SpentRight'
  BY DEF SyncBase, SpentRight
<1> QED BY <1>1, <1>2, <1>3 DEF SyncBase

LEMMA ConvOfIs ==
  ASSUME SyncBase, NEW c \in Callers, NEW m, \E z \in task[c].chats : z[1] = ChatOf[m]
  PROVE  ConvOf(c, m) \in 1 .. era /\ ConvOf(c, m) \in Nat
<1> DEFINE z == CHOOSE x \in task[c].chats : x[1] = ChatOf[m]
<1>1. z \in task[c].chats
  OBVIOUS
<1> HIDE DEF z
<1>2. z[2] \in 1 .. era
  BY <1>1 DEF SyncBase, TasksRight, TaskRight
<1>3. ConvOf(c, m) = z[2]
  BY DEF ConvOf, z
<1>4. era \in Nat
  BY DEF SyncBase, SyncShape
<1> QED BY <1>2, <1>3, <1>4

LEMMA HasConvIs ==
  ASSUME SyncBase, NEW c \in Callers
  PROVE  /\ HasConv(c) \in SUBSET Message /\ Texts(c) \in SUBSET Message
         /\ \A m \in HasConv(c) : ConvOf(c, m) \in 1 .. era /\ ConvOf(c, m) \in Nat
         /\ \A m \in HasConv(c) : \E z \in task[c].chats : z[1] = ChatOf[m]
<1>1. task[c] \in Task
  BY DEF SyncBase, SyncShape
<1>2. HasConv(c) \in SUBSET Message
  BY <1>1 DEF HasConv, Task
<1>3. \A m \in HasConv(c) : \E z \in task[c].chats : z[1] = ChatOf[m]
  BY DEF HasConv
<1> QED BY <1>2, <1>3, ConvOfIs DEF Texts

(* The new posts have all these messages.                                  *)
NewPosts(M) == \A m \in M : \E p \in Len(posts) + 1 .. Len(posts') : posts'[p].msg = m

(* What a batch of texts posts: each of its texts once, in conversations   *)
(* that there are.                                                         *)
LEMMA InsertIs ==
  ASSUME SyncBase, NEW c \in Callers, NEW batch, batch = NextBatch(Texts(c)),
         posts' = posts \o [i \in DOMAIN batch |-> [msg |-> batch[i], conv |-> ConvOf(c, batch[i])]]
  PROVE  /\ Grows /\ \A p \in PostIds' \ PostIds : posts'[p].conv \in 1 .. era
         /\ SetOf(batch) \in SUBSET Texts(c)
         /\ \A p \in PostIds' \ PostIds : posts'[p].msg \in SetOf(batch)
         /\ NewPosts(SetOf(batch))
         /\ \A p, q \in PostIds' \ PostIds : posts'[p].msg = posts'[q].msg => p = q
<1>1. batch \in Seq(Texts(c)) /\ \A i, j \in DOMAIN batch : batch[i] = batch[j] => i = j
  BY BatchBegins, HasConvIs
<1>2. /\ Texts(c) \in SUBSET Message
      /\ \A m \in Texts(c) : ConvOf(c, m) \in 1 .. era /\ ConvOf(c, m) \in Nat
  BY HasConvIs DEF Texts
<1>3. DOMAIN batch = 1 .. Len(batch) /\ Len(batch) \in Nat
      /\ \A i \in DOMAIN batch : batch[i] \in Texts(c)
  BY <1>1
<1> DEFINE a == [i \in DOMAIN batch |-> [msg |-> batch[i], conv |-> ConvOf(c, batch[i])]]
<1>4. a \in Seq(Post) /\ Len(a) = Len(batch)
      /\ \A i \in 1 .. Len(a) : a[i].msg = batch[i] /\ a[i].conv = ConvOf(c, batch[i])
  <2>1. \A i \in DOMAIN batch : [msg |-> batch[i], conv |-> ConvOf(c, batch[i])] \in Post
    BY <1>2, <1>3 DEF Post
  <2>2. a \in Seq(Post) /\ Len(a) = Len(batch)
    BY <1>3, <2>1
  <2> QED BY <1>3, <2>2
<1> HIDE DEF a
<1>5. posts' = posts \o a
  BY DEF a
<1>6. /\ Grows /\ Len(posts) \in Nat
      /\ \A p \in PostIds' \ PostIds : p - Len(posts) \in 1 .. Len(a)
                                       /\ posts'[p] = a[p - Len(posts)]
  BY <1>4, <1>5, GrowsBy DEF SyncBase
<1>7. ASSUME NEW p \in PostIds' \ PostIds
      PROVE  /\ posts'[p].conv \in 1 .. era /\ posts'[p].msg \in SetOf(batch)
             /\ posts'[p].msg = batch[p - Len(posts)] /\ p - Len(posts) \in DOMAIN batch
  <2>1. p - Len(posts) \in DOMAIN batch /\ posts'[p] = a[p - Len(posts)]
    BY <1>3, <1>4, <1>6
  <2>2. posts'[p].msg = batch[p - Len(posts)] /\ posts'[p].conv = ConvOf(c, batch[p - Len(posts)])
    BY <1>3, <1>4, <2>1
  <2> QED BY <1>2, <1>3, <2>1, <2>2 DEF SetOf
<1>8. ASSUME NEW p \in PostIds' \ PostIds, NEW q \in PostIds' \ PostIds,
             posts'[p].msg = posts'[q].msg
      PROVE  p = q
  <2>1. p - Len(posts) = q - Len(posts)
    BY <1>1, <1>7, <1>8
  <2>2. p \in Nat /\ q \in Nat
    BY DEF PostIds
  <2> QED BY <1>6, <2>1, <2>2
<1>9. SetOf(batch) \in SUBSET Texts(c)
  BY <1>3 DEF SetOf
<1>10. ASSUME NEW m \in SetOf(batch)
       PROVE  \E p \in Len(posts) + 1 .. Len(posts') : posts'[p].msg = m
  <2>1. PICK i \in DOMAIN batch : batch[i] = m
    BY DEF SetOf
  <2>2. /\ Len(posts') = Len(posts) + Len(a) /\ i \in 1 .. Len(a) /\ Len(a) \in Nat
        /\ Len(posts) \in Nat
    BY <1>3, <1>4, <1>5, <1>6, GrowsBy DEF SyncBase
  <2>3. /\ Len(posts) + i \in Len(posts) + 1 .. Len(posts')
        /\ Len(posts) + i \in PostIds' \ PostIds /\ (Len(posts) + i) - Len(posts) = i
    BY <2>2 DEF PostIds
  <2>4. posts'[Len(posts) + i].msg = batch[i]
    BY <1>7, <2>3
  <2> QED BY <2>1, <2>3, <2>4
<1> QED BY <1>6, <1>7, <1>8, <1>9, <1>10 DEF NewPosts

LEMMA GrownNumbers == ASSUME SyncBase, Grows PROVE PostIds \subseteq PostIds' /\ PostIds' \subseteq Nat
<1>1. Len(posts) \in Nat /\ Len(posts') \in Nat
  BY DEF SyncBase, SyncShape, Grows
<1> QED BY <1>1 DEF PostIds, Grows

LEMMA InsertBase == ASSUME SyncBase, NEW c \in Callers, InsertTexts(c) PROVE SyncBase'
<1> DEFINE batch == NextBatch(Texts(c))
           rest == task[c].wanted \ SetOf(batch)
<1>1. task[c].pc # "media" /\ task \in [Callers -> Task] /\ {"ids", "text"} \subseteq PCs
  BY DEF InsertTexts, At, SyncBase, SyncShape, PCs
<1>2. rest \in SUBSET Message
  <2>1. task[c] \in Task
    BY <1>1
  <2> QED BY <2>1 DEF Task
<1>3. CASE /\ posts' = posts \o [i \in DOMAIN batch |->
                                   [msg |-> batch[i], conv |-> ConvOf(c, batch[i])]]
           /\ kept' = kept \cup (Len(posts) + 1 .. Len(posts'))
           /\ dated' = dated \cup (Len(posts) + 1 .. Len(posts'))
           /\ task' = [task EXCEPT ![c].pc = "ids", ![c].wanted = rest,
                                   ![c].batch = SetOf(batch)]
  <2> HIDE DEF rest
  <2> HIDE DEF batch
  <2>1. /\ batch = NextBatch(Texts(c))
        /\ posts' = posts \o [i \in DOMAIN batch |->
                                [msg |-> batch[i], conv |-> ConvOf(c, batch[i])]]
    BY <1>3 DEF batch
  <2>2. /\ Grows /\ SetOf(batch) \in SUBSET Texts(c)
        /\ \A p \in PostIds' \ PostIds : posts'[p].conv \in 1 .. era
    <3>1. Grows
      BY <2>1, InsertIs
    <3>2. SetOf(batch) \in SUBSET Texts(c)
      BY <2>1, InsertIs
    <3>3. \A p \in PostIds' \ PostIds : posts'[p].conv \in 1 .. era
      BY <2>1, InsertIs
    <3> QED BY <3>1, <3>2, <3>3
  <2>3. SetOf(batch) \in SUBSET Message
    BY <2>2, HasConvIs
  <2>4. Alters(c, {"pc", "wanted", "batch"})
    BY <1>1, <1>2, <1>3, <2>3, InsertFacts
  <2>5. UNCHANGED <<rows, ref, live, contacts, inboxes, conv, era, status, reset, spent, rounds>>
    BY DEF InsertTexts
  <2>6. task' \in [Callers -> Task] /\ TasksRight' /\ PoolsRight'
    BY <1>1, <2>2, <2>4, <2>5, AltersStay, PoolsStay DEF Alters
  <2>7. kept' \subseteq PostIds' /\ dated' \subseteq PostIds'
    <3>1. Len(posts) \in Nat /\ Len(posts') \in Nat /\ kept \subseteq PostIds /\ dated \subseteq PostIds
      BY <2>2 DEF SyncBase, SyncShape, Grows
    <3>2. Len(posts) + 1 .. Len(posts') \subseteq PostIds'
      BY <3>1 DEF PostIds
    <3> QED BY <1>3, <2>2, <3>1, <3>2, GrownNumbers
  <2>8. RowsRight'
    BY <2>2, <2>5, RowsStay DEF SyncBase
  <2> QED BY <2>2, <2>5, <2>6, <2>7, <2>8, PostBase DEF SyncBase, SyncShape, ConvsRight
<1>4. CASE /\ task' = [task EXCEPT ![c].wanted = rest, ![c].sound = FALSE]
           /\ UNCHANGED <<posts, kept, dated>>
  <2> HIDE DEF rest
  <2>1. Alters(c, {"wanted", "sound"})
    BY <1>1, <1>2, <1>4, SkipFacts
  <2> QED BY <1>1, <1>4, <2>1, PcStep DEF InsertTexts, chatwoot
<1> QED BY <1>3, <1>4 DEF InsertTexts

LEMMA LookUpBase == ASSUME SyncBase, NEW c \in Callers, LookUpIds(c) PROVE SyncBase'
<1>0. /\ task[c].pc # "media" /\ task \in [Callers -> Task] /\ {"record", "text"} \subseteq PCs
      /\ UNCHANGED <<rows, ref, live, chatwoot, status, reset, spent, rounds>>
  BY DEF LookUpIds, At, SyncBase, SyncShape, PCs
<1>1. CASE task' = [task EXCEPT ![c].pc = "record", ![c].ids = Ids(task[c].batch)]
  <2>1. task[c].batch \in SUBSET Message
    <3>1. task[c] \in Task
      BY <1>0
    <3> QED BY <3>1 DEF Task
  <2> DEFINE S == Ids(task[c].batch)
  <2>2. S \in SUBSET (Message \X Nat) /\ \A z \in S : z[2] \in PostIds /\ posts[z[2]].msg = z[1]
    BY <2>1, IdsAre DEF SyncBase
  <2>3. task' = [task EXCEPT ![c].pc = "record", ![c].ids = S]
    BY <1>1
  <2> HIDE DEF S
  <2>4. Alters(c, {"pc", "ids"}) /\ task'[c].ids = S
    BY ZenonT(60), <1>0, <2>2, <2>3, IdsFacts
  <2>5. ASSUME NEW d \in Callers PROVE TaskRight(d)'
    <3>1. posts' = posts /\ era' = era
      BY <1>0 DEF chatwoot
    <3>2. CASE d = c
      <4>1. task'[c].chats = task[c].chats /\ task'[c].done = task[c].done
        BY <2>4 DEF Alters, Agree
      <4> QED BY <2>2, <2>4, <3>1, <3>2, <4>1 DEF SyncBase, TasksRight, TaskRight, PostIds
    <3>3. CASE d # c
      BY <2>4, <3>1, <3>3 DEF Alters, SyncBase, TasksRight, TaskRight, PostIds
    <3> QED BY <3>2, <3>3
  <2>6. PoolsRight'
    BY <1>0, <2>4, PoolsStay
  <2> QED BY <1>0, <2>4, <2>5, <2>6, TaskStep DEF TasksRight, Alters
<1>2. CASE task' = [task EXCEPT ![c].pc = "text", ![c].batch = {}]
  <2>1. Alters(c, {"pc", "batch"})
    BY <1>0, <1>2, BackFacts
  <2> QED BY <1>0, <2>1, PcStep
<1> QED BY <1>1, <1>2 DEF LookUpIds

LEMMA RecordBase == ASSUME SyncBase, NEW c \in Callers, Record(c) PROVE SyncBase'
<1>0. /\ task[c].pc # "media" /\ task \in [Callers -> Task] /\ task[c] \in Task
      /\ UNCHANGED <<rows, live, chatwoot, status, reset, spent, rounds>>
      /\ posts' = posts /\ era' = era
  BY DEF Record, At, SyncBase, SyncShape, chatwoot
<1>1. PICK x \in task[c].ids :
        ref' = [ref EXCEPT ![x[1]] = x[2]]
        /\ task' = [task EXCEPT ![c].ids = {y \in task[c].ids : y[1] # x[1]}]
  BY DEF Record
<1> DEFINE S == {y \in task[c].ids : y[1] # x[1]}
<1>2. S \in SUBSET (Message \X Nat) /\ S \subseteq task[c].ids
  BY <1>0 DEF Task
<1>3. x[1] \in Message /\ x[2] \in Nat
  BY <1>0 DEF Task
<1>4. x[2] \in PostIds /\ posts[x[2]].msg = x[1]
  BY DEF SyncBase, TasksRight, TaskRight
<1>5. task' = [task EXCEPT ![c].ids = S]
  BY <1>1
<1> HIDE DEF S
<1>6. Alters(c, {"ids"}) /\ task'[c].ids = S
  BY <1>0, <1>2, <1>5, RecordFacts
<1>7. ASSUME NEW d \in Callers PROVE TaskRight(d)'
  <2>1. CASE d = c
    <3>1. task'[c].chats = task[c].chats /\ task'[c].done = task[c].done
      BY <1>6 DEF Alters, Agree
    <3> QED BY <1>0, <1>2, <1>6, <2>1, <3>1 DEF SyncBase, TasksRight, TaskRight, PostIds
  <2>2. CASE d # c
    BY <1>0, <1>6, <2>2 DEF Alters, SyncBase, TasksRight, TaskRight, PostIds
  <2> QED BY <2>1, <2>2
<1>8. PoolsRight'
  BY <1>0, <1>6, PoolsStay
<1>9. ref' \in [Message -> Nat] /\ RowsRight'
  BY <1>0, <1>1, <1>3, <1>4 DEF SyncBase, SyncShape, RowsRight, PostIds
<1>10. SyncShape'
  BY <1>0, <1>6, <1>9 DEF SyncBase, SyncShape, chatwoot, PostIds, Alters
<1>11. ConvsRight' /\ SpentRight'
  BY <1>0 DEF SyncBase, ConvsRight, SpentRight, chatwoot, PostIds
<1> QED BY <1>7, <1>8, <1>9, <1>10, <1>11 DEF SyncBase, TasksRight

LEMMA InsertAllBase == ASSUME SyncBase, NEW c \in Callers, InsertAll(c) PROVE SyncBase'
<1>0. task \in [Callers -> Task] /\ {"text", "media"} \subseteq PCs
  BY DEF SyncBase, SyncShape, PCs
<1>1. CASE InsertTexts(c) \/ LookUpIds(c) \/ Record(c)
  BY <1>1, InsertBase, LookUpBase, RecordBase
<1>2. CASE Recorded(c)
  <2>1. Alters(c, {"pc", "batch"})
    BY <1>0, <1>2, BackFacts DEF Recorded
  <2> QED BY <1>2, <2>1, PcStep DEF Recorded, At
<1>3. CASE TextsDone(c)
  <2>1. /\ HasConv(c) \in SUBSET Message
        /\ \A m \in HasConv(c) : \E z \in task[c].chats : z[1] = ChatOf[m]
    BY HasConvIs
  <2> DEFINE S == HasConv(c)
  <2>2. task' = [task EXCEPT ![c].pc = "media", ![c].jobs = S]
    BY <1>3 DEF TextsDone
  <2> HIDE DEF S
  <2>3. Alters(c, {"pc", "jobs"}) /\ task'[c].jobs = S /\ task'[c].pc = "media"
    <3>1. S \in SUBSET Message
      BY <2>1 DEF S
    <3> QED BY <1>0, <2>2, <3>1, JobsFacts
  <2>4. Grows /\ era' = era /\ task[c].pc = "text"
        /\ UNCHANGED <<rows, ref, live, chatwoot, status, reset, spent, rounds>>
    BY <1>3, Stands DEF TextsDone, At, SyncBase, chatwoot
  <2>5. ASSUME NEW d \in Callers PROVE PoolRight(d)'
    <3>1. CASE d = c
      <4>1. task'[c].chats = task[c].chats /\ task'[c].busy = task[c].busy
        BY <2>3 DEF Alters, Agree
      <4>2. task[c].busy = {}
        BY <2>4 DEF SyncBase, PoolsRight, PoolRight
      <4> QED BY <2>1, <2>3, <3>1, <4>1, <4>2 DEF PoolRight, S
    <3>2. CASE d # c
      BY <2>3, <3>2 DEF Alters, SyncBase, PoolsRight, PoolRight
    <3> QED BY <3>1, <3>2
  <2>6. TasksRight' /\ task' \in [Callers -> Task]
    BY <2>3, <2>4, AltersStay DEF Alters
  <2> QED BY <2>4, <2>5, <2>6, TaskStep DEF PoolsRight
<1> QED BY <1>1, <1>2, <1>3 DEF InsertAll

LEMMA TakeIs ==
  ASSUME SyncBase, NEW c \in Callers, TakeJob(c)
  PROVE  \E m \in task[c].jobs :
           /\ Alters(c, {"jobs", "busy"}) /\ task'[c].jobs = task[c].jobs \ {m}
           /\ task'[c].busy = task[c].busy \cup {m}
<1>0. task \in [Callers -> Task] /\ task[c] \in Task
  BY DEF SyncBase, SyncShape
<1>1. Message \subseteq Nat
  BY ChatSyncAssumption DEF Message
<1>2. task[c].jobs \in SUBSET Message /\ task[c].busy \in SUBSET Message
  BY <1>0 DEF Task
<1> DEFINE m == Min(task[c].jobs)
           S == task[c].jobs \ {m}
           B == task[c].busy \cup {m}
<1>3. m \in task[c].jobs
  BY <1>1, <1>2, SmallestIs DEF TakeJob
<1>4. task' = [task EXCEPT ![c].jobs = S, ![c].busy = B]
  BY DEF TakeJob
<1> HIDE DEF m
<1>5. S \in SUBSET Message /\ B \in SUBSET Message
  BY <1>2, <1>3
<1> HIDE DEF S, B
<1>6. Alters(c, {"jobs", "busy"}) /\ task'[c].jobs = S /\ task'[c].busy = B
  BY <1>0, <1>4, <1>5, TakeFacts
<1> QED BY <1>3, <1>6 DEF S, B

LEMMA TakeBase == ASSUME SyncBase, NEW c \in Callers, TakeJob(c) PROVE SyncBase'
<1>1. PICK m \in task[c].jobs :
        /\ Alters(c, {"jobs", "busy"}) /\ task'[c].jobs = task[c].jobs \ {m}
        /\ task'[c].busy = task[c].busy \cup {m}
  BY TakeIs
<1>2. Grows /\ era' = era /\ UNCHANGED <<rows, ref, live, chatwoot, status, reset, spent, rounds>>
  BY Stands DEF TakeJob, SyncBase, chatwoot
<1>3. TasksRight' /\ task' \in [Callers -> Task]
  BY <1>1, <1>2, AltersStay DEF Alters
<1>4. ASSUME NEW d \in Callers PROVE PoolRight(d)'
  <2>1. CASE d = c
    <3>1. task'[c].chats = task[c].chats /\ task'[c].pc = task[c].pc
      BY <1>1 DEF Alters, Agree
    <3> QED BY <1>1, <2>1, <3>1 DEF SyncBase, PoolsRight, PoolRight
  <2>2. CASE d # c
    BY <1>1, <2>2 DEF Alters, SyncBase, PoolsRight, PoolRight
  <2> QED BY <2>1, <2>2
<1> QED BY <1>2, <1>3, <1>4, TaskStep DEF PoolsRight

(* The end of an upload: the job is over, with a post or without.          *)
LEMMA JobDoneIs ==
  ASSUME SyncBase, NEW c \in Callers, NEW m \in task[c].busy, NEW D \in SUBSET PostIds',
         JobDone(c, m, D), Grows
  PROVE  /\ Alters(c, {"busy", "done", "sound"}) /\ task'[c].busy = task[c].busy \ {m}
         /\ task'[c].done = task[c].done \cup D /\ task'[c].sound = (task[c].sound /\ D # {})
<1>0. task \in [Callers -> Task] /\ task[c] \in Task
  BY DEF SyncBase, SyncShape
<1>1. task[c].busy \in SUBSET Message /\ task[c].done \in SUBSET Nat /\ task[c].sound \in BOOLEAN
  BY <1>0 DEF Task
<1> DEFINE S == task[c].busy \ {m}
           E == task[c].done \cup D
           b == task[c].sound /\ D # {}
<1>2. S \in SUBSET Message /\ E \in SUBSET Nat
  BY <1>1, GrownNumbers
<1>3. b \in BOOLEAN
  OBVIOUS
<1>4. task' = [task EXCEPT ![c].busy = S, ![c].done = E, ![c].sound = b]
  BY DEF JobDone
<1> HIDE DEF S, E, b
<1>5. /\ Alters(c, {"busy", "done", "sound"}) /\ task'[c].busy = S /\ task'[c].done = E
      /\ task'[c].sound = b
  BY <1>0, <1>2, <1>3, <1>4, DoneFacts
<1> QED BY <1>5 DEF S, E, b

LEMMA JobDoneStays ==
  ASSUME SyncBase, NEW c \in Callers, NEW m \in task[c].busy, NEW D \in SUBSET PostIds',
         JobDone(c, m, D), Grows, era' = era
  PROVE  task' \in [Callers -> Task] /\ TasksRight' /\ PoolsRight'
<1>1. /\ Alters(c, {"busy", "done", "sound"}) /\ task'[c].busy = task[c].busy \ {m}
      /\ task'[c].done = task[c].done \cup D
  BY JobDoneIs
<1>2. /\ task'[c].chats = task[c].chats /\ task'[c].ids = task[c].ids
      /\ task'[c].jobs = task[c].jobs /\ task'[c].pc = task[c].pc
  BY <1>1 DEF Alters, Agree
<1>3. PoolRight(c)'
  BY <1>1, <1>2 DEF SyncBase, PoolsRight, PoolRight
<1>4. TaskRight(c)'
  BY <1>1, <1>2, GrownNumbers DEF SyncBase, TasksRight, TaskRight, Grows
<1>5. ASSUME NEW d \in Callers, d # c PROVE TaskRight(d)' /\ PoolRight(d)'
  <2>1. task'[d] = task[d]
    BY <1>1, <1>5 DEF Alters
  <2> QED BY <2>1, GrownNumbers DEF SyncBase, TasksRight, TaskRight, PoolsRight, PoolRight, Grows
<1> QED BY <1>1, <1>3, <1>4, <1>5 DEF TasksRight, PoolsRight, Alters

LEMMA UploadBase ==
  ASSUME SyncBase, NEW c \in Callers, NEW m \in Media, Upload(c, m) PROVE SyncBase'
<1>0. /\ m \in task[c].busy /\ m \in Message
      /\ UNCHANGED <<rows, ref, live, contacts, inboxes, conv, era, dated, status, reset, spent,
                     rounds>>
  BY ChatSyncAssumption DEF Upload
<1>1. CASE /\ PostTo(m, ConvOf(c, m))
           /\ JobDone(c, m, {LastPost + 1}) \/ JobDone(c, m, {})
  <2>1. ConvOf(c, m) \in 1 .. era /\ ConvOf(c, m) \in Nat
    BY <1>0, ConvOfIs DEF SyncBase, PoolsRight, PoolRight
  <2>2. /\ Grows /\ LastPost + 1 \in PostIds' /\ PostIds' = PostIds \cup {LastPost + 1}
        /\ \A p \in PostIds' \ PostIds : posts'[p] = [msg |-> m, conv |-> ConvOf(c, m)]
    <3>1. /\ posts \in Seq(Post) /\ [msg |-> m, conv |-> ConvOf(c, m)] \in Post
          /\ posts' = Append(posts, [msg |-> m, conv |-> ConvOf(c, m)])
      BY <1>0, <1>1, <2>1 DEF SyncBase, SyncShape, Post, PostTo
    <3> QED BY <3>1 DEF Grows, PostIds, LastPost
  <2>3. task' \in [Callers -> Task] /\ TasksRight' /\ PoolsRight'
    BY <1>0, <1>1, <2>2, JobDoneStays
  <2>4. \A p \in PostIds' \ PostIds : posts'[p].conv \in 1 .. era
    BY <2>1, <2>2
  <2>5. kept' \subseteq PostIds' /\ dated' \subseteq PostIds'
    BY <1>0, <1>1, <2>2 DEF PostTo, SyncBase, SyncShape
  <2>6. RowsRight'
    BY <1>0, <2>2, RowsStay DEF SyncBase
  <2> QED BY <1>0, <2>2, <2>3, <2>4, <2>5, <2>6, PostBase DEF SyncBase, SyncShape, ConvsRight
<1>2. CASE JobDone(c, m, {}) /\ UNCHANGED <<posts, kept>>
  <2>1. Grows
    BY <1>2, Stands DEF SyncBase
  <2>2. task' \in [Callers -> Task] /\ TasksRight' /\ PoolsRight'
    BY <1>0, <1>2, <2>1, JobDoneStays
  <2> QED BY <1>0, <1>2, <2>2, TaskStep DEF chatwoot
<1> QED BY <1>1, <1>2 DEF Upload

LEMMA PoolBase == ASSUME SyncBase, NEW c \in Callers, Pool(c) PROVE SyncBase'
<1>0. task \in [Callers -> Task] /\ {"dates", "done"} \subseteq PCs
  BY DEF SyncBase, SyncShape, PCs
<1>1. CASE TakeJob(c)
  BY <1>1, TakeBase
<1>2. CASE \E m \in Media : Upload(c, m)
  BY <1>2, UploadBase
<1>3. CASE UploadsDone(c)
  <2>1. Alters(c, {"pc"})
    BY <1>0, <1>3, GoesFacts DEF UploadsDone, GoesTo
  <2> QED BY <1>3, <2>1, PcStep DEF UploadsDone
<1>4. CASE SetDates(c)
  <2>1. Alters(c, {"pc"})
    BY <1>0, <1>4, GoesFacts DEF SetDates, GoesTo
  <2>2. Grows /\ era' = era /\ task[c].pc # "media"
    BY <1>4, Stands DEF SetDates, SyncBase, At
  <2>3. task' \in [Callers -> Task] /\ TasksRight' /\ PoolsRight'
    BY <2>1, <2>2, AltersStay, PoolsStay DEF Alters
  <2>4. dated' \subseteq PostIds
    BY <1>4 DEF SetDates, SyncBase, SyncShape, TasksRight, TaskRight
  <2>5. SpentRight'
    BY <1>4 DEF SetDates, SyncBase, SpentRight
  <2> QED BY <1>4, <2>3, <2>4, <2>5, SyncStep DEF SetDates, SyncBase, SyncShape, ConvsRight
<1> QED BY <1>1, <1>2, <1>3, <1>4 DEF Pool

LEMMA FinishBase == ASSUME SyncBase, NEW c \in Callers, Finish(c) PROVE SyncBase'
<1>1. /\ task' = [task EXCEPT ![c] = Off] /\ task \in [Callers -> Task]
      /\ UNCHANGED <<rows, ref, live, chatwoot, reset, spent>> /\ status' \in Statuses
  BY DEF Finish, SyncBase, SyncShape, Statuses
<1>2. /\ task' \in [Callers -> Task] /\ task'[c] = Off
      /\ \A d \in Callers : d # c => task'[d] = task[d]
  BY <1>1, OffIs
<1>3. TasksRight'
  BY <1>1, <1>2, OffIs DEF SyncBase, TasksRight, TaskRight, chatwoot, PostIds
<1>4. PoolsRight'
  BY <1>2, OffIs DEF SyncBase, PoolsRight, PoolRight
<1>5. rounds' \in [Message -> Nat]
  BY DEF Finish, SyncBase, SyncShape
<1>6. SpentRight'
  BY <1>1 DEF SyncBase, SpentRight, chatwoot
<1> QED BY <1>1, <1>2, <1>3, <1>4, <1>5, <1>6, SyncStep DEF SyncBase, SyncShape, ConvsRight, chatwoot

LEMMA RunBase == ASSUME SyncBase, NEW c \in Callers, Run(c) PROVE SyncBase'
BY StartBase, ValidateBase, ContactsBase, ReadBase, FilterBase, CreateBase, InsertAllBase,
   PoolBase, FinishBase DEF Run

LEMMA UnsoundIs ==
  ASSUME task \in [Callers -> Task], task' = Unsound
  PROVE  /\ task' \in [Callers -> Task]
         /\ \A c \in Callers : Agree(task'[c], task[c], {"sound"}) /\ task'[c].sound = FALSE
<1>1. ASSUME NEW c \in Callers
      PROVE  /\ task'[c] \in Task /\ Agree(task'[c], task[c], {"sound"})
             /\ task'[c].sound = FALSE
  <2> DEFINE r == [task[c] EXCEPT !.sound = FALSE]
  <2>1. task[c] \in Task /\ task'[c] = r
    BY DEF Unsound
  <2>2. r \in Task /\ r.sound = FALSE
    BY <2>1 DEF Task
  <2>3. Agree(r, task[c], {"sound"})
    BY <2>1 DEF Task, Agree
  <2> HIDE DEF r
  <2> QED BY <2>1, <2>2, <2>3
<1>2. task' = [c \in Callers |-> task'[c]]
  BY DEF Unsound
<1> QED BY <1>1, <1>2

LEMMA ResetBase == ASSUME SyncBase, Reset PROVE SyncBase'
<1>1. /\ task' = Unsound /\ posts' = posts /\ dated' = dated /\ status' = status
      /\ UNCHANGED <<rows, ref, live>> /\ rounds' = [m \in Message |-> 0]
      /\ contacts' \subseteq contacts /\ inboxes' \subseteq inboxes /\ kept' \subseteq kept
      /\ reset' \in {"off", "conversations", "links", "contacts"}
  BY DEF Reset, ResetMessages, ResetConversations, ResetInboxes, ResetContacts
<1>2. /\ task' \in [Callers -> Task]
      /\ \A c \in Callers : Agree(task'[c], task[c], {"sound"}) /\ task'[c].sound = FALSE
  BY <1>1, UnsoundIs DEF SyncBase, SyncShape
<1>3. era' \in Nat \ {0} /\ era <= era' /\ conv' \in [Chats -> Nat]
      /\ \A x \in Chats : conv'[x] \in 0 .. era'
  <2>1. era \in Nat \ {0} /\ conv \in [Chats -> Nat] /\ \A x \in Chats : conv[x] \in 0 .. era
    BY DEF SyncBase, SyncShape, ConvsRight
  <2>2. (era' = era /\ conv' = conv) \/ (era' = era + 1 /\ conv' = [x \in Chats |-> 0])
    BY DEF Reset, ResetMessages, ResetConversations, ResetInboxes, ResetContacts
  <2> QED BY <2>1, <2>2
<1>4. spent' \in [DOMAIN Budget -> Nat] /\ SpentRight'
  <2>1. CASE ResetMessages
    <3>1. Spends("resets") /\ "resets" \in DOMAIN Budget /\ era' = era
      BY <2>1, Budgets DEF ResetMessages
    <3>2. /\ spent' \in [DOMAIN Budget -> Nat] /\ spent'.resets = spent.resets + 1
          /\ \A l \in DOMAIN Budget : spent'[l] \in 0 .. Budget[l]
      BY <3>1, SpendsIs
    <3>3. era <= spent.resets + 1 /\ era \in Nat /\ spent.resets \in Nat
      BY <3>1 DEF SyncBase, SpentRight, SyncShape
    <3> QED BY <3>1, <3>2, <3>3 DEF SpentRight
  <2>2. CASE ResetConversations
    <3>1. spent' = spent /\ era' = era + 1 /\ reset = "conversations" /\ reset' = "links"
      BY <2>2 DEF ResetConversations
    <3>2. era <= spent.resets /\ era \in Nat /\ spent.resets \in Nat
      BY <3>1, Budgets DEF SyncBase, SpentRight, SyncShape
    <3> QED BY <3>1, <3>2 DEF SyncBase, SpentRight, SyncShape
  <2>3. CASE ResetInboxes \/ ResetContacts
    BY <2>3 DEF ResetInboxes, ResetContacts, SyncBase, SpentRight, SyncShape
  <2> QED BY <2>1, <2>2, <2>3 DEF Reset
<1>5. Grows
  BY <1>1, Stands DEF SyncBase
<1>6. RowsRight'
  BY <1>1, <1>5, RowsStay DEF SyncBase
<1>7. TasksRight'
  <2>1. \A c \in Callers : Agree(task'[c], task[c], {"pc", "type", "read", "wanted", "batch",
                                                     "jobs", "busy", "sound"})
    BY <1>2 DEF Agree
  <2> QED BY <1>2, <1>3, <1>5, <2>1, TasksStay DEF SyncBase
<1>8. PoolsRight'
  <2>1. \A c \in Callers : /\ task'[c].chats = task[c].chats /\ task'[c].pc = task[c].pc
                           /\ task'[c].jobs = task[c].jobs /\ task'[c].busy = task[c].busy
    BY <1>2 DEF Agree
  <2> QED BY <2>1 DEF SyncBase, PoolsRight, PoolRight
<1>9. ConvsRight'
  <2>1. era \in Nat /\ \A p \in PostIds : posts[p].conv \in 1 .. era
    BY DEF SyncBase, SyncShape, ConvsRight
  <2>2. \A p \in PostIds' : posts'[p].conv \in 1 .. era'
    BY <1>1, <1>3, <2>1 DEF PostIds
  <2> QED BY <1>3, <2>2 DEF ConvsRight
<1>10. SyncShape'
  BY <1>1, <1>2, <1>3, <1>4 DEF SyncBase, SyncShape, PostIds
<1> QED BY <1>4, <1>6, <1>7, <1>8, <1>9, <1>10 DEF SyncBase

LEMMA CrashBase == ASSUME SyncBase, Crash PROVE SyncBase'
<1>1. /\ task' = [c \in Callers |-> Off] /\ status' \in Statuses /\ reset' = "off"
      /\ live' = [m \in Message |-> [live[m] EXCEPT !.pc = "none"]] /\ Spends("crashes")
      /\ UNCHANGED <<rows, ref, contacts, inboxes, conv, era, posts, kept, dated, rounds>>
  BY DEF Crash, Statuses, chatwoot
<1>2. live' \in [Message -> [pc : {"none", "post", "ref"}, post : Nat]] /\ RowsRight'
  <2>1. live \in [Message -> [pc : {"none", "post", "ref"}, post : Nat]]
    BY DEF SyncBase, SyncShape
  <2>2. \A m \in Message : live'[m].pc = "none" /\ live'[m].post = live[m].post
    BY <1>1, <2>1
  <2>3. live' \in [Message -> [pc : {"none", "post", "ref"}, post : Nat]]
    BY <1>1, <2>1
  <2> QED BY <1>1, <2>2, <2>3 DEF SyncBase, RowsRight, PostIds
<1>3. task' \in [Callers -> Task] /\ TasksRight' /\ PoolsRight'
  BY <1>1, OffIs DEF TasksRight, TaskRight, PoolsRight, PoolRight
<1>4. spent' \in [DOMAIN Budget -> Nat] /\ SpentRight'
  <2>1. /\ spent' \in [DOMAIN Budget -> Nat] /\ spent'.resets = spent.resets
        /\ \A l \in DOMAIN Budget : spent'[l] \in 0 .. Budget[l]
    BY <1>1, SpendsIs, Budgets
  <2> QED BY <1>1, <2>1 DEF SyncBase, SpentRight
<1>5. SyncShape' /\ ConvsRight'
  BY <1>1, <1>2, <1>3, <1>4 DEF SyncBase, SyncShape, ConvsRight, PostIds
<1> QED BY <1>2, <1>3, <1>4, <1>5 DEF SyncBase

LEMMA BridgeBase == ASSUME SyncBase, NEW m \in Message, BridgeSteps(m) PROVE SyncBase'
<1> DEFINE Lives == [pc : {"none", "post", "ref"}, post : Nat]
<1>0. live \in [Message -> Lives] /\ live[m] \in Lives
  BY DEF SyncBase, SyncShape
<1>1. CASE SaveHistory(m)
  BY <1>1 DEF SaveHistory, SyncBase, SyncShape, RowsRight, ConvsRight, TasksRight, TaskRight,
              PoolsRight, PoolRight, SpentRight, PostIds, chatwoot
<1>2. CASE Arrive(m)
  <2>1. /\ rows' \subseteq Message /\ live' = [live EXCEPT ![m].pc = "post"]
        /\ UNCHANGED <<ref, contacts, inboxes, conv, era, posts, kept, dated, status, task, reset,
                       spent, rounds>>
    BY <1>2 DEF Arrive, chatwoot, SyncBase, SyncShape
  <2>2. live' \in [Message -> Lives] /\ live'[m].pc = "post" /\ live'[m].post = live[m].post
        /\ \A n \in Message : n # m => live'[n] = live[n]
    BY <1>0, <2>1
  <2>3. RowsRight'
    BY <2>1, <2>2 DEF SyncBase, RowsRight, PostIds
  <2> QED BY <2>1, <2>2, <2>3 DEF SyncBase, SyncShape, ConvsRight, TasksRight, TaskRight,
                                  PoolsRight, PoolRight, SpentRight, PostIds
<1>3. CASE BridgePosts(m)
  <2> DEFINE x == ChatOf[m]
             n == conv'[x]
  <2>1. /\ contacts' = contacts \cup {x} /\ inboxes' = inboxes \cup {x} /\ x \in Chats
        /\ conv' = [conv EXCEPT ![x] = IF conv[x] = 0 THEN era ELSE conv[x]]
        /\ posts' = Append(posts, [msg |-> m, conv |-> n]) /\ kept' = kept \cup {LastPost + 1}
        /\ dated' = dated \cup {LastPost + 1}
        /\ live' = [live EXCEPT ![m] = [pc |-> "ref", post |-> LastPost + 1]]
        /\ UNCHANGED <<rows, ref, era, status, task, reset, spent, rounds>>
    BY <1>3 DEF BridgePosts, PostTo, Chats
  <2>2. conv \in [Chats -> Nat] /\ era \in Nat \ {0} /\ \A y \in Chats : conv[y] \in 0 .. era
    BY DEF SyncBase, SyncShape, ConvsRight
  <2>3. conv' \in [Chats -> Nat] /\ n \in 1 .. era /\ \A y \in Chats : conv'[y] \in 0 .. era
    BY <2>1, <2>2
  <2> HIDE DEF x, n
  <2>4. /\ Grows /\ LastPost + 1 \in Nat \ {0} /\ PostIds' = PostIds \cup {LastPost + 1}
        /\ posts'[LastPost + 1] = [msg |-> m, conv |-> n] /\ LastPost + 1 \notin PostIds
    <3>1. posts \in Seq(Post) /\ [msg |-> m, conv |-> n] \in Post
      BY <2>2, <2>3 DEF SyncBase, SyncShape, Post
    <3> QED BY <2>1, <3>1 DEF Grows, PostIds, LastPost
  <2>5. live' \in [Message -> Lives] /\ live'[m] = [pc |-> "ref", post |-> LastPost + 1]
        /\ \A k \in Message : k # m => live'[k] = live[k]
    BY <1>0, <2>1, <2>4
  <2>6. RowsRight'
    <3>1. ASSUME NEW k \in Message
          PROVE  /\ ref[k] \in {0} \cup PostIds' /\ live'[k].post \in {0} \cup PostIds'
                 /\ ref[k] # 0 => posts'[ref[k]].msg = k
                 /\ live'[k].pc = "ref" => live'[k].post # 0
                 /\ live'[k].post # 0 => posts'[live'[k].post].msg = k
      <4>1. /\ ref[k] \in {0} \cup PostIds' /\ (ref[k] # 0 => posts'[ref[k]].msg = k)
        BY <2>4 DEF SyncBase, RowsRight, Grows
      <4>2. CASE k = m
        BY <2>4, <2>5, <4>1, <4>2
      <4>3. CASE k # m
        BY <2>4, <2>5, <4>1, <4>3 DEF SyncBase, RowsRight, Grows
      <4> QED BY <4>2, <4>3
    <3> QED BY <2>1, <3>1 DEF RowsRight
  <2>7. TasksRight' /\ PoolsRight' /\ task' \in [Callers -> Task]
    <3>1. \A c \in Callers : Agree(task'[c], task[c], {"pc", "type", "read", "wanted", "batch",
                                                       "jobs", "busy", "sound"})
      BY <2>1 DEF Agree
    <3> QED BY <2>1, <2>2, <2>4, <3>1, TasksStay DEF SyncBase, SyncShape, PoolsRight, PoolRight
  <2>8. kept' \subseteq PostIds' /\ dated' \subseteq PostIds' /\ contacts' \subseteq Chats
        /\ inboxes' \subseteq Chats
    BY <2>1, <2>4 DEF SyncBase, SyncShape
  <2>9. \A p \in PostIds' \ PostIds : posts'[p].conv \in 1 .. era
    BY <2>3, <2>4
  <2> QED BY <2>1, <2>3, <2>4, <2>5, <2>6, <2>7, <2>8, <2>9, PostBase
<1>4. CASE BridgeRecords(m)
  <2>1. /\ ref' = [ref EXCEPT ![m] = live[m].post] /\ live' = [live EXCEPT ![m].pc = "none"]
        /\ live[m].pc = "ref"
        /\ UNCHANGED <<rows, contacts, inboxes, conv, era, posts, kept, dated, status, task, reset,
                       spent, rounds>>
    BY <1>4 DEF BridgeRecords, chatwoot
  <2>2. live' \in [Message -> Lives] /\ live'[m].pc = "none" /\ live'[m].post = live[m].post
        /\ \A n \in Message : n # m => live'[n] = live[n]
    BY <1>0, <2>1
  <2>3. ref \in [Message -> Nat] /\ live[m].post \in Nat
    BY <1>0 DEF SyncBase, SyncShape
  <2>4. ref' \in [Message -> Nat] /\ ref'[m] = live[m].post
        /\ \A n \in Message : n # m => ref'[n] = ref[n]
    BY <2>1, <2>3
  <2>5. RowsRight'
    BY <2>1, <2>2, <2>4 DEF SyncBase, RowsRight, PostIds
  <2> QED BY <2>1, <2>2, <2>4, <2>5 DEF SyncBase, SyncShape, ConvsRight, TasksRight, TaskRight,
                                        PoolsRight, PoolRight, SpentRight, PostIds
<1> QED BY <1>1, <1>2, <1>3, <1>4 DEF BridgeSteps

LEMMA InitBase == ASSUME Init PROVE SyncBase
<1>1. \A k \in DOMAIN Budget : Budget[k] \in Nat
  BY Budgets
<1>2. SyncShape
  BY OffIs DEF Init, SyncShape, Statuses, PostIds, Chats
<1>3. RowsRight /\ ConvsRight /\ TasksRight /\ PoolsRight
  BY OffIs DEF Init, RowsRight, ConvsRight, TasksRight, TaskRight, PoolsRight, PoolRight, PostIds
<1>4. SpentRight
  BY <1>1, Budgets DEF Init, SpentRight
<1> QED BY <1>2, <1>3, <1>4 DEF SyncBase

LEMMA StepBase == ASSUME SyncBase, [Next]_vars PROVE SyncBase'
<1>1. CASE Next
  BY <1>1, CheckBase, RunBase, BridgeBase, ResetBase, CrashBase DEF Next
<1>2. CASE UNCHANGED vars
  BY <1>2 DEF vars, chatwoot, SyncBase, SyncShape, RowsRight, ConvsRight, TasksRight, TaskRight,
              PoolsRight, PoolRight, SpentRight, PostIds
<1> QED BY <1>1, <1>2

LEMMA BaseHolds == Spec => []SyncBase
<1>1. Init => SyncBase
  BY InitBase
<1>2. SyncBase /\ [Next]_vars => SyncBase'
  BY StepBase
<1> QED BY <1>1, <1>2, PTL DEF Spec

LEMMA TypesFromBase == ASSUME SyncBase PROVE TypeOK
<1>1. era \in 1 .. (MaxResets + 1) /\ \A k \in DOMAIN Budget : spent[k] \in 0 .. Budget[k]
  <2>1. /\ era \in Nat \ {0} /\ era <= spent.resets + 1 /\ spent.resets \in 0 .. MaxResets
        /\ \A k \in DOMAIN Budget : spent[k] \in 0 .. Budget[k]
    BY Budgets DEF SyncBase, SyncShape, SpentRight
  <2>2. MaxResets \in Nat
    BY ChatSyncAssumption
  <2> QED BY <2>1, <2>2
<1>2. /\ ref \in [Message -> {0} \cup PostIds]
      /\ live \in [Message -> [pc : {"none", "post", "ref"}, post : {0} \cup PostIds]]
      /\ conv \in [Chats -> 0 .. era]
  <2>1. /\ \A m \in Message : ref[m] \in {0} \cup PostIds /\ live[m].post \in {0} \cup PostIds
        /\ \A x \in Chats : conv[x] \in 0 .. era
    BY DEF SyncBase, RowsRight, ConvsRight
  <2>2. \A m \in Message : live[m] \in [pc : {"none", "post", "ref"}, post : {0} \cup PostIds]
    BY <2>1 DEF SyncBase, SyncShape
  <2> QED BY <2>1, <2>2 DEF SyncBase, SyncShape
<1>3. \A p \in PostIds : posts[p] \in [msg : Message, conv : 1 .. era]
  <2>1. \A p \in PostIds : posts[p] \in Post /\ posts[p].conv \in 1 .. era
    BY DEF SyncBase, SyncShape, ConvsRight, PostIds
  <2> QED BY <2>1 DEF Post
<1> DEFINE Tasks == [pc : PCs,
                     type : SyncTypes, read : SUBSET Message, wanted : SUBSET Message,
                     chats : SUBSET (Chats \X (1 .. era)),
                     batch : SUBSET Message, ids : SUBSET (Message \X PostIds),
                     jobs : SUBSET Message, busy : SUBSET Message,
                     done : SUBSET PostIds, sound : BOOLEAN]
<1>4. task \in [Callers -> Tasks]
  <2>1. ASSUME NEW c \in Callers PROVE task[c] \in Tasks
    <3>1. task[c] \in Task /\ TaskRight(c)
      BY DEF SyncBase, SyncShape, TasksRight
    <3>2. task[c].chats \in SUBSET (Chats \X Nat) /\ task[c].ids \in SUBSET (Message \X Nat)
      BY <3>1 DEF Task
    <3>3. task[c].chats \in SUBSET (Chats \X (1 .. era)) /\ task[c].ids \in SUBSET (Message \X PostIds)
      BY <3>1, <3>2 DEF TaskRight
    <3> QED BY <3>1, <3>3 DEF Task, TaskRight
  <2> QED BY <2>1 DEF SyncBase, SyncShape
<1>5. /\ rows \subseteq Message /\ contacts \subseteq Chats /\ inboxes \subseteq Chats
      /\ kept \subseteq PostIds /\ dated \subseteq PostIds
      /\ status \in Statuses /\ reset \in {"off", "conversations", "links", "contacts"}
      /\ rounds \in [Message -> Nat]
  BY DEF SyncBase, SyncShape
<1> QED BY <1>1, <1>2, <1>3, <1>4, <1>5 DEF TypeOK, PCs, Statuses

(* Every variable of the synchronisation keeps its type: posts, dates and  *)
(* references have numbers of posts there are, conversations numbers that  *)
(* were given out, and no bound is exceeded.                               *)
THEOREM SyncTypesHold == Spec => []TypeOK
<1>1. SyncBase => TypeOK
  BY TypesFromBase
<1> QED BY <1>1, BaseHolds, PTL

(* UpdateCwFields of the sync and the bridge's own record: a row refers to *)
(* a post of its own message, for any number of syncs, resets and crashes  *)
(* at once, since the numbers a batch writes were read by source id.       *)
THEOREM RowsReferToTheirOwn == Spec => []RefIsOwn
<1>1. SyncBase => RefIsOwn
  BY DEF SyncBase, SyncShape, RowsRight, RefIsOwn
<1> QED BY <1>1, BaseHolds, PTL

LEMMA OthersStay ==
  ASSUME task \in [Callers -> Task], NEW c \in Callers, Check(c) \/ Run(c)
  PROVE  \A d \in Callers : d # c => task'[d] = task[d]
<1>1. CASE Check(c) \/ Start(c) \/ ValidateInbox(c) \/ SyncContacts(c) \/ ReadRows(c) \/ Filter(c)
           \/ Finish(c)
  BY <1>1 DEF Check, Start, ValidateInbox, SyncContacts, ReadRows, Filter, Finish, GoesTo, Fails
<1>2. CASE Create(c)
  BY <1>2 DEF Create, CreateOptimized, UpsertContacts, CreateInboxes, CreateConversations, QueryFKs,
              GoesTo, MessagesFail
<1>3. CASE InsertAll(c)
  BY <1>3 DEF InsertAll, InsertTexts, LookUpIds, Record, Recorded, TextsDone
<1>4. CASE Pool(c)
  BY <1>4 DEF Pool, TakeJob, Upload, JobDone, UploadsDone, SetDates, GoesTo
<1> QED BY <1>1, <1>2, <1>3, <1>4 DEF Run

------------------------------------------------------------------------------
(* Dates.                                                                  *)

(* A post without its date is one the pool of a sync made, which gives it  *)
(* the date when all uploads are over.                                     *)
Undated ==
  \A p \in kept : p \in dated
    \/ \E c \in Callers : task[c].pc \in {"media", "dates"} /\ p \in task[c].done
DatedInv == spent.crashes = 0 => Undated

LEMMA UndatedKept ==
  ASSUME Undated, dated \subseteq dated',
         \A c \in Callers : \/ task[c].pc \notin {"media", "dates"} \/ task[c].done \subseteq dated'
                            \/ /\ task'[c].pc \in {"media", "dates"}
                               /\ task[c].done \subseteq task'[c].done,
         \A p \in kept' \ kept : p \in dated'
           \/ \E c \in Callers : task'[c].pc \in {"media", "dates"} /\ p \in task'[c].done
  PROVE  Undated'
BY DEF Undated

LEMMA UndatedStep ==
  ASSUME Undated, dated \subseteq dated', kept' \ kept \subseteq dated', NEW c \in Callers,
         \A d \in Callers : d # c => task'[d] = task[d], task[c].pc \notin {"media", "dates"}
  PROVE  Undated'
BY UndatedKept

LEMMA DatedStep ==
  ASSUME SyncBase, Undated, {"answer", "dates"} \cap Faults = {}, Next, ~Crash
  PROVE  Undated'
<1>0. task \in [Callers -> Task] /\ Len(posts) \in Nat
  BY DEF SyncBase, SyncShape
<1>1. ASSUME NEW c \in Callers, Check(c) PROVE Undated'
  BY <1>0, <1>1, UndatedStep, OthersStay DEF Check, At, chatwoot
<1>2. ASSUME NEW c \in Callers, Run(c) PROVE Undated'
  <2>0. \A d \in Callers : d # c => task'[d] = task[d]
    BY <1>0, <1>2, OthersStay
  <2>1. CASE Start(c) \/ ValidateInbox(c) \/ SyncContacts(c) \/ ReadRows(c) \/ Filter(c) \/ Finish(c)
    BY <2>0, <2>1, UndatedStep DEF Start, ValidateInbox, SyncContacts, ReadRows, Filter, Finish, At,
                                   chatwoot
  <2>2. CASE Create(c)
    BY <2>0, <2>2, UndatedStep DEF Create, CreateOptimized, UpsertContacts, CreateInboxes,
                                   CreateConversations, QueryFKs, At, chatwoot
  <2>3. CASE InsertAll(c)
    <3>1. CASE InsertTexts(c)
      <4>1. task[c].pc \notin {"media", "dates"} /\ dated \subseteq dated' /\ kept' \ kept \subseteq dated'
        BY <3>1 DEF InsertTexts, At
      <4> QED BY <2>0, <4>1, UndatedStep
    <3>2. CASE LookUpIds(c) \/ Record(c) \/ Recorded(c) \/ TextsDone(c)
      BY <2>0, <3>2, UndatedStep DEF LookUpIds, Record, Recorded, TextsDone, At, chatwoot
    <3> QED BY <2>3, <3>1, <3>2 DEF InsertAll
  <2>4. CASE TakeJob(c)
    <3>1. /\ task'[c].pc = task[c].pc /\ task'[c].done = task[c].done
          /\ dated' = dated /\ kept' = kept
      BY <2>4, TakeIs DEF Alters, Agree, TakeJob, chatwoot
    <3> QED BY <2>0, <3>1, UndatedKept
  <2>5. ASSUME NEW m \in Media, Upload(c, m) PROVE Undated'
    <3>0. m \in task[c].busy /\ m \in Message /\ dated' = dated /\ task[c].pc = "media"
      BY <2>5, ChatSyncAssumption DEF Upload, SyncBase, PoolsRight, PoolRight
    <3>1. CASE /\ PostTo(m, ConvOf(c, m)) /\ JobDone(c, m, {LastPost + 1})
      <4>1. /\ ConvOf(c, m) \in Nat /\ posts \in Seq(Post)
            /\ posts' = Append(posts, [msg |-> m, conv |-> ConvOf(c, m)])
            /\ kept' = kept \cup {LastPost + 1}
        BY <3>0, <3>1, ConvOfIs DEF SyncBase, SyncShape, PoolsRight, PoolRight, PostTo
      <4>2. Grows /\ LastPost + 1 \in PostIds'
        <5>1. [msg |-> m, conv |-> ConvOf(c, m)] \in Post
          BY <3>0, <4>1 DEF Post
        <5> QED BY <4>1, <5>1 DEF Grows, PostIds, LastPost
      <4>3. task'[c].done = task[c].done \cup {LastPost + 1} /\ task'[c].pc = task[c].pc
        BY <3>0, <3>1, <4>2, JobDoneIs DEF Alters, Agree
      <4> QED BY <2>0, <3>0, <4>1, <4>3, UndatedKept
    <3>2. CASE JobDone(c, m, {}) /\ UNCHANGED <<posts, kept>>
      <4>1. task'[c].done = task[c].done \cup {} /\ task'[c].pc = task[c].pc
        BY ZenonT(60), <3>0, <3>2, Stands, JobDoneIs DEF Alters, Agree, SyncBase
      <4> QED BY <2>0, <3>0, <3>2, <4>1, UndatedKept
    <3> QED BY <2>5, <3>1, <3>2 DEF Upload, Fault
  <2>6. CASE UploadsDone(c)
    <3>1. Alters(c, {"pc"}) /\ task'[c].pc = "dates"
      BY <1>0, <2>6, GoesFacts DEF UploadsDone, GoesTo, PCs
    <3>2. task'[c].done = task[c].done /\ dated' = dated /\ kept' = kept
      BY <2>6, <3>1 DEF UploadsDone, Alters, Agree, chatwoot
    <3> QED BY <2>0, <3>1, <3>2, UndatedKept
  <2>7. CASE SetDates(c)
    <3>1. dated' = dated \cup task[c].done /\ kept' = kept
      BY <2>7 DEF SetDates, Fault
    <3> QED BY <2>0, <3>1, UndatedKept
  <2> QED BY <1>2, <2>1, <2>2, <2>3, <2>4, <2>5, <2>6, <2>7 DEF Run, Pool
<1>3. ASSUME NEW m \in Message, BridgeSteps(m) PROVE Undated'
  <2>1. task' = task /\ dated \subseteq dated' /\ kept' \ kept \subseteq dated'
    BY <1>3 DEF BridgeSteps, SaveHistory, Arrive, BridgePosts, BridgeRecords, PostTo, chatwoot
  <2> QED BY <2>1, UndatedKept
<1>4. CASE Reset
  <2>1. dated' = dated /\ kept' \subseteq kept /\ task' = Unsound
    BY <1>4 DEF Reset, ResetMessages, ResetConversations, ResetInboxes, ResetContacts
  <2>2. \A c \in Callers : task'[c].pc = task[c].pc /\ task'[c].done = task[c].done
    BY <1>0, <2>1, UnsoundIs DEF Agree
  <2> QED BY <2>1, <2>2, UndatedKept
<1> QED BY <1>1, <1>2, <1>3, <1>4 DEF Next

(* UpdateMessageTimestampsBatch: at rest every post has the date of its    *)
(* message, unless the process died, an answer of the upload was lost or   *)
(* the last statement failed.                                              *)
THEOREM HistoryIsDated == {"answer", "dates"} \cap Faults = {} => (Spec => []DatedAtRest)
<1> SUFFICES ASSUME {"answer", "dates"} \cap Faults = {} PROVE Spec => []DatedAtRest
  OBVIOUS
<1>1. Init => DatedInv
  BY DEF Init, DatedInv, Undated
<1>2. SyncBase /\ DatedInv /\ [Next]_vars => DatedInv'
  <2> SUFFICES ASSUME SyncBase, DatedInv, [Next]_vars, spent'.crashes = 0 PROVE Undated'
    BY DEF DatedInv
  <2>1. CASE Crash
    <3>1. spent'.crashes = spent.crashes + 1 /\ spent.crashes \in Nat
      BY <2>1, SpendsIs, Budgets DEF Crash, SyncBase, SyncShape
    <3> QED BY <3>1
  <2>2. CASE Next /\ ~Crash
    <3>1. spent.crashes = 0
      <4>1. CASE spent' = spent
        BY <4>1
      <4>2. CASE \E k \in {"syncs", "resets"} : Spends(k)
        <5>1. PICK k \in {"syncs", "resets"} : Spends(k)
          BY <4>2
        <5> QED BY <5>1, SpendsIs, Budgets
      <4>3. spent' = spent \/ \E k \in {"syncs", "resets"} : Spends(k)
        <5>1. ASSUME NEW c \in Callers, Run(c) PROVE spent' = spent
          <6>1. CASE Start(c) \/ ValidateInbox(c) \/ SyncContacts(c) \/ ReadRows(c) \/ Filter(c)
                     \/ Finish(c)
            BY <6>1 DEF Start, ValidateInbox, SyncContacts, ReadRows, Filter, Finish
          <6>2. CASE Create(c)
            BY <6>2 DEF Create, CreateOptimized, UpsertContacts, CreateInboxes,
                        CreateConversations, QueryFKs
          <6>3. CASE InsertAll(c) \/ Pool(c)
            BY <6>3 DEF InsertAll, InsertTexts, LookUpIds, Record, Recorded, TextsDone, Pool,
                        TakeJob, Upload, UploadsDone, SetDates
          <6> QED BY <5>1, <6>1, <6>2, <6>3 DEF Run
        <5>2. ASSUME NEW m \in Message, BridgeSteps(m) PROVE spent' = spent
          BY <5>2 DEF BridgeSteps, SaveHistory, Arrive, BridgePosts, BridgeRecords
        <5>3. CASE Reset
          BY <5>3 DEF Reset, ResetMessages, ResetConversations, ResetInboxes, ResetContacts
        <5>4. ASSUME NEW c \in Callers, Check(c) PROVE Spends("syncs")
          BY <5>4 DEF Check
        <5> QED BY <2>2, <5>1, <5>2, <5>3, <5>4 DEF Next
      <4> QED BY <4>1, <4>2, <4>3
    <3> QED BY <2>2, <3>1, DatedStep DEF DatedInv
  <2>3. CASE UNCHANGED vars
    BY <2>3 DEF vars, chatwoot, DatedInv, Undated
  <2> QED BY <2>1, <2>2, <2>3
<1>3. DatedInv => DatedAtRest
  BY DEF DatedInv, Undated, DatedAtRest
<1> QED BY <1>1, <1>2, <1>3, BaseHolds, PTL DEF Spec

------------------------------------------------------------------------------
(* One sync at a time, the answer of GetExistingSourceIDs, and no bridge   *)
(* posting the same messages.                                              *)
Alone == (\A c, d \in Callers : c = d) /\ Live = {} /\ "lookup" \notin Faults

Inserting == {"create", "upsert", "link", "converse", "query", "text", "ids", "record"}

(* What a sync has still to post Chatwoot does not have.                   *)
OnceInv ==
  /\ \A m \in Message : live[m].pc = "none"
  /\ \A p, q \in kept : posts[p].msg = posts[q].msg => p = q
  /\ \A c \in Callers :
       /\ task[c].pc \in Inserting => task[c].wanted \cap Known = {}
       /\ (task[c].jobs \cup task[c].busy) \cap Known = {}
       /\ task[c].jobs \cap task[c].busy = {}

LEMMA KnownIs ==
  ASSUME SyncBase, Grows, kept' \subseteq kept
  PROVE  Known' \subseteq Known /\ \A p \in kept' : posts'[p] = posts[p]
<1>1. \A p \in kept' : p \in kept /\ p \in PostIds
  BY DEF SyncBase, SyncShape
<1> QED BY <1>1 DEF Known, Grows

LEMMA OnceKept ==
  ASSUME SyncBase, OnceInv, Grows, kept' \subseteq kept, \A m \in Message : live'[m].pc = "none",
         \A c \in Callers :
           /\ task'[c].pc \in Inserting => task[c].pc \in Inserting
                                           /\ task'[c].wanted \subseteq task[c].wanted
           /\ task'[c].jobs \cup task'[c].busy \subseteq task[c].jobs \cup task[c].busy
           /\ task'[c].jobs \cap task'[c].busy = {}
  PROVE  OnceInv'
<1>1. Known' \subseteq Known /\ \A p \in kept' : posts'[p] = posts[p]
  BY KnownIs
<1> QED BY <1>1 DEF OnceInv

(* A step of a sync that only goes on, or leaves out what it wanted.       *)
LEMMA OnceGoesOn ==
  ASSUME SyncBase, OnceInv, kept' = kept, posts' = posts, live' = live, NEW c \in Callers, NEW F,
         Alters(c, F), "jobs" \notin F /\ "busy" \notin F,
         task'[c].pc \in Inserting => task[c].pc \in Inserting
                                      /\ task'[c].wanted \subseteq task[c].wanted
  PROVE  OnceInv'
<1>1. Grows
  BY Stands DEF SyncBase
<1>2. task'[c].jobs = task[c].jobs /\ task'[c].busy = task[c].busy
  BY DEF Alters, Agree
<1>3. ASSUME NEW d \in Callers
      PROVE  /\ task'[d].pc \in Inserting => task[d].pc \in Inserting
                                             /\ task'[d].wanted \subseteq task[d].wanted
             /\ task'[d].jobs \cup task'[d].busy \subseteq task[d].jobs \cup task[d].busy
             /\ task'[d].jobs \cap task'[d].busy = {}
  BY <1>2 DEF Alters, OnceInv
<1>4. \A m \in Message : live'[m].pc = "none"
  BY DEF OnceInv
<1> QED BY <1>1, <1>3, <1>4, OnceKept

LEMMA OnceFilter == ASSUME SyncBase, OnceInv, Alone, NEW c \in Callers, Filter(c) PROVE OnceInv'
<1> DEFINE S == task[c].read \ Known
           q == IF S = {} THEN "done" ELSE "create"
<1>0. task \in [Callers -> Task] /\ q \in PCs
  BY DEF SyncBase, SyncShape, PCs
<1>1. task' = [task EXCEPT ![c].wanted = S, ![c].pc = q]
  BY DEF Filter, Alone, Fault
<1>2. S \in SUBSET Message
  <2>1. task[c] \in Task
    BY <1>0
  <2> QED BY <2>1 DEF Task
<1> HIDE DEF S, q
<1>3. Alters(c, {"wanted", "pc"}) /\ task'[c].wanted = S
  BY <1>0, <1>1, <1>2, FilterFacts
<1>4. task'[c].jobs = task[c].jobs /\ task'[c].busy = task[c].busy
  BY <1>3 DEF Alters, Agree
<1>5. kept' = kept /\ posts' = posts /\ live' = live
  BY DEF Filter, chatwoot
<1>6. Known' = Known
  BY <1>5 DEF Known
<1>7. S \cap Known = {}
  BY DEF S
<1>8. ASSUME NEW d \in Callers
      PROVE  /\ task'[d].pc \in Inserting => task'[d].wanted \cap Known = {}
             /\ (task'[d].jobs \cup task'[d].busy) \cap Known = {}
             /\ task'[d].jobs \cap task'[d].busy = {}
  <2>1. d = c
    BY DEF Alone
  <2> QED BY <1>3, <1>4, <1>7, <2>1 DEF OnceInv
<1> QED BY <1>5, <1>6, <1>8 DEF OnceInv

LEMMA OnceInsert ==
  ASSUME SyncBase, OnceInv, Alone, NEW c \in Callers, InsertTexts(c) PROVE OnceInv'
<1> DEFINE batch == NextBatch(Texts(c))
           rest == task[c].wanted \ SetOf(batch)
<1>0. /\ task \in [Callers -> Task] /\ {"ids", "text"} \subseteq PCs /\ task[c].pc = "text"
      /\ live' = live
  BY DEF InsertTexts, At, SyncBase, SyncShape, PCs
<1>1. rest \in SUBSET Message
  <2>1. task[c] \in Task
    BY <1>0
  <2> QED BY <2>1 DEF Task
<1>2. CASE /\ posts' = posts \o [i \in DOMAIN batch |->
                                   [msg |-> batch[i], conv |-> ConvOf(c, batch[i])]]
           /\ kept' = kept \cup (Len(posts) + 1 .. Len(posts'))
           /\ task' = [task EXCEPT ![c].pc = "ids", ![c].wanted = rest,
                                   ![c].batch = SetOf(batch)]
  <2> DEFINE B == SetOf(batch)
  <2>0. rest = task[c].wanted \ B /\ batch = NextBatch(Texts(c))
    OBVIOUS
  <2> HIDE DEF batch
  <2>1. /\ Grows /\ B \in SUBSET Texts(c)
        /\ \A p \in PostIds' \ PostIds : posts'[p].msg \in B
        /\ \A p, q \in PostIds' \ PostIds : posts'[p].msg = posts'[q].msg => p = q
    BY <1>2, <2>0, InsertIs
  <2>2. B \in SUBSET Message /\ B \subseteq task[c].wanted
    BY <2>1, HasConvIs DEF Texts, HasConv
  <2> HIDE DEF rest
  <2>3. Alters(c, {"pc", "wanted", "batch"}) /\ task'[c].wanted = rest
    <3> HIDE DEF B
    <3>1. task' = [task EXCEPT ![c].pc = "ids", ![c].wanted = rest, ![c].batch = B]
      BY <1>2 DEF B
    <3> QED BY ZenonT(60), <1>0, <1>1, <2>2, <3>1, InsertFacts
  <2> HIDE DEF B
  <2>4. task'[c].jobs = task[c].jobs /\ task'[c].busy = task[c].busy
    BY <2>3 DEF Alters, Agree
  <2>5. task[c].jobs = {} /\ task[c].busy = {}
    BY <1>0 DEF SyncBase, PoolsRight, PoolRight
  <2>6. kept \subseteq PostIds /\ \A p \in kept' : p \in kept \/ p \in PostIds' \ PostIds
    <3>1. Len(posts) \in Nat /\ Len(posts') \in Nat /\ kept \subseteq PostIds
      BY <2>1 DEF Grows, SyncBase, SyncShape
    <3> QED BY <1>2, <3>1 DEF PostIds
  <2>7. \A p \in kept : posts'[p] = posts[p] /\ posts'[p].msg \in Known
    BY <2>1, <2>6 DEF Grows, Known
  <2>8. task[c].wanted \cap Known = {}
    BY <1>0 DEF OnceInv, Inserting
  <2>9. Known' \subseteq Known \cup B
    BY <2>1, <2>6, <2>7 DEF Known
  <2>10. rest \cap Known' = {}
    BY <2>0, <2>8, <2>9
  <2>11. ASSUME NEW p \in kept', NEW q \in kept', posts'[p].msg = posts'[q].msg PROVE p = q
    <3>1. CASE p \in kept /\ q \in kept
      BY <2>7, <2>11, <3>1 DEF OnceInv
    <3>2. CASE p \notin kept /\ q \notin kept
      BY <2>1, <2>6, <2>11, <3>2
    <3>3. CASE (p \in kept /\ q \notin kept) \/ (p \notin kept /\ q \in kept)
      BY <2>1, <2>2, <2>6, <2>7, <2>8, <2>11, <3>3
    <3> QED BY <3>1, <3>2, <3>3
  <2>12. \A d \in Callers : d = c
    BY DEF Alone
  <2> QED BY <1>0, <2>3, <2>4, <2>5, <2>10, <2>11, <2>12 DEF OnceInv
<1>3. CASE task' = [task EXCEPT ![c].wanted = rest, ![c].sound = FALSE]
           /\ UNCHANGED <<posts, kept, dated>>
  <2>0. rest \subseteq task[c].wanted
    OBVIOUS
  <2> HIDE DEF rest
  <2>1. Alters(c, {"wanted", "sound"}) /\ task'[c].wanted = rest
    BY <1>0, <1>1, <1>3, SkipFacts
  <2>2. task'[c].pc = task[c].pc
    BY <2>1 DEF Alters, Agree
  <2> QED BY <1>0, <1>3, <2>0, <2>1, <2>2, OnceGoesOn
<1> QED BY <1>2, <1>3 DEF InsertTexts

LEMMA OnceUpload ==
  ASSUME SyncBase, OnceInv, Alone, NEW c \in Callers, NEW m \in Media, Upload(c, m) PROVE OnceInv'
<1>0. m \in task[c].busy /\ m \in Message /\ live' = live /\ task[c].pc = "media"
      /\ \A d \in Callers : d = c
  BY ChatSyncAssumption DEF Upload, Alone, SyncBase, PoolsRight, PoolRight
<1>1. CASE PostTo(m, ConvOf(c, m)) /\ \E D \in SUBSET {LastPost + 1} : JobDone(c, m, D)
  <2>1. /\ ConvOf(c, m) \in Nat /\ posts \in Seq(Post)
        /\ posts' = Append(posts, [msg |-> m, conv |-> ConvOf(c, m)])
        /\ kept' = kept \cup {LastPost + 1}
    BY <1>0, <1>1, ConvOfIs DEF SyncBase, SyncShape, PoolsRight, PoolRight, PostTo
  <2>2. /\ Grows /\ LastPost + 1 \in PostIds' /\ posts'[LastPost + 1].msg = m
        /\ LastPost + 1 \notin PostIds
    <3>1. [msg |-> m, conv |-> ConvOf(c, m)] \in Post
      BY <1>0, <2>1 DEF Post
    <3> QED BY <2>1, <3>1 DEF Grows, PostIds, LastPost
  <2>3. PICK D \in SUBSET {LastPost + 1} : JobDone(c, m, D)
    BY <1>1
  <2>4. Alters(c, {"busy", "done", "sound"}) /\ task'[c].busy = task[c].busy \ {m}
    <3>1. D \in SUBSET PostIds'
      BY <2>2
    <3> QED BY <1>0, <2>2, <2>3, <3>1, JobDoneIs
  <2>5. task'[c].jobs = task[c].jobs /\ task'[c].pc = "media"
    BY <1>0, <2>4 DEF Alters, Agree
  <2>6. kept \subseteq PostIds /\ \A p \in kept : posts'[p] = posts[p]
    BY <2>2 DEF SyncBase, SyncShape, Grows
  <2>7. Known' = Known \cup {m}
    <3>1. ASSUME NEW p \in kept PROVE posts'[p].msg = posts[p].msg
      BY <2>6
    <3>2. Known' = {posts'[p].msg : p \in kept} \cup {posts'[LastPost + 1].msg}
      BY <2>1 DEF Known
    <3> QED BY <2>2, <3>1, <3>2 DEF Known
  <2>8. m \notin Known /\ m \notin task[c].jobs
    BY <1>0 DEF OnceInv
  <2>9. \A p, q \in kept' : posts'[p].msg = posts'[q].msg => p = q
    <3>1. \A p \in kept : posts[p].msg \in Known
      BY DEF Known
    <3>2. \A p \in kept : posts'[p].msg = posts[p].msg /\ posts'[p].msg # m
      BY <2>6, <2>8, <3>1
    <3>3. ASSUME NEW p \in kept', NEW q \in kept', posts'[p].msg = posts'[q].msg PROVE p = q
      <4>1. CASE p \in kept /\ q \in kept
        BY <3>2, <3>3, <4>1 DEF OnceInv
      <4>2. CASE p = LastPost + 1 \/ q = LastPost + 1
        BY <2>1, <2>2, <3>2, <3>3, <4>2
      <4> QED BY <2>1, <4>1, <4>2
    <3> QED BY <3>3
  <2>10. (task'[c].jobs \cup task'[c].busy) \cap Known' = {} /\ task'[c].jobs \cap task'[c].busy = {}
    BY <2>4, <2>5, <2>7, <2>8 DEF OnceInv
  <2> QED BY <1>0, <2>5, <2>9, <2>10 DEF OnceInv, Inserting
<1>2. CASE JobDone(c, m, {}) /\ UNCHANGED <<posts, kept>>
  <2>1. Grows
    BY <1>2, Stands DEF SyncBase
  <2>2. Alters(c, {"busy", "done", "sound"}) /\ task'[c].busy = task[c].busy \ {m}
    BY <1>0, <1>2, <2>1, JobDoneIs
  <2>3. task'[c].jobs = task[c].jobs /\ task'[c].pc = "media"
    BY <1>0, <2>2 DEF Alters, Agree
  <2>4. task[c].jobs \cap task[c].busy = {} /\ \A n \in Message : live'[n].pc = "none"
    BY <1>0 DEF OnceInv
  <2> QED BY <1>0, <1>2, <2>1, <2>2, <2>3, <2>4, OnceKept DEF Inserting
<1> QED BY <1>1, <1>2 DEF Upload

LEMMA OncePc ==
  ASSUME SyncBase, OnceInv, kept' = kept, posts' = posts, live' = live, NEW c \in Callers,
         NEW q \in PCs,
         GoesTo(c, q) \/ task' = [task EXCEPT ![c].pc = q, ![c].sound = FALSE],
         q \in Inserting => task[c].pc \in Inserting
  PROVE  OnceInv'
<1>0. task \in [Callers -> Task]
  BY DEF SyncBase, SyncShape
<1>1. CASE GoesTo(c, q)
  <2>1. Alters(c, {"pc"}) /\ task'[c].pc = q
    BY <1>0, <1>1, GoesFacts DEF GoesTo
  <2>2. task'[c].wanted = task[c].wanted
    BY <2>1 DEF Alters, Agree
  <2> QED BY <2>1, <2>2, OnceGoesOn
<1>2. CASE task' = [task EXCEPT ![c].pc = q, ![c].sound = FALSE]
  <2>1. Alters(c, {"pc", "sound"}) /\ task'[c].pc = q
    BY <1>0, <1>2, FailFacts
  <2>2. task'[c].wanted = task[c].wanted
    BY <2>1 DEF Alters, Agree
  <2> QED BY <2>1, <2>2, OnceGoesOn
<1> QED BY <1>1, <1>2

LEMMA OnceCreate == ASSUME SyncBase, OnceInv, NEW c \in Callers, Create(c) PROVE OnceInv'
<1>0. /\ kept' = kept /\ posts' = posts /\ live' = live /\ task \in [Callers -> Task]
      /\ task[c].pc \in Inserting
      /\ {"upsert", "link", "converse", "query", "text", "done", "fail"} \subseteq PCs
  BY DEF Create, CreateOptimized, UpsertContacts, CreateInboxes, CreateConversations, QueryFKs, At,
         Inserting, PCs, SyncBase, SyncShape, chatwoot
<1>1. CASE \E q \in PCs : GoesTo(c, q) \/ task' = [task EXCEPT ![c].pc = q, ![c].sound = FALSE]
  BY <1>0, <1>1, OncePc
<1>2. CASE task' = [task EXCEPT ![c].pc = "text", ![c].chats = Mapped(Needed(c))]
  <2> DEFINE S == Mapped(Needed(c))
  <2>1. S \in SUBSET (Chats \X Nat) /\ task' = [task EXCEPT ![c].pc = "text", ![c].chats = S]
    BY <1>2, MappedIs, NeededIs DEF SyncBase
  <2> HIDE DEF S
  <2>2. Alters(c, {"pc", "chats"})
    BY <1>0, <2>1, MapFacts
  <2>3. task'[c].wanted = task[c].wanted
    BY <2>2 DEF Alters, Agree
  <2> QED BY <1>0, <2>2, <2>3, OnceGoesOn
<1>3. (IF task[c].type = "all" THEN "done" ELSE "fail") \in PCs
  BY <1>0
<1>4. MessagesFail(c) => \E q \in PCs : task' = [task EXCEPT ![c].pc = q, ![c].sound = FALSE]
  BY <1>3 DEF MessagesFail
<1> QED BY <1>0, <1>1, <1>2, <1>4 DEF Create, CreateOptimized, UpsertContacts, CreateInboxes,
                                      CreateConversations, QueryFKs

LEMMA OnceRest ==
  ASSUME SyncBase, OnceInv, NEW c \in Callers,
         LookUpIds(c) \/ Record(c) \/ Recorded(c) \/ TextsDone(c) \/ TakeJob(c) \/ UploadsDone(c)
           \/ SetDates(c)
  PROVE  OnceInv'
<1>0. /\ kept' = kept /\ posts' = posts /\ live' = live /\ task \in [Callers -> Task]
      /\ {"record", "text", "media", "dates", "done"} \subseteq PCs /\ task[c] \in Task
  BY DEF LookUpIds, Record, Recorded, TextsDone, TakeJob, UploadsDone, SetDates, PCs, SyncBase,
         SyncShape, chatwoot
<1>1. CASE \E q \in {"record", "text"}, F \in {{"pc", "ids"}, {"pc", "batch"}, {"ids"}} :
             Alters(c, F) /\ task[c].pc \in Inserting
  <2>1. task'[c].wanted = task[c].wanted
    BY <1>1 DEF Alters, Agree
  <2> QED BY <1>0, <1>1, <2>1, OnceGoesOn
<1>2. CASE LookUpIds(c)
  <2> DEFINE S == Ids(task[c].batch)
  <2>1. S \in SUBSET (Message \X Nat)
    BY <1>0, IdsAre DEF SyncBase, Task
  <2>2. CASE task' = [task EXCEPT ![c].pc = "record", ![c].ids = S]
    <3> HIDE DEF S
    <3>1. Alters(c, {"pc", "ids"})
      BY <1>0, <2>1, <2>2, IdsFacts
    <3> QED BY <1>1, <1>2, <3>1 DEF LookUpIds, At, Inserting
  <2>3. CASE task' = [task EXCEPT ![c].pc = "text", ![c].batch = {}]
    <3>1. Alters(c, {"pc", "batch"})
      BY <1>0, <2>3, BackFacts
    <3> QED BY <1>1, <1>2, <3>1 DEF LookUpIds, At, Inserting
  <2> QED BY <1>2, <2>2, <2>3 DEF LookUpIds
<1>3. CASE Record(c)
  <2>1. PICK x \in task[c].ids : task' = [task EXCEPT ![c].ids = {y \in task[c].ids : y[1] # x[1]}]
    BY <1>3 DEF Record
  <2> DEFINE S == {y \in task[c].ids : y[1] # x[1]}
  <2>2. S \in SUBSET (Message \X Nat) /\ task' = [task EXCEPT ![c].ids = S]
    BY <1>0, <2>1 DEF Task
  <2> HIDE DEF S
  <2>3. Alters(c, {"ids"})
    BY <1>0, <2>2, RecordFacts
  <2> QED BY <1>1, <1>3, <2>3 DEF Record, At, Inserting
<1>4. CASE Recorded(c)
  <2>1. Alters(c, {"pc", "batch"})
    BY <1>0, <1>4, BackFacts DEF Recorded
  <2> QED BY <1>1, <1>4, <2>1 DEF Recorded, At, Inserting
<1>5. CASE TextsDone(c)
  <2> DEFINE S == HasConv(c)
  <2>1. S \in SUBSET Message /\ S \subseteq task[c].wanted
    BY HasConvIs DEF HasConv
  <2>2. task' = [task EXCEPT ![c].pc = "media", ![c].jobs = S] /\ task[c].pc = "text"
    BY <1>5 DEF TextsDone, At
  <2> HIDE DEF S
  <2>3. Alters(c, {"pc", "jobs"}) /\ task'[c].jobs = S /\ task'[c].pc = "media"
    BY <1>0, <2>1, <2>2, JobsFacts
  <2>4. task'[c].busy = task[c].busy /\ task[c].busy = {}
    BY <2>2, <2>3 DEF Alters, Agree, SyncBase, PoolsRight, PoolRight
  <2>5. task[c].wanted \cap Known = {} /\ Known' = Known
    BY <1>0, <2>2 DEF OnceInv, Inserting, Known
  <2>6. ASSUME NEW d \in Callers
        PROVE  /\ task'[d].pc \in Inserting => task'[d].wanted \cap Known = {}
               /\ (task'[d].jobs \cup task'[d].busy) \cap Known = {}
               /\ task'[d].jobs \cap task'[d].busy = {}
    <3>1. CASE d = c
      BY <2>1, <2>3, <2>4, <2>5, <3>1 DEF Inserting
    <3>2. CASE d # c
      BY <2>3, <3>2 DEF Alters, OnceInv
    <3> QED BY <3>1, <3>2
  <2> QED BY <1>0, <2>5, <2>6 DEF OnceInv
<1>6. CASE TakeJob(c)
  <2>1. PICK m \in task[c].jobs :
          /\ Alters(c, {"jobs", "busy"}) /\ task'[c].jobs = task[c].jobs \ {m}
          /\ task'[c].busy = task[c].busy \cup {m}
    BY <1>6, TakeIs
  <2>2. task'[c].pc = task[c].pc /\ task'[c].wanted = task[c].wanted
    BY <2>1 DEF Alters, Agree
  <2>3. ASSUME NEW d \in Callers
        PROVE  /\ task'[d].pc \in Inserting => task[d].pc \in Inserting
                                               /\ task'[d].wanted \subseteq task[d].wanted
               /\ task'[d].jobs \cup task'[d].busy \subseteq task[d].jobs \cup task[d].busy
               /\ task'[d].jobs \cap task'[d].busy = {}
    <3>1. task[d].jobs \cap task[d].busy = {}
      BY DEF OnceInv
    <3>2. CASE d = c
      BY <2>1, <2>2, <3>1, <3>2
    <3>3. CASE d # c
      BY <2>1, <3>1, <3>3 DEF Alters
    <3> QED BY <3>2, <3>3
  <2>4. Grows /\ \A m_1 \in Message : live'[m_1].pc = "none"
    BY <1>0, Stands DEF SyncBase, OnceInv
  <2> QED BY <1>0, <2>3, <2>4, OnceKept
<1>7. CASE UploadsDone(c) \/ SetDates(c)
  <2>1. GoesTo(c, "dates") \/ GoesTo(c, "done")
    BY <1>7 DEF UploadsDone, SetDates
  <2> QED BY <1>0, <2>1, OncePc DEF Inserting
<1> QED BY <1>2, <1>3, <1>4, <1>5, <1>6, <1>7

LEMMA OnceStep == ASSUME SyncBase, OnceInv, Alone, [Next]_vars PROVE OnceInv'
<1>0. task \in [Callers -> Task]
  BY DEF SyncBase, SyncShape
<1>1. ASSUME NEW c \in Callers, Check(c) \/ Finish(c) PROVE OnceInv'
  <2>1. kept' = kept /\ posts' = posts /\ live' = live
    BY <1>1 DEF Check, Finish, chatwoot
  <2>2. PICK r \in {Off} \cup {[Off EXCEPT !.pc = "set", !.type = t] : t \in SyncTypes} :
          task' = [task EXCEPT ![c] = r]
    BY <1>1 DEF Check, Finish
  <2>3. r.pc \notin Inserting /\ r.jobs = {} /\ r.busy = {}
    <3>1. ASSUME NEW t \in SyncTypes
          PROVE  LET o == [Off EXCEPT !.pc = "set", !.type = t] IN
                   o.pc = "set" /\ o.jobs = {} /\ o.busy = {}
      BY DEF Off
    <3>2. {"off", "set"} \cap Inserting = {}
      BY DEF Inserting
    <3> QED BY <2>2, <3>1, <3>2, OffIs
  <2>4. task'[c] = r /\ \A d \in Callers : d # c => task'[d] = task[d]
    BY <1>0, <2>2
  <2> QED BY <2>1, <2>3, <2>4, OnceKept, Stands DEF SyncBase, OnceInv
<1>2. ASSUME NEW c \in Callers, Run(c) PROVE OnceInv'
  <2>1. CASE Start(c) \/ ValidateInbox(c) \/ SyncContacts(c)
    <3>1. \E q \in {"inbox", "contacts", "read", "done"} : GoesTo(c, q) \/ Fails(c, "inbox")
      BY <2>1 DEF Start, ValidateInbox, SyncContacts
    <3>2. kept' = kept /\ posts' = posts /\ live' = live
      BY <2>1 DEF Start, ValidateInbox, SyncContacts, chatwoot
    <3>3. {"inbox", "contacts", "read", "done", "fail"} \subseteq PCs \ Inserting
      BY DEF PCs, Inserting
    <3> QED BY <3>1, <3>2, <3>3, OncePc DEF Fails
  <2>2. CASE ReadRows(c)
    <3>1. kept' = kept /\ posts' = posts /\ live' = live
      BY <2>2 DEF ReadRows, chatwoot
    <3>2. CASE task' = [task EXCEPT ![c].pc = "lookup", ![c].read = rows]
      <4>1. rows \in SUBSET Message /\ "lookup" \in PCs
        BY DEF SyncBase, SyncShape, PCs
      <4>2. Alters(c, {"pc", "read"}) /\ task'[c].pc = "lookup"
        BY <1>0, <3>2, <4>1, ReadFacts
      <4> QED BY <3>1, <4>2, OnceGoesOn DEF Inserting
    <3>3. CASE \E q \in {"done", "fail"} : task' = [task EXCEPT ![c].pc = q, ![c].sound = FALSE]
      BY <3>1, <3>3, OncePc DEF Inserting, PCs
    <3> QED BY <2>2, <3>2, <3>3 DEF ReadRows, Fails
  <2> QED BY <1>1, <1>2, <2>1, <2>2, OnceFilter, OnceCreate, OnceInsert, OnceRest, OnceUpload
          DEF Run, InsertAll, Pool
<1>3. ASSUME NEW m \in Message, BridgeSteps(m) PROVE OnceInv'
  <2>1. SaveHistory(m)
    BY <1>3 DEF BridgeSteps, Arrive, BridgePosts, BridgeRecords, Alone, OnceInv
  <2>2. kept' = kept /\ posts' = posts /\ live' = live /\ task' = task
    BY <2>1 DEF SaveHistory, chatwoot
  <2> QED BY <2>2 DEF OnceInv, Known
<1>4. CASE Reset
  <2>1. kept' \subseteq kept /\ task' = Unsound /\ posts' = posts /\ live' = live
    BY <1>4 DEF Reset, ResetMessages, ResetConversations, ResetInboxes, ResetContacts
  <2>2. \A c \in Callers : /\ task'[c].pc = task[c].pc /\ task'[c].wanted = task[c].wanted
                           /\ task'[c].jobs = task[c].jobs /\ task'[c].busy = task[c].busy
    BY <1>0, <2>1, UnsoundIs DEF Agree
  <2> QED BY <2>1, <2>2, OnceKept, Stands DEF SyncBase, OnceInv
<1>5. CASE Crash
  <2>1. /\ kept' = kept /\ posts' = posts /\ task' = [c \in Callers |-> Off]
        /\ live' = [m \in Message |-> [live[m] EXCEPT !.pc = "none"]]
    BY <1>5 DEF Crash, chatwoot
  <2>2. \A m \in Message : live'[m].pc = "none"
    BY <2>1 DEF SyncBase, SyncShape
  <2>3. \A c \in Callers : task'[c].pc \notin Inserting /\ task'[c].jobs = {} /\ task'[c].busy = {}
    BY <2>1, OffIs DEF Inserting
  <2> QED BY <2>1, <2>2, <2>3, OnceKept, Stands DEF SyncBase
<1>6. CASE UNCHANGED vars
  BY <1>6 DEF vars, chatwoot, OnceInv, Known
<1> QED BY <1>1, <1>2, <1>3, <1>4, <1>5, <1>6 DEF Next

(* filterMessages and the batches: no message is in Chatwoot twice, over   *)
(* any number of syncs, resets, crashes and failing statements, one sync   *)
(* at a time.                                                              *)
THEOREM SyncPostsOnce == Alone => (Spec => []PostedOnce)
<1> SUFFICES ASSUME Alone PROVE Spec => []PostedOnce
  OBVIOUS
<1>1. Init => OnceInv
  BY OffIs DEF Init, OnceInv, Known, Inserting
<1>2. SyncBase /\ OnceInv /\ [Next]_vars => OnceInv'
  BY OnceStep
<1>3. OnceInv => PostedOnce
  <2> SUFFICES ASSUME OnceInv, NEW m \in Message PROVE CountOf(m) <= 1
    BY DEF PostedOnce
  <2> DEFINE S == {p \in kept : posts[p].msg = m}
  <2>1. \A p, q \in S : p = q
    BY DEF OnceInv
  <2>2. CASE S = {}
    <3>1. Cardinality(S) = 0
      BY <2>2, FS_EmptySet
    <3> QED BY <3>1 DEF CountOf
  <2>3. CASE S # {}
    <3>1. PICK p \in S : S = {p}
      BY <2>1, <2>3
    <3>2. Cardinality({p}) = 1
      BY FS_Singleton
    <3> QED BY <3>1, <3>2 DEF CountOf
  <2> QED BY <2>2, <2>3
<1> QED BY <1>1, <1>2, <1>3, BaseHolds, PTL DEF Spec

------------------------------------------------------------------------------
(* Three syncs without error.                                              *)

ChatLinked(m) == ChatOf[m] \in contacts \cap inboxes
HasMapping(c, m) == \E z \in task[c].chats : z[1] = ChatOf[m]

(* What the syncs that saw a message have left of its chat: the first its  *)
(* contact and inbox, the second its conversation, the third the message.  *)
Progress(m) ==
  /\ rounds[m] >= 1 => ChatLinked(m)
  /\ rounds[m] >= 2 => conv[ChatOf[m]] # 0
  /\ rounds[m] < 3
Prepared(c, m) ==
  /\ ChatLinked(m)
  /\ rounds[m] >= 1 => conv[ChatOf[m]] # 0
  /\ rounds[m] >= 2 => HasMapping(c, m)
Carried(c, m) ==
  /\ task[c].pc \in Inserting \cup {"lookup", "media", "dates", "done"}
  /\ task[c].pc \in Inserting => m \in task[c].wanted
  /\ task[c].pc = "link" => ChatOf[m] \in contacts
  /\ task[c].pc \in {"converse", "query"} => ChatLinked(m)
  /\ task[c].pc = "query" => conv[ChatOf[m]] # 0
  /\ task[c].pc \in {"text", "ids", "record", "media", "dates", "done"} => Prepared(c, m)
  /\ task[c].pc = "media" => (HasMapping(c, m) => m \in task[c].jobs \cup task[c].busy)
  /\ task[c].pc \in {"dates", "done"} => ~HasMapping(c, m)
Carries(c, m) == task[c].sound /\ m \in task[c].read => Carried(c, m)
ImportInv ==
  \A m \in Message : Posted(m) \/ (Progress(m) /\ \A c \in Callers : Carries(c, m))

(* What Chatwoot has stays, but for a reset.                               *)
ChatwootStays ==
  /\ Known \subseteq Known' /\ contacts \subseteq contacts' /\ inboxes \subseteq inboxes'
  /\ \A x \in Chats : conv[x] # 0 => conv'[x] # 0

LEMMA ImportKept ==
  ASSUME ImportInv, ChatwootStays,
         \A m \in Message \ Known' : /\ Progress(m) => Progress(m)'
                                     /\ \A c \in Callers : Carries(c, m) /\ Progress(m) => Carries(c, m)'
  PROVE  ImportInv'
BY DEF ImportInv, ChatwootStays, Posted

LEMMA ProgressKept ==
  ASSUME ChatwootStays, UNCHANGED rounds, NEW m \in Message, Progress(m)
  PROVE  Progress(m)'
<1>1. ChatOf[m] \in Chats
  BY DEF Chats
<1> QED BY <1>1 DEF Progress, ChatLinked, ChatwootStays

LEMMA PreparedKept ==
  ASSUME ChatwootStays, UNCHANGED rounds, NEW c \in Callers, NEW m \in Message,
         task'[c].chats = task[c].chats, Prepared(c, m)
  PROVE  Prepared(c, m)'
<1>1. ChatOf[m] \in Chats
  BY DEF Chats
<1> QED BY <1>1 DEF Prepared, ChatLinked, HasMapping, ChatwootStays

(* One caller: a step of its sync.                                         *)
LEMMA ImportStep ==
  ASSUME ImportInv, ChatwootStays, UNCHANGED rounds, \A d, e \in Callers : d = e, NEW c \in Callers,
         \A m \in Message \ Known' : Carries(c, m) /\ Progress(m) => Carries(c, m)'
  PROVE  ImportInv'
<1>1. ASSUME NEW m \in Message \ Known'
      PROVE  /\ Progress(m) => Progress(m)'
             /\ \A d \in Callers : Carries(d, m) /\ Progress(m) => Carries(d, m)'
  <2>1. \A d \in Callers : d = c
    OBVIOUS
  <2> QED BY <2>1, ProgressKept
<1> QED BY <1>1, ImportKept

(* A sync that carries nothing yet, or has failed.                         *)
LEMMA NothingCarried ==
  ASSUME NEW c \in Callers, NEW m, Carries(c, m),
         \/ ~task'[c].sound \/ m \notin task'[c].read
         \/ /\ task[c].pc \in {"off", "set", "inbox", "contacts", "read", "fail"}
            /\ task'[c].sound = task[c].sound /\ task'[c].read = task[c].read
  PROVE  Carries(c, m)'
BY DEF Carries, Carried, Inserting

LEMMA KnownStays == ASSUME SyncBase, Grows, kept \subseteq kept' PROVE Known \subseteq Known'
<1>1. \A p \in kept : p \in PostIds /\ p \in kept' /\ posts'[p] = posts[p]
  BY DEF SyncBase, SyncShape, Grows
<1> QED BY <1>1 DEF Known

LEMMA StaysUnchanged == ASSUME UNCHANGED chatwoot PROVE ChatwootStays
BY DEF ChatwootStays, chatwoot, Known

LEMMA ImportStart ==
  ASSUME SyncBase, ImportInv, \A d, e \in Callers : d = e, NEW c \in Callers,
         Start(c) \/ ValidateInbox(c) \/ SyncContacts(c) \/ ReadRows(c) \/ Filter(c)
  PROVE  ImportInv'
<1>0. task \in [Callers -> Task] /\ rounds' = rounds /\ kept' = kept /\ posts' = posts
      /\ inboxes' = inboxes /\ conv' = conv /\ contacts \subseteq contacts'
  BY DEF Start, ValidateInbox, SyncContacts, ReadRows, Filter, SyncBase, SyncShape, chatwoot
<1>1. ChatwootStays
  BY <1>0 DEF ChatwootStays, Known
<1>2. CASE Start(c) \/ ValidateInbox(c) \/ SyncContacts(c)
  <2>0. task[c].pc \in {"set", "inbox", "contacts"}
    BY <1>2 DEF Start, ValidateInbox, SyncContacts, At
  <2>1. CASE \E q \in {"inbox", "contacts", "read", "done"} : GoesTo(c, q)
    <3>1. PICK q \in {"inbox", "contacts", "read", "done"} : GoesTo(c, q)
      BY <2>1
    <3>2. q \in PCs
      BY DEF PCs
    <3>3. Alters(c, {"pc"})
      BY <1>0, <3>1, <3>2, GoesFacts DEF GoesTo
    <3>4. task'[c].sound = task[c].sound /\ task'[c].read = task[c].read
      BY <3>3 DEF Alters, Agree
    <3> QED BY <1>0, <1>1, <2>0, <3>4, NothingCarried, ImportStep
  <2>2. CASE Fails(c, "inbox")
    <3>1. task'[c].sound = FALSE
      BY <1>0, <2>2, FailFacts DEF Fails, PCs
    <3> QED BY <1>0, <1>1, <3>1, NothingCarried, ImportStep
  <2> QED BY <1>2, <2>1, <2>2 DEF Start, ValidateInbox, SyncContacts
<1>3. CASE ReadRows(c)
  <2>1. CASE task' = [task EXCEPT ![c].pc = "lookup", ![c].read = rows]
    <3>1. rows \in SUBSET Message /\ "lookup" \in PCs
      BY DEF SyncBase, SyncShape, PCs
    <3>2. task'[c].pc = "lookup"
      BY <1>0, <2>1, <3>1, ReadFacts
    <3>3. \A m \in Message : Carries(c, m)'
      BY <3>2 DEF Carries, Carried, Inserting
    <3> QED BY <1>0, <1>1, <3>3, ImportStep
  <2>2. CASE \E q \in {"done", "fail"} : task' = [task EXCEPT ![c].pc = q, ![c].sound = FALSE]
    <3>1. PICK q \in {"done", "fail"} : task' = [task EXCEPT ![c].pc = q, ![c].sound = FALSE]
      BY <2>2
    <3>2. q \in PCs
      BY DEF PCs
    <3>3. task'[c].sound = FALSE
      BY <1>0, <3>1, <3>2, FailFacts
    <3> QED BY <1>0, <1>1, <3>3, NothingCarried, ImportStep
  <2> QED BY <1>3, <2>1, <2>2 DEF ReadRows, Fails
<1>4. CASE Filter(c)
  <2>1. PICK known \in {Known, {}} :
          task' = [task EXCEPT ![c].wanted = task[c].read \ known,
                               ![c].pc = IF task[c].read \ known = {} THEN "done" ELSE "create"]
    BY <1>4 DEF Filter
  <2> DEFINE S == task[c].read \ known
             q == IF S = {} THEN "done" ELSE "create"
  <2>2. S \in SUBSET Message /\ q \in PCs /\ known \subseteq Known
    <3>1. task[c] \in Task
      BY <1>0
    <3> QED BY <3>1 DEF Task, PCs
  <2>3. task' = [task EXCEPT ![c].wanted = S, ![c].pc = q]
    BY <2>1
  <2>4. \A m \in task[c].read \ Known : m \in S /\ q = "create"
    BY <2>2
  <2> HIDE DEF S, q
  <2>5. Alters(c, {"wanted", "pc"}) /\ task'[c].wanted = S /\ task'[c].pc = q
    BY <1>0, <2>2, <2>3, FilterFacts
  <2>6. task'[c].read = task[c].read
    BY <2>5 DEF Alters, Agree
  <2>7. ASSUME NEW m \in Message \ Known' PROVE Carries(c, m)'
    <3> SUFFICES ASSUME m \in task'[c].read PROVE Carried(c, m)'
      BY DEF Carries
    <3>1. m \in S /\ q = "create"
      BY <1>0, <2>4, <2>6 DEF Known
    <3> QED BY <2>5, <3>1 DEF Carried, Inserting
  <2> QED BY <1>0, <1>1, <2>7, ImportStep
<1> QED BY <1>2, <1>3, <1>4

LEMMA ImportFails ==
  ASSUME SyncBase, ImportInv, ChatwootStays, UNCHANGED rounds, \A d, e \in Callers : d = e,
         NEW c \in Callers, MessagesFail(c)
  PROVE  ImportInv'
<1>1. (IF task[c].type = "all" THEN "done" ELSE "fail") \in PCs
  BY DEF PCs
<1>2. task'[c].sound = FALSE
  BY <1>1, FailFacts DEF MessagesFail, SyncBase, SyncShape
<1> QED BY <1>2, NothingCarried, ImportStep

LEMMA NeededHas ==
  ASSUME NEW c \in Callers, NEW m \in task[c].wanted
  PROVE  ChatOf[m] \in Needed(c)
BY DEF Needed

(* The mapping has every chat with a contact and a conversation.           *)
LEMMA MappingHas ==
  ASSUME SyncBase, NEW c \in Callers, NEW m \in task[c].wanted, ChatOf[m] \in contacts,
         conv[ChatOf[m]] # 0
  PROVE  \E z \in Mapped(Needed(c)) : z[1] = ChatOf[m]
<1>1. <<ChatOf[m], conv[ChatOf[m]]>> \in Mapped(Needed(c))
  BY NeededHas, NeededIs, MappedIs DEF SyncBase
<1> QED BY <1>1

LEMMA MapIs ==
  ASSUME SyncBase, NEW c \in Callers,
         task' = [task EXCEPT ![c].pc = "text", ![c].chats = Mapped(Needed(c))]
  PROVE  /\ Alters(c, {"pc", "chats"}) /\ task'[c].chats = Mapped(Needed(c))
         /\ task'[c].pc = "text"
<1> DEFINE S == Mapped(Needed(c))
<1>1. S \in SUBSET (Chats \X Nat) /\ task' = [task EXCEPT ![c].pc = "text", ![c].chats = S]
      /\ "text" \in PCs /\ task \in [Callers -> Task]
  BY MappedIs, NeededIs DEF SyncBase, SyncShape, PCs
<1> HIDE DEF S
<1>2. Alters(c, {"pc", "chats"}) /\ task'[c].chats = S /\ task'[c].pc = "text"
  BY ZenonT(60), <1>1, MapFacts
<1> QED BY <1>2 DEF S

LEMMA ImportCreate ==
  ASSUME SyncBase, ImportInv, \A d, e \in Callers : d = e, NEW c \in Callers, Create(c)
  PROVE  ImportInv'
<1>0. /\ task \in [Callers -> Task] /\ rounds' = rounds /\ kept' = kept /\ posts' = posts
      /\ contacts \subseteq contacts' /\ inboxes \subseteq inboxes' /\ task[c].pc \in Inserting
      /\ {"upsert", "link", "converse", "query", "text"} \subseteq PCs
      /\ era # 0 /\ conv \in [Chats -> Nat]
  BY DEF Create, CreateOptimized, UpsertContacts, CreateInboxes, CreateConversations, QueryFKs, At,
         Inserting, PCs, SyncBase, SyncShape, chatwoot
<1>1. ChatwootStays
  <2>1. \A x \in Chats : conv[x] # 0 => conv'[x] # 0
    BY <1>0 DEF Create, CreateOptimized, UpsertContacts, CreateInboxes, CreateConversations,
                QueryFKs, chatwoot
  <2> QED BY <1>0, <2>1 DEF ChatwootStays, Known
<1>2. \A m \in Message : ChatOf[m] \in Chats
  BY DEF Chats
<1>3. CASE MessagesFail(c)
  BY <1>0, <1>1, <1>3, ImportFails
<1>4. CASE \/ GoesTo(c, "upsert") /\ At(c, "create")
           \/ GoesTo(c, "link") /\ contacts' = contacts \cup Needed(c)
           \/ /\ GoesTo(c, "converse") /\ At(c, "link")
              /\ inboxes' = inboxes \cup (Needed(c) \cap contacts)
           \/ /\ GoesTo(c, "query") /\ At(c, "converse")
              /\ conv' = [x \in Chats |-> IF x \in Needed(c) \cap inboxes /\ conv[x] = 0
                                          THEN era ELSE conv[x]]
  <2>1. PICK q \in {"upsert", "link", "converse", "query"} : GoesTo(c, q)
    BY <1>4
  <2>2. Alters(c, {"pc"}) /\ task'[c].pc = q
    BY <1>0, <2>1, GoesFacts DEF GoesTo
  <2>3. /\ task'[c].read = task[c].read /\ task'[c].sound = task[c].sound
        /\ task'[c].wanted = task[c].wanted
    BY <2>2 DEF Alters, Agree
  <2>4. /\ q = "link" => contacts' = contacts \cup Needed(c)
        /\ q = "converse" => inboxes' = inboxes \cup (Needed(c) \cap contacts) /\ task[c].pc = "link"
        /\ q = "query" => /\ conv' = [x \in Chats |-> IF x \in Needed(c) \cap inboxes /\ conv[x] = 0
                                                      THEN era ELSE conv[x]]
                          /\ task[c].pc = "converse"
    <3>1. \A r \in {"upsert", "link", "converse", "query"} : GoesTo(c, r) => r = q
      <4>1. ASSUME NEW r \in {"upsert", "link", "converse", "query"}, GoesTo(c, r) PROVE r = q
        <5>1. task'[c].pc = r
          BY <1>0, <4>1, GoesFacts DEF GoesTo
        <5> QED BY <2>2, <5>1
      <4> QED BY <4>1
    <3> QED BY <1>4, <3>1 DEF At
  <2>5. ASSUME NEW m \in Message \ Known', Carries(c, m), Progress(m) PROVE Carries(c, m)'
    <3> SUFFICES ASSUME Carried(c, m) PROVE Carried(c, m)'
      BY <2>3, <2>5 DEF Carries
    <3>1. m \in task[c].wanted /\ ChatOf[m] \in Needed(c)
      BY <1>0, NeededHas DEF Carried
    <3>2. q = "link" => ChatOf[m] \in contacts'
      BY <2>4, <3>1
    <3>3. q \in {"converse", "query"} => ChatOf[m] \in contacts' \cap inboxes'
      BY <1>0, <2>4, <3>1 DEF Carried, ChatLinked
    <3>4. q = "query" => conv'[ChatOf[m]] # 0
      BY <1>0, <1>2, <2>4, <3>1 DEF Carried, ChatLinked
    <3> QED BY <2>1, <2>2, <2>3, <3>1, <3>2, <3>3, <3>4 DEF Carried, ChatLinked, Inserting
  <2> QED BY <1>0, <1>1, <2>5, ImportStep
<1>5. CASE /\ task' = [task EXCEPT ![c].pc = "text", ![c].chats = Mapped(Needed(c))]
           /\ \/ /\ contacts' = contacts \cup Needed(c) /\ inboxes' = inboxes \cup Needed(c)
                 /\ conv' = [x \in Chats |-> IF x \in Needed(c) \cap inboxes /\ conv[x] = 0
                                             THEN era ELSE conv[x]]
              \/ At(c, "query") /\ UNCHANGED <<contacts, inboxes, conv>>
  <2>1. /\ Alters(c, {"pc", "chats"}) /\ task'[c].chats = Mapped(Needed(c))
        /\ task'[c].pc = "text"
    BY <1>5, MapIs
  <2>2. /\ task'[c].read = task[c].read /\ task'[c].sound = task[c].sound
        /\ task'[c].wanted = task[c].wanted
    BY <2>1 DEF Alters, Agree
  <2>3. ASSUME NEW m \in Message \ Known', Carries(c, m), Progress(m) PROVE Carries(c, m)'
    <3> SUFFICES ASSUME Carried(c, m) PROVE Carried(c, m)'
      BY <2>2, <2>3 DEF Carries
    <3>1. m \in task[c].wanted /\ ChatOf[m] \in Needed(c)
      BY <1>0, NeededHas DEF Carried
    <3>2. ChatOf[m] \in contacts' \cap inboxes'
      BY <1>5, <3>1 DEF Carried, ChatLinked, At
    <3>3. rounds[m] >= 1 => conv'[ChatOf[m]] # 0
      BY <1>0, <1>2, <1>5, <2>3, <3>1 DEF Carried, ChatLinked, At, Progress
    <3>4. rounds[m] >= 2 => HasMapping(c, m)'
      <4> SUFFICES ASSUME rounds[m] >= 2 PROVE \E z \in Mapped(Needed(c)) : z[1] = ChatOf[m]
        BY <2>1 DEF HasMapping
      <4>1. ChatOf[m] \in contacts /\ conv[ChatOf[m]] # 0
        <5>1. rounds[m] \in Nat
          BY DEF SyncBase, SyncShape
        <5> QED BY <2>3, <5>1 DEF Progress, ChatLinked
      <4> QED BY <3>1, <4>1, MappingHas
    <3>5. Prepared(c, m)'
      BY <1>0, <3>2, <3>3, <3>4 DEF Prepared, ChatLinked
    <3> QED BY <2>1, <2>2, <3>1, <3>5 DEF Carried, Inserting
  <2> QED BY <1>0, <1>1, <2>3, ImportStep
<1>6. \/ MessagesFail(c)
      \/ GoesTo(c, "upsert") /\ At(c, "create")
      \/ GoesTo(c, "link") /\ contacts' = contacts \cup Needed(c)
      \/ /\ GoesTo(c, "converse") /\ At(c, "link")
         /\ inboxes' = inboxes \cup (Needed(c) \cap contacts)
      \/ /\ GoesTo(c, "query") /\ At(c, "converse")
         /\ conv' = [x \in Chats |-> IF x \in Needed(c) \cap inboxes /\ conv[x] = 0
                                     THEN era ELSE conv[x]]
      \/ /\ task' = [task EXCEPT ![c].pc = "text", ![c].chats = Mapped(Needed(c))]
         /\ \/ /\ contacts' = contacts \cup Needed(c) /\ inboxes' = inboxes \cup Needed(c)
               /\ conv' = [x \in Chats |-> IF x \in Needed(c) \cap inboxes /\ conv[x] = 0
                                           THEN era ELSE conv[x]]
            \/ At(c, "query") /\ UNCHANGED <<contacts, inboxes, conv>>
  BY DEF Create, CreateOptimized, UpsertContacts, CreateInboxes, CreateConversations, QueryFKs,
         chatwoot
<1> QED BY <1>3, <1>4, <1>5, <1>6

LEMMA ImportInsert ==
  ASSUME SyncBase, ImportInv, \A d, e \in Callers : d = e, NEW c \in Callers, InsertTexts(c)
  PROVE  ImportInv'
<1> DEFINE batch == NextBatch(Texts(c))
           rest == task[c].wanted \ SetOf(batch)
<1>0. /\ task \in [Callers -> Task] /\ {"ids", "text"} \subseteq PCs /\ task[c].pc = "text"
      /\ UNCHANGED <<contacts, inboxes, conv, rounds>>
  BY DEF InsertTexts, At, SyncBase, SyncShape, PCs
<1>1. rest \in SUBSET Message
  <2>1. task[c] \in Task
    BY <1>0
  <2> QED BY <2>1 DEF Task
<1>2. CASE /\ posts' = posts \o [i \in DOMAIN batch |->
                                   [msg |-> batch[i], conv |-> ConvOf(c, batch[i])]]
           /\ kept' = kept \cup (Len(posts) + 1 .. Len(posts'))
           /\ task' = [task EXCEPT ![c].pc = "ids", ![c].wanted = rest,
                                   ![c].batch = SetOf(batch)]
  <2> DEFINE B == SetOf(batch)
  <2>0. /\ rest = task[c].wanted \ B /\ batch = NextBatch(Texts(c))
        /\ posts' = posts \o [i \in DOMAIN batch |->
                                [msg |-> batch[i], conv |-> ConvOf(c, batch[i])]]
    BY <1>2
  <2> HIDE DEF batch
  <2>1. Grows /\ B \in SUBSET Texts(c)
        /\ NewPosts(B)
    <3>1. Grows
      BY <2>0, InsertIs
    <3>2. B \in SUBSET Texts(c)
      BY <2>0, InsertIs
    <3>3. NewPosts(B)
      BY <2>0, InsertIs
    <3> QED BY <3>1, <3>2, <3>3
  <2>2. B \in SUBSET Message
    BY <2>1, HasConvIs
  <2> HIDE DEF rest
  <2>3. Alters(c, {"pc", "wanted", "batch"}) /\ task'[c].wanted = rest /\ task'[c].pc = "ids"
    <3> HIDE DEF B
    <3>1. task' = [task EXCEPT ![c].pc = "ids", ![c].wanted = rest, ![c].batch = B]
      BY <1>2 DEF B
    <3> QED BY ZenonT(60), <1>0, <1>1, <2>2, <3>1, InsertFacts
  <2> HIDE DEF B
  <2>4. /\ task'[c].read = task[c].read /\ task'[c].sound = task[c].sound
        /\ task'[c].chats = task[c].chats
    BY <2>3 DEF Alters, Agree
  <2>5. B \subseteq Known' /\ ChatwootStays
    <3>1. B \subseteq Known'
      BY ZenonT(60), <1>2, <2>1 DEF Known, NewPosts
    <3>2. Known \subseteq Known'
      BY <1>2, <2>1, KnownStays
    <3> QED BY <1>0, <3>1, <3>2 DEF ChatwootStays
  <2>6. ASSUME NEW m \in Message \ Known', Carries(c, m) PROVE Carries(c, m)'
    <3> SUFFICES ASSUME Carried(c, m) PROVE Carried(c, m)'
      BY <2>4, <2>6 DEF Carries
    <3>1. m \in rest
      BY <1>0, <2>0, <2>5 DEF Carried, Inserting
    <3>2. Prepared(c, m)'
      BY <1>0, <2>4, <2>5, PreparedKept DEF Carried
    <3> QED BY <2>3, <3>1, <3>2 DEF Carried, Inserting
  <2> QED BY <1>0, <2>5, <2>6, ImportStep
<1>3. CASE task' = [task EXCEPT ![c].wanted = rest, ![c].sound = FALSE]
           /\ UNCHANGED <<posts, kept, dated>>
  <2> HIDE DEF rest
  <2>1. task'[c].sound = FALSE
    BY <1>0, <1>1, <1>3, SkipFacts
  <2>2. ChatwootStays
    BY <1>0, <1>3 DEF ChatwootStays, Known
  <2> QED BY <1>0, <2>1, <2>2, NothingCarried, ImportStep
<1> QED BY <1>2, <1>3 DEF InsertTexts

LEMMA ImportTexts ==
  ASSUME SyncBase, ImportInv, \A d, e \in Callers : d = e, NEW c \in Callers,
         LookUpIds(c) \/ Record(c) \/ Recorded(c) \/ TextsDone(c)
  PROVE  ImportInv'
<1>0. /\ task \in [Callers -> Task] /\ {"record", "text", "media"} \subseteq PCs
      /\ UNCHANGED <<chatwoot, rounds>> /\ task[c] \in Task
      /\ task[c].pc \in {"text", "ids", "record"}
  BY DEF LookUpIds, Record, Recorded, TextsDone, At, PCs, SyncBase, SyncShape
<1>1. ChatwootStays /\ Known' = Known
  BY <1>0, StaysUnchanged DEF Known, chatwoot
<1>2. CASE \E F \in {{"pc", "ids"}, {"pc", "batch"}, {"ids"}} :
             Alters(c, F) /\ task'[c].pc \in {"text", "ids", "record"}
  <2>1. /\ task'[c].read = task[c].read /\ task'[c].sound = task[c].sound
        /\ task'[c].chats = task[c].chats /\ task'[c].wanted = task[c].wanted
    BY <1>2 DEF Alters, Agree
  <2>2. ASSUME NEW m \in Message \ Known', Carries(c, m) PROVE Carries(c, m)'
    <3> SUFFICES ASSUME Carried(c, m) PROVE Carried(c, m)'
      BY <2>1, <2>2 DEF Carries
    <3>1. Prepared(c, m)'
      BY <1>0, <1>1, <2>1, PreparedKept DEF Carried
    <3> QED BY <1>0, <1>2, <2>1, <3>1 DEF Carried, Inserting
  <2> QED BY <1>0, <1>1, <2>2, ImportStep
<1>3. CASE LookUpIds(c)
  <2> DEFINE S == Ids(task[c].batch)
  <2>1. S \in SUBSET (Message \X Nat)
    BY <1>0, IdsAre DEF SyncBase, Task
  <2>2. CASE task' = [task EXCEPT ![c].pc = "record", ![c].ids = S]
    <3> HIDE DEF S
    <3>1. Alters(c, {"pc", "ids"}) /\ task'[c].pc = "record"
      BY <1>0, <2>1, <2>2, IdsFacts
    <3> QED BY <1>2, <3>1
  <2>3. CASE task' = [task EXCEPT ![c].pc = "text", ![c].batch = {}]
    <3>1. Alters(c, {"pc", "batch"}) /\ task'[c].pc = "text"
      BY <1>0, <2>3, BackFacts
    <3> QED BY <1>2, <3>1
  <2> QED BY <1>3, <2>2, <2>3 DEF LookUpIds
<1>4. CASE Record(c)
  <2>1. PICK x \in task[c].ids : task' = [task EXCEPT ![c].ids = {y \in task[c].ids : y[1] # x[1]}]
    BY <1>4 DEF Record
  <2> DEFINE S == {y \in task[c].ids : y[1] # x[1]}
  <2>2. S \in SUBSET (Message \X Nat) /\ task' = [task EXCEPT ![c].ids = S]
    BY <1>0, <2>1 DEF Task
  <2> HIDE DEF S
  <2>3. Alters(c, {"ids"})
    BY <1>0, <2>2, RecordFacts
  <2>4. task'[c].pc = task[c].pc
    BY <2>3 DEF Alters, Agree
  <2> QED BY <1>0, <1>2, <2>3, <2>4
<1>5. CASE Recorded(c)
  <2>1. Alters(c, {"pc", "batch"}) /\ task'[c].pc = "text"
    BY <1>0, <1>5, BackFacts DEF Recorded
  <2> QED BY <1>2, <2>1
<1>6. CASE TextsDone(c)
  <2> DEFINE S == HasConv(c)
  <2>1. S \in SUBSET Message
    BY HasConvIs
  <2>2. task' = [task EXCEPT ![c].pc = "media", ![c].jobs = S] /\ task[c].pc = "text"
    BY <1>6 DEF TextsDone, At
  <2> HIDE DEF S
  <2>3. Alters(c, {"pc", "jobs"}) /\ task'[c].jobs = S /\ task'[c].pc = "media"
    BY <1>0, <2>1, <2>2, JobsFacts
  <2>4. /\ task'[c].read = task[c].read /\ task'[c].sound = task[c].sound
        /\ task'[c].chats = task[c].chats
    BY <2>3 DEF Alters, Agree
  <2>5. ASSUME NEW m \in Message \ Known', Carries(c, m) PROVE Carries(c, m)'
    <3> SUFFICES ASSUME Carried(c, m) PROVE Carried(c, m)'
      BY <2>4, <2>5 DEF Carries
    <3>1. Prepared(c, m)'
      BY <1>0, <1>1, <2>4, PreparedKept DEF Carried
    <3>2. HasMapping(c, m)' => m \in S
      BY <2>2, <2>4 DEF HasMapping, HasConv, S, Carried, Inserting
    <3> QED BY <2>3, <3>1, <3>2 DEF Carried, Inserting
  <2> QED BY <1>0, <1>1, <2>5, ImportStep
<1> QED BY <1>3, <1>4, <1>5, <1>6

LEMMA ImportUpload ==
  ASSUME SyncBase, ImportInv, \A d, e \in Callers : d = e, NEW c \in Callers, NEW m \in Media,
         Upload(c, m)
  PROVE  ImportInv'
<1>0. /\ m \in task[c].busy /\ m \in Message /\ task[c].pc = "media"
      /\ UNCHANGED <<contacts, inboxes, conv, rounds>>
  BY ChatSyncAssumption DEF Upload, SyncBase, PoolsRight, PoolRight
<1>1. CASE PostTo(m, ConvOf(c, m)) /\ JobDone(c, m, {LastPost + 1})
  <2>1. /\ ConvOf(c, m) \in Nat /\ posts \in Seq(Post)
        /\ posts' = Append(posts, [msg |-> m, conv |-> ConvOf(c, m)])
        /\ kept' = kept \cup {LastPost + 1}
    BY <1>0, <1>1, ConvOfIs DEF SyncBase, SyncShape, PoolsRight, PoolRight, PostTo
  <2>2. Grows /\ LastPost + 1 \in PostIds' /\ posts'[LastPost + 1].msg = m
    <3>1. [msg |-> m, conv |-> ConvOf(c, m)] \in Post
      BY <1>0, <2>1 DEF Post
    <3> QED BY <2>1, <3>1 DEF Grows, PostIds, LastPost
  <2>3. ChatwootStays /\ m \in Known'
    BY <1>0, <2>1, <2>2, KnownStays DEF ChatwootStays, Known
  <2>4. /\ Alters(c, {"busy", "done", "sound"}) /\ task'[c].busy = task[c].busy \ {m}
        /\ task'[c].sound = (task[c].sound /\ {LastPost + 1} # {})
    BY <1>0, <1>1, <2>2, JobDoneIs
  <2>5. /\ task'[c].jobs = task[c].jobs /\ task'[c].pc = "media" /\ task'[c].read = task[c].read
        /\ task'[c].chats = task[c].chats
    BY <1>0, <2>4 DEF Alters, Agree
  <2>6. ASSUME NEW n \in Message \ Known', Carries(c, n) PROVE Carries(c, n)'
    <3> SUFFICES ASSUME Carried(c, n) PROVE Carried(c, n)'
      BY <2>4, <2>5, <2>6 DEF Carries
    <3>1. Prepared(c, n)'
      BY <1>0, <2>3, <2>5, PreparedKept DEF Carried
    <3>2. HasMapping(c, n)' => n \in task'[c].jobs \cup task'[c].busy
      <4>1. HasMapping(c, n)' => HasMapping(c, n)
        BY <2>5 DEF HasMapping
      <4> QED BY <1>0, <2>3, <2>4, <2>5, <4>1 DEF Carried
    <3> QED BY <2>5, <3>1, <3>2 DEF Carried, Inserting
  <2> QED BY <1>0, <2>3, <2>6, ImportStep
<1>2. CASE JobDone(c, m, {}) /\ (PostTo(m, ConvOf(c, m)) \/ UNCHANGED <<posts, kept>>)
  <2>1. ConvOf(c, m) \in Nat /\ posts \in Seq(Post) /\ [msg |-> m, conv |-> ConvOf(c, m)] \in Post
    BY <1>0, ConvOfIs DEF SyncBase, SyncShape, PoolsRight, PoolRight, Post
  <2>2. Grows /\ kept \subseteq kept'
    <3>1. CASE PostTo(m, ConvOf(c, m))
      BY <2>1, <3>1 DEF PostTo, Grows, PostIds
    <3>2. CASE UNCHANGED <<posts, kept>>
      BY <3>2, Stands DEF SyncBase
    <3> QED BY <1>2, <3>1, <3>2
  <2>3. ChatwootStays
    BY <1>0, <2>2, KnownStays DEF ChatwootStays
  <2>4. task'[c].sound = (task[c].sound /\ {} # {})
    BY <1>0, <1>2, <2>2, JobDoneIs
  <2>5. ~task'[c].sound
    BY <2>4
  <2> QED BY <1>0, <2>3, <2>5, NothingCarried, ImportStep
<1> QED BY <1>1, <1>2 DEF Upload

LEMMA ImportPool ==
  ASSUME SyncBase, ImportInv, \A d, e \in Callers : d = e, NEW c \in Callers, Pool(c)
  PROVE  ImportInv'
<1>0. task \in [Callers -> Task] /\ {"dates", "done"} \subseteq PCs
  BY DEF SyncBase, SyncShape, PCs
<1>1. CASE TakeJob(c)
  <2>1. PICK n \in task[c].jobs :
          /\ Alters(c, {"jobs", "busy"}) /\ task'[c].jobs = task[c].jobs \ {n}
          /\ task'[c].busy = task[c].busy \cup {n}
    BY <1>1, TakeIs
  <2>2. /\ task'[c].pc = task[c].pc /\ task'[c].read = task[c].read /\ task[c].pc = "media"
        /\ task'[c].chats = task[c].chats /\ task'[c].sound = task[c].sound
        /\ task'[c].jobs \cup task'[c].busy = task[c].jobs \cup task[c].busy
    BY <1>1, <2>1 DEF Alters, Agree, TakeJob, At
  <2>3. ChatwootStays /\ rounds' = rounds
    BY <1>1, StaysUnchanged DEF TakeJob
  <2>4. ASSUME NEW m \in Message \ Known', Carries(c, m) PROVE Carries(c, m)'
    <3> SUFFICES ASSUME Carried(c, m) PROVE Carried(c, m)'
      BY <2>2, <2>4 DEF Carries
    <3>1. Prepared(c, m)'
      BY <2>2, <2>3, PreparedKept DEF Carried
    <3>2. HasMapping(c, m)' => m \in task'[c].jobs \cup task'[c].busy
      BY <2>2 DEF Carried, HasMapping
    <3> QED BY <2>2, <3>1, <3>2 DEF Carried, Inserting
  <2> QED BY <2>3, <2>4, ImportStep
<1>2. CASE \E m \in Media : Upload(c, m)
  BY <1>2, ImportUpload
<1>3. CASE UploadsDone(c) \/ SetDates(c)
  <2>1. PICK q \in {"dates", "done"} : GoesTo(c, q)
    BY <1>3 DEF UploadsDone, SetDates
  <2>2. Alters(c, {"pc"}) /\ task'[c].pc = q
    BY <1>0, <2>1, GoesFacts DEF GoesTo
  <2>3. /\ task'[c].read = task[c].read /\ task'[c].chats = task[c].chats
        /\ task'[c].sound = task[c].sound
    BY <2>2 DEF Alters, Agree
  <2>4. ChatwootStays /\ rounds' = rounds
    BY <1>3 DEF UploadsDone, SetDates, ChatwootStays, Known, chatwoot
  <2>5. task[c].pc = "dates" \/ (task[c].pc = "media" /\ task[c].jobs = {} /\ task[c].busy = {})
    BY <1>3 DEF UploadsDone, SetDates, At
  <2>6. ASSUME NEW m \in Message \ Known', Carries(c, m) PROVE Carries(c, m)'
    <3> SUFFICES ASSUME Carried(c, m) PROVE Carried(c, m)'
      BY <2>3, <2>6 DEF Carries
    <3>1. Prepared(c, m)'
      BY <2>3, <2>4, <2>5, PreparedKept DEF Carried
    <3>2. ~HasMapping(c, m)'
      BY <2>3, <2>5 DEF Carried, HasMapping
    <3> QED BY <2>1, <2>2, <3>1, <3>2 DEF Carried, Inserting
  <2> QED BY <2>4, <2>6, ImportStep
<1> QED BY <1>1, <1>2, <1>3 DEF Pool

LEMMA ImportFinish ==
  ASSUME SyncBase, ImportInv, \A d, e \in Callers : d = e, NEW c \in Callers, Finish(c)
  PROVE  ImportInv'
<1>0. /\ ChatwootStays /\ UNCHANGED chatwoot /\ task' = [task EXCEPT ![c] = Off]
      /\ task \in [Callers -> Task] /\ task[c].pc \in {"done", "fail"}
      /\ rounds' = [m \in Message |-> IF m \in task[c].read /\ task[c].sound
                                      THEN rounds[m] + 1 ELSE rounds[m]]
      /\ rounds \in [Message -> Nat]
  BY StaysUnchanged DEF Finish, SyncBase, SyncShape
<1>1. ASSUME NEW m \in Message \ Known', NEW d \in Callers PROVE Carries(d, m)'
  <2>1. d = c /\ task'[c].read = {}
    BY <1>0 DEF Off
  <2> QED BY <2>1 DEF Carries
<1>2. ASSUME NEW m \in Message \ Known', Progress(m), \A d \in Callers : Carries(d, m)
      PROVE  Progress(m)'
  <2>1. rounds[m] \in Nat /\ conv' = conv /\ contacts' = contacts /\ inboxes' = inboxes
    BY <1>0 DEF chatwoot
  <2>2. CASE m \in task[c].read /\ task[c].sound
    <3>1. Carried(c, m)
      BY <1>2, <2>2 DEF Carries
    <3>2. Prepared(c, m) /\ ~HasMapping(c, m)
      BY <1>0, <3>1 DEF Carried, Inserting
    <3>3. rounds'[m] = rounds[m] + 1
      BY <1>0, <2>2
    <3> QED BY <2>1, <3>2, <3>3 DEF Prepared, Progress, ChatLinked
  <2>3. CASE ~(m \in task[c].read /\ task[c].sound)
    <3>1. rounds'[m] = rounds[m]
      BY <1>0, <2>3
    <3> QED BY <1>2, <2>1, <3>1 DEF Progress, ChatLinked
  <2> QED BY <2>2, <2>3
<1> QED BY <1>0, <1>1, <1>2 DEF ImportInv, Posted, ChatwootStays

LEMMA ImportReset == ASSUME SyncBase, Reset PROVE ImportInv'
<1>1. /\ task' = Unsound /\ rounds' = [m \in Message |-> 0] /\ task \in [Callers -> Task]
  BY DEF Reset, ResetMessages, ResetConversations, ResetInboxes, ResetContacts, SyncBase, SyncShape
<1>2. \A c \in Callers : task'[c].sound = FALSE
  BY <1>1, UnsoundIs
<1>3. \A m \in Message : Progress(m)'
  BY <1>1 DEF Progress
<1> QED BY <1>2, <1>3 DEF ImportInv, Carries

LEMMA ImportBridge ==
  ASSUME SyncBase, ImportInv, NEW m \in Message, BridgeSteps(m) PROVE ImportInv'
<1>1. UNCHANGED <<task, rounds>> /\ contacts \subseteq contacts' /\ inboxes \subseteq inboxes'
  BY DEF BridgeSteps, SaveHistory, Arrive, BridgePosts, BridgeRecords, chatwoot
<1>2. conv \in [Chats -> Nat] /\ era \in Nat \ {0} /\ posts \in Seq(Post)
      /\ \A x \in Chats : conv[x] \in 0 .. era
  BY DEF SyncBase, SyncShape, ConvsRight
<1>3. Grows /\ kept \subseteq kept' /\ \A x \in Chats : conv[x] # 0 => conv'[x] # 0
  <2>1. CASE BridgePosts(m)
    <3> DEFINE x == ChatOf[m]
    <3>1. /\ conv' = [conv EXCEPT ![x] = IF conv[x] = 0 THEN era ELSE conv[x]]
          /\ posts' = Append(posts, [msg |-> m, conv |-> conv'[x]]) /\ kept \subseteq kept'
          /\ x \in Chats
      BY <2>1 DEF BridgePosts, PostTo, Chats
    <3>2. conv' \in [Chats -> Nat] /\ \A y \in Chats : conv[y] # 0 => conv'[y] # 0
      BY <1>2, <3>1
    <3>3. [msg |-> m, conv |-> conv'[x]] \in Post
      BY <3>1, <3>2 DEF Post
    <3> HIDE DEF x
    <3>4. Grows
      BY <1>2, <3>1, <3>3 DEF Grows, PostIds
    <3> QED BY <3>1, <3>2, <3>4
  <2>2. CASE UNCHANGED chatwoot
    BY <2>2, Stands DEF chatwoot, SyncBase
  <2> QED BY <2>1, <2>2 DEF BridgeSteps, SaveHistory, Arrive, BridgeRecords
<1>4. ChatwootStays
  BY <1>1, <1>3, KnownStays DEF ChatwootStays
<1>5. ASSUME NEW n \in Message \ Known'
      PROVE  /\ Progress(n) => Progress(n)'
             /\ \A c \in Callers : Carries(c, n) /\ Progress(n) => Carries(c, n)'
  <2>1. Progress(n) => Progress(n)'
    BY <1>1, <1>4, ProgressKept
  <2>2. ASSUME NEW c \in Callers, Carried(c, n) PROVE Carried(c, n)'
    <3>1. Prepared(c, n) => Prepared(c, n)'
      BY <1>1, <1>4, PreparedKept
    <3>2. ChatOf[n] \in Chats
      BY DEF Chats
    <3> QED BY <1>1, <1>3, <2>2, <3>1, <3>2 DEF Carried, ChatLinked, HasMapping
  <2>3. ASSUME NEW c \in Callers, Carries(c, n) PROVE Carries(c, n)'
    BY <1>1, <2>2, <2>3 DEF Carries
  <2> QED BY <2>1, <2>3
<1> QED BY <1>4, <1>5, ImportKept

LEMMA ImportNext ==
  ASSUME SyncBase, ImportInv, \A d, e \in Callers : d = e, [Next]_vars
  PROVE  ImportInv'
<1>1. ASSUME NEW c \in Callers, Check(c) PROVE ImportInv'
  <2>1. \E t \in SyncTypes : task' = [task EXCEPT ![c] = [Off EXCEPT !.pc = "set", !.type = t]]
    BY <1>1 DEF Check
  <2>2. task'[c].read = {} /\ UNCHANGED <<chatwoot, rounds>>
    BY <1>1, <2>1 DEF Check, Off, SyncBase, SyncShape
  <2> QED BY <2>2, StaysUnchanged, NothingCarried, ImportStep
<1>2. ASSUME NEW c \in Callers, Run(c) PROVE ImportInv'
  BY <1>2, ImportStart, ImportCreate, ImportInsert, ImportTexts, ImportPool, ImportFinish
  DEF Run, InsertAll
<1>3. CASE Crash
  <2>1. UNCHANGED <<chatwoot, rounds>> /\ \A c \in Callers : task'[c].read = {}
    BY <1>3 DEF Crash, Off
  <2>2. \A m \in Message, c \in Callers : Carries(c, m)'
    BY <2>1 DEF Carries
  <2> QED BY <2>1, <2>2, StaysUnchanged, ProgressKept, ImportKept
<1>4. CASE UNCHANGED vars
  BY <1>4 DEF vars, chatwoot, ImportInv, Posted, Known, Progress, ChatLinked, Carries, Carried,
              Prepared, HasMapping
<1> QED BY <1>1, <1>2, <1>3, <1>4, ImportBridge, ImportReset DEF Next

(* CreateContactsAndConversationsOptimized and its fallback: three syncs   *)
(* without error bring every message they saw to Chatwoot, whatever the    *)
(* bridge posts and whatever fails between them, one sync at a time.       *)
THEOREM ThreeSyncsImport ==
  (\A c, d \in Callers : c = d) => (Spec => []ImportedAfterThree)
<1> SUFFICES ASSUME \A c, d \in Callers : c = d PROVE Spec => []ImportedAfterThree
  OBVIOUS
<1>1. Init => ImportInv
  BY DEF Init, Off, ImportInv, Progress, Carries
<1>2. SyncBase /\ ImportInv /\ [Next]_vars => ImportInv'
  BY ImportNext
<1>3. SyncBase /\ ImportInv => ImportedAfterThree
  <2> SUFFICES ASSUME SyncBase, ImportInv, NEW m \in Message, rounds[m] >= 3 PROVE Posted(m)
    BY DEF ImportedAfterThree
  <2>1. rounds[m] \in Nat
    BY DEF SyncBase, SyncShape
  <2> QED BY <2>1 DEF ImportInv, Progress
<1> QED BY <1>1, <1>2, <1>3, BaseHolds, PTL DEF Spec
==============================================================================
