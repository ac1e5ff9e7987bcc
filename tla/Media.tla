-------------------------------- MODULE Media --------------------------------
(***************************************************************************)
(* Media of WhatsApp messages: internal/service/media.go, the media rows,  *)
(* and what the message event, the history sync and the HTTP API do with   *)
(* them.  A media is downloaded from a path that WhatsApp lets expire; a   *)
(* retry request makes the sender's phone upload it again, to a new path.  *)
(*                                                                         *)
(* Two kinds of downloads run beside each other.  Batches (the history     *)
(* loop and the API's "process" request) guard each media with             *)
(* tryStartDownload; the goroutines of a message event, of an answered     *)
(* retry request and of the API's "retry" request do not.                  *)
(***************************************************************************)
EXTENDS Naturals, Sequences, FiniteSets, SequencesExt

CONSTANTS
  Medias,       (* messages with a media                                   *)
  SessionOf,    (* the session of each                                     *)
  Keyless,      (* medias whose event carried no media key                 *)
  BatchSize,    (* rows one batch reads: 5, or 10 for a request            *)
  Tries,        (* attempts after which batches leave a row alone: 3       *)
  EmptyBatches, (* empty batches after which the history loop ends: 3      *)
  NoSession,    (* the history loop runs for no session                    *)
  Forcing,      (* may the API force a download?                           *)
  MaxEvents,    (* bound on message events                                 *)
  MaxRequests,  (* bound on "process" and on forced "retry" requests       *)
  MaxAnswers,   (* bound on answers of the phone                           *)
  MaxFaults,    (* bound on statements that the database fails             *)
  MaxCrashes    (* bound on crashes                                        *)

Sessions == {SessionOf[m] : m \in Medias}
Workers == {"history", "request"}
Kinds == {"event", "answer", "forced"}

ASSUME MediaAssumption ==
  /\ IsFiniteSet(Medias) /\ Keyless \subseteq Medias /\ NoSession \notin Sessions
  /\ BatchSize \in Nat \ {0} /\ Tries \in Nat \ {0} /\ EmptyBatches \in Nat \ {0}
  /\ Forcing \in BOOLEAN
  /\ {MaxEvents, MaxRequests, MaxAnswers, MaxFaults, MaxCrashes} \subseteq Nat

VARIABLES
  rows,        (* the rows, oldest first                                   *)
  row,         (* of each media: its row                                   *)
  bucket,      (* medias whose file is in the object store                 *)
  gone,        (* medias whose first path expired at WhatsApp              *)
  asked,       (* medias the phone was asked for and has not answered      *)
  pending,     (* pendingRetries: medias whose key waits for the answer    *)
  downloading, (* the guard of the batches                                 *)
  running,     (* historySyncRunning: the session the loop runs for        *)
  work,        (* of each worker: its step, its batch, did it try a media  *)
               (* of it, empty batches; and history: did the batch only    *)
               (* pass over medias that another one held, or fail to read? *)
  fetch,       (* downloads outside the batches: media, kind, path, step   *)
  count,       (* events, requests, answers, faults, crashes so far        *)
  tries,       (* history: downloads by batches since the row was saved    *)
  left,        (* history: medias saved while a history loop ran, or that  *)
               (* waited when it was cut off or ended on a batch that had  *)
               (* passed all its medias over                               *)
  unserved     (* history: medias a forced download found expired and      *)
               (* asked nobody for                                         *)

store == <<rows, row, bucket>>
phone == <<gone, asked>>
history == <<tries, left, unserved>>
vars == <<store, phone, pending, downloading, running, work, fetch, count,
          history>>

NoRow == [state |-> "none", path |-> "old", attempts |-> 0]
NewRow == [state |-> "pending", path |-> "old", attempts |-> 0]
Starts(pc) ==
  [pc |-> pc, batch |-> <<>>, tried |-> FALSE, empty |-> 0, passed |-> FALSE]
Rest == Starts("off")
Snapshot == [media : Medias, path : {"old", "new"}]

Bounds == [events |-> MaxEvents, requests |-> MaxRequests,
           answers |-> MaxAnswers, faults |-> MaxFaults, crashes |-> MaxCrashes]

TypeOK ==
  /\ rows \in Seq(Medias)
  /\ row \in [Medias -> [state : {"none", "pending", "stored"},
                         path : {"old", "new"}, attempts : Nat]]
  /\ bucket \subseteq Medias
  /\ gone \subseteq Medias /\ asked \subseteq Medias
  /\ pending \subseteq Medias /\ downloading \subseteq Medias
  /\ running \in Sessions \cup {NoSession}
  /\ work \in [Workers -> [pc : {"off", "check", "query", "next", "get", "put",
                                 "pause"},
                           batch : Seq(Snapshot), tried : BOOLEAN,
                           empty : 0 .. EmptyBatches, passed : BOOLEAN]]
  /\ fetch \subseteq [media : Medias, kind : Kinds, path : {"old", "new"},
                      pc : {"get", "put"}]
  /\ \A k \in DOMAIN count : count[k] \in 0 .. Bounds[k]
  /\ tries \in [Medias -> Nat]
  /\ left \subseteq Medias /\ unserved \subseteq Medias

Init ==
  /\ rows = <<>>
  /\ row = [m \in Medias |-> NoRow]
  /\ bucket = {} /\ gone = {} /\ asked = {}
  /\ pending = {} /\ downloading = {}
  /\ running = NoSession
  /\ work = [w \in Workers |-> Rest]
  /\ fetch = {}
  /\ count = [k \in DOMAIN Bounds |-> 0]
  /\ tries = [m \in Medias |-> 0]
  /\ left = {} /\ unserved = {}

Counts(k) == count[k] < Bounds[k] /\ count' = [count EXCEPT ![k] = @ + 1]

------------------------------------------------------------------------------
(* Rows are made by message events and by history syncs.                   *)

(* Media.Save.  On a repeated event its COALESCEs meet empty strings and   *)
(* FALSE, which are not NULL: a stored media is pending again.  The path   *)
(* is the one of the first event.                                          *)
Save(m) ==
  /\ row' = [row EXCEPT ![m] = [state |-> "pending", path |-> @.path, attempts |-> 0]]
  /\ rows' = IF row[m].state = "none" THEN Append(rows, m) ELSE rows

Fetch(m, kind, path) ==
  fetch' = fetch \cup {[media |-> m, kind |-> kind, path |-> path, pc |-> "get"]}

MessageEvent(m) ==
  /\ Counts("events")
  /\ Save(m)
  /\ Fetch(m, "event", row[m].path)
  /\ tries' = [tries EXCEPT ![m] = 0]
  /\ left' = IF running = NoSession THEN left ELSE left \cup {m}
  /\ UNCHANGED <<bucket, phone, pending, downloading, running, work, unserved>>

(* SaveBatch inserts what is new, then ProcessHistorySyncMedia starts the  *)
(* loop, unless one runs, for this session or for another.                 *)
HistorySync(s) ==
  \E M \in SUBSET {m \in Medias : SessionOf[m] = s /\ row[m].state = "none"} :
    /\ M # {}
    /\ Counts("events")
    /\ row' = [m \in Medias |-> IF m \in M THEN NewRow ELSE row[m]]
    /\ rows' = rows \o SetToSeq(M)
    /\ IF running = NoSession
       THEN /\ running' = s
            /\ work' = [work EXCEPT !["history"] = Starts("check")]
            /\ UNCHANGED left
       ELSE left' = left \cup M /\ UNCHANGED <<running, work>>
    /\ UNCHANGED <<bucket, phone, pending, downloading, fetch, tries, unserved>>

------------------------------------------------------------------------------
(* DownloadAndStore, in two steps: the download, then upload and row.      *)

(* The outcomes of the first: the file, "expired", or another error.  An   *)
(* offline client and a media without key are errors before any attempt    *)
(* and leave the row alone.                                                *)
Expired(f) == f.path = "old" /\ f.media \in gone
(* A statement changes the row, or fails: nobody looks at its error.       *)
Writes(m, r) ==
  \/ row' = [row EXCEPT ![m] = r] /\ UNCHANGED count
  \/ Counts("faults") /\ UNCHANGED row
Attempt(m) == Writes(m, [row[m] EXCEPT !.attempts = @ + 1])

Downloads(f) == f.media \notin Keyless /\ ~Expired(f) /\ UNCHANGED <<row, count>>
Refused == UNCHANGED <<row, count>>
Fails(f) == f.media \notin Keyless /\ Attempt(f.media)

Stored(r) == [state |-> "stored", path |-> r.path, attempts |-> r.attempts + 1]
(* Mutant: a failed upload does not keep the row from being updated.       *)
StoresAnyway(m) ==
  /\ bucket' = bucket \cup {m} \/ UNCHANGED bucket
  /\ Writes(m, Stored(row[m]))

(* Upload, then UpdateDownloadStatus; or the upload fails.                 *)
Stores(m) ==
  \/ bucket' = bucket \cup {m} /\ Writes(m, Stored(row[m]))
  \/ UNCHANGED bucket /\ Attempt(m)

(* SendMediaRetryRequest registers the key before it sends; a failed send  *)
(* removes it again.                                                       *)
AskPhone(m) ==
  \/ pending' = pending \cup {m} /\ asked' = asked \cup {m}
  \/ pending' = pending \ {m} /\ UNCHANGED asked

------------------------------------------------------------------------------
(* Batches: ProcessPendingDownloads, and the history loop around it.       *)

Worker(w, f) == work' = [work EXCEPT ![w] = f]
Session(w) == IF w = "history" THEN {running} ELSE Sessions

(* Mutant: the limit admits one attempt more.                              *)
WantedLater(m) == row[m].state = "pending" /\ row[m].attempts <= Tries

(* GetPendingDownloads: what a batch reads.                                *)
Wanted(m) == row[m].state = "pending" /\ row[m].attempts < Tries

(* The numbers of a finite set in ascending order.                         *)
Ascending(S) ==
  CHOOSE f \in [1 .. Cardinality(S) -> S] : \A i, j \in DOMAIN f : i < j => f[i] < f[j]
PendingDownloads(s) ==
  LET wanted == {i \in DOMAIN rows : SessionOf[rows[i]] = s /\ Wanted(rows[i])}
      oldest == {i \in wanted : Cardinality({j \in wanted : j < i}) < BatchSize}
      order  == Ascending(oldest)
  IN [i \in 1 .. Cardinality(oldest) |->
        [media |-> rows[order[i]], path |-> row[rows[order[i]]].path]]

Request ==
  /\ work["request"].pc = "off"
  /\ Counts("requests")
  /\ Worker("request", Starts("query"))
  /\ UNCHANGED <<store, phone, pending, downloading, running, fetch, history>>

(* The loop looks at its deadline and its client before each batch.        *)
LoopContinues ==
  /\ work["history"].pc = "check"
  /\ Worker("history", [work["history"] EXCEPT !.pc = "query"])
  /\ UNCHANGED <<store, phone, pending, downloading, running, fetch, count,
                 history>>

LoopIsCutOff ==
  /\ work["history"].pc = "check"
  /\ Worker("history", Rest)
  /\ running' = NoSession
  /\ left' = left \cup {m \in Medias : SessionOf[m] = running /\ Wanted(m)}
  /\ UNCHANGED <<store, phone, pending, downloading, fetch, count, tries,
                 unserved>>

Reads(w, batch, failed) ==
  Worker(w, [pc |-> "next", batch |-> batch, tried |-> FALSE, empty |-> work[w].empty,
             passed |-> failed])
(* A query that fails gives an empty batch.                                *)
Query(w) ==
  /\ work[w].pc = "query"
  /\ \/ UNCHANGED count /\ \E s \in Session(w) : Reads(w, PendingDownloads(s), FALSE)
     \/ Counts("faults") /\ Reads(w, <<>>, TRUE)
  /\ UNCHANGED <<store, phone, pending, downloading, running, fetch, history>>

(* tryStartDownload.                                                       *)
Skip(w) ==
  /\ work[w].pc = "next" /\ work[w].batch # <<>>
  /\ Head(work[w].batch).media \in downloading
  /\ Worker(w, [work[w] EXCEPT !.batch = Tail(@), !.passed = ~work[w].tried])
  /\ UNCHANGED <<store, phone, pending, downloading, running, fetch, count,
                 history>>

(* Mutant: a media is taken although another batch works on it.            *)
TakeUnguarded(w) ==
  /\ work[w].pc = "next" /\ work[w].batch # <<>>
  /\ downloading' = downloading \cup {Head(work[w].batch).media}
  /\ Worker(w, [work[w] EXCEPT !.pc = "get"])
  /\ UNCHANGED <<store, phone, pending, running, fetch, count, history>>

Take(w) ==
  /\ work[w].pc = "next" /\ work[w].batch # <<>>
  /\ Head(work[w].batch).media \notin downloading
  /\ downloading' = downloading \cup {Head(work[w].batch).media}
  /\ Worker(w, [work[w] EXCEPT !.pc = "get"])
  /\ UNCHANGED <<store, phone, pending, running, fetch, count, history>>

(* finishDownload and the next media of the batch.                         *)
Finish(w) ==
  /\ downloading' = downloading \ {Head(work[w].batch).media}
  /\ Worker(w, [work[w] EXCEPT !.pc = "next", !.batch = Tail(@), !.tried = TRUE,
                               !.passed = FALSE])
Tried(w) == tries' = [tries EXCEPT ![Head(work[w].batch).media] = @ + 1]

BatchGet(w) ==
  /\ work[w].pc = "get"
  /\ LET f == Head(work[w].batch) IN
       \/ /\ Downloads(f) /\ Tried(w)
          /\ Worker(w, [work[w] EXCEPT !.pc = "put"])
          /\ UNCHANGED <<pending, asked, downloading>>
       \/ /\ Refused /\ Finish(w)
          /\ UNCHANGED <<pending, asked, tries>>
       \/ /\ Fails(f) /\ Finish(w) /\ Tried(w)
          /\ IF Expired(f) THEN AskPhone(f.media) ELSE UNCHANGED <<pending, asked>>
  /\ UNCHANGED <<rows, bucket, gone, running, fetch, left, unserved>>

BatchPut(w) ==
  /\ work[w].pc = "put"
  /\ Stores(Head(work[w].batch).media)
  /\ Finish(w)
  /\ UNCHANGED <<rows, phone, pending, running, fetch, history>>

(* A batch in which nothing was tried is an empty one, also when all its   *)
(* medias were skipped.                                                    *)
BatchDone(w) ==
  /\ work[w].pc = "next" /\ work[w].batch = <<>>
  /\ Worker(w, IF w = "request" THEN Rest
               ELSE [work[w] EXCEPT !.pc = "pause",
                                    !.empty = IF work[w].tried THEN 0 ELSE @ + 1])
  /\ UNCHANGED <<store, phone, pending, downloading, running, fetch, count,
                 history>>

(* Mutant: the loop ends at the first empty batch... of all its batches.   *)
LoopEndsEarly ==
  /\ work["history"].pc = "pause"
  /\ running' = NoSession
  /\ Worker("history", Rest)
  /\ UNCHANGED <<store, phone, pending, downloading, fetch, count, history>>

LoopPauses ==
  /\ work["history"].pc = "pause"
  /\ IF work["history"].empty < EmptyBatches
     THEN /\ Worker("history", [work["history"] EXCEPT !.pc = "check", !.passed = FALSE])
          /\ UNCHANGED <<running, left>>
     ELSE /\ Worker("history", Rest)
          /\ running' = NoSession
          /\ left' = IF work["history"].passed
                     THEN left \cup {m \in Medias : SessionOf[m] = running /\ Wanted(m)}
                     ELSE left
  /\ UNCHANGED <<store, phone, pending, downloading, fetch, count, tries,
                 unserved>>

------------------------------------------------------------------------------
(* Downloads outside the batches.                                          *)

(* RetryMediaDownload answers at once; its goroutine works under the       *)
(* context of the request it answered.                                     *)
ForceRetry(m) ==
  /\ Forcing
  /\ row[m].state # "none"
  /\ Counts("requests")
  /\ Fetch(m, "forced", row[m].path)
  /\ UNCHANGED <<store, phone, pending, downloading, running, work, history>>

FetchEnds(f) == fetch' = fetch \ {f}

FetchGet(f) ==
  /\ f.pc = "get"
  /\ \/ /\ Downloads(f)
        /\ fetch' = (fetch \ {f}) \cup {[f EXCEPT !.pc = "put"]}
        /\ UNCHANGED <<pending, asked>>
     \/ /\ Refused /\ FetchEnds(f)
        /\ UNCHANGED <<pending, asked>>
     \/ /\ Fails(f) /\ FetchEnds(f)
        /\ IF Expired(f) /\ f.kind = "forced" THEN AskPhone(f.media)
           ELSE UNCHANGED <<pending, asked>>
  /\ UNCHANGED <<rows, bucket, gone, downloading, running, work, history>>

(* The server cancels the context of a request when its handler returns.   *)
FetchCancelled(f) ==
  /\ f.kind = "forced"
  /\ FetchEnds(f)
  /\ unserved' = IF Expired(f) THEN unserved \cup {f.media} ELSE unserved
  /\ UNCHANGED <<store, phone, pending, downloading, running, work, count,
                 tries, left>>

FetchPut(f) ==
  /\ f.pc = "put"
  /\ Stores(f.media)
  /\ FetchEnds(f)
  /\ UNCHANGED <<rows, phone, pending, downloading, running, work, history>>

------------------------------------------------------------------------------
(* WhatsApp, the phone, and the process.                                   *)

Expire(m) ==
  /\ m \notin gone
  /\ gone' = gone \cup {m}
  /\ UNCHANGED <<store, asked, pending, downloading, running, work, fetch,
                 count, history>>

(* HandleMediaRetryResponse: unknown answers are dropped; a refusal forgets*)
(* the key; one that cannot be read changes nothing.                       *)
AnswerDropped(m) ==
  /\ m \in asked /\ m \notin pending
  /\ Counts("answers")
  /\ asked' = asked \ {m}
  /\ UNCHANGED <<store, gone, pending, downloading, running, work, fetch,
                 history>>

AnswerRefuses(m) ==
  /\ m \in asked /\ m \in pending
  /\ Counts("answers")
  /\ asked' = asked \ {m}
  /\ \/ pending' = pending \ {m}
     \/ UNCHANGED pending
  /\ UNCHANGED <<store, gone, downloading, running, work, fetch, history>>

AnswerSucceeds(m) ==
  /\ m \in asked /\ m \in pending
  /\ Counts("answers")
  /\ asked' = asked \ {m}
  /\ row' = [row EXCEPT ![m].path = "new"]
  /\ pending' = pending \ {m}
  /\ Fetch(m, "answer", "new")
  /\ UNCHANGED <<rows, bucket, gone, downloading, running, work, history>>

Crash ==
  /\ Counts("crashes")
  /\ pending' = {} /\ downloading' = {} /\ running' = NoSession /\ fetch' = {}
  /\ work' = [w \in Workers |-> Rest]
  /\ left' = left \cup {m \in Medias : Wanted(m)}
  /\ UNCHANGED <<store, phone, tries, unserved>>

------------------------------------------------------------------------------
Loop == LoopContinues \/ LoopIsCutOff \/ LoopPauses
Batch(w) == Query(w) \/ Skip(w) \/ Take(w) \/ BatchGet(w) \/ BatchPut(w)
            \/ BatchDone(w)
Alone == \E f \in fetch : FetchGet(f) \/ FetchPut(f) \/ FetchCancelled(f)
Answer(m) == AnswerDropped(m) \/ AnswerRefuses(m) \/ AnswerSucceeds(m)

Next ==
  \/ Loop \/ Request \/ Alone \/ Crash
  \/ \E w \in Workers : Batch(w)
  \/ \E s \in Sessions : HistorySync(s)
  \/ \E m \in Medias : MessageEvent(m) \/ ForceRetry(m) \/ Expire(m) \/ Answer(m)

Spec == Init /\ [][Next]_vars

(* Goroutines run, every network call has a timeout, and the history loop  *)
(* has a deadline, which it looks at before each batch.                    *)
Fairness ==
  /\ WF_vars(Loop) /\ WF_vars(Alone) /\ SF_vars(LoopIsCutOff)
  /\ \A w \in Workers : WF_vars(Batch(w))
FairSpec == Spec /\ Fairness

------------------------------------------------------------------------------
(* A row that counts as downloaded has its file in the object store,       *)
(* whatever overlaps, fails or crashes between upload and update.          *)
StoredHasFile == \A m \in Medias : row[m].state = "stored" => m \in bucket

(* Two batches never download the same media at the same time.             *)
OneBatchPerMedia ==
  \A v, w \in Workers :
    v # w /\ work[v].pc \in {"get", "put"} /\ work[w].pc \in {"get", "put"}
      => Head(work[v].batch).media # Head(work[w].batch).media

(* A media that cannot be had is given up: batches try it Tries times,     *)
(* once more only when another batch read its row before the last try, and *)
(* once more for each try that the database did not record or a crash cut  *)
(* off.                                                                    *)
TriesBounded ==
  \A m \in Medias :
    tries[m] <= Tries + Cardinality(Workers) - 1 + count.faults + count.crashes

(* A media that waits while the loop of its session runs, and was not saved *)
(* meanwhile, is downloaded or tried as often as allowed; or the deadline  *)
(* or a lost client cuts the loop off; or the loop ends because the medias *)
(* it read were all held by a request's batch (a skipped media is no tried *)
(* one, so such a batch counts as empty, and EmptyBatches of them end the  *)
(* loop), or because it could not read them; or it has no key.             *)
HistoryMediaTried ==
  \A m \in Medias :
    row[m].state = "pending" /\ running = SessionOf[m]
      ~> ~Wanted(m) \/ m \in left \cup Keyless

(* The API describes RetryMediaDownload as "Force retry downloading media  *)
(* from WhatsApp (sends retry request if needed)".                         *)
ForcedRetryAsks == unserved = {}
==============================================================================
