----------------------------- MODULE MediaProofs -----------------------------
(***************************************************************************)
(* Theorems about Media, for any medias, sessions, batches and bounds, and *)
(* in the second half about Content, for any two messages.                 *)
(* The invariant of the guard: a batch that downloads a media holds the    *)
(* guard of that media, and no two batches download the same.  The one who *)
(* finishes frees only what it held, so it frees nobody else's.            *)
(***************************************************************************)
EXTENDS Media, Content, FiniteSetTheorems, TLAPS

------------------------------------------------------------------------------
(* Numbers, and lists of finite sets.                                      *)

(* Every set of numbers that is not empty has a least one.                 *)
LEMMA Least == ASSUME NEW T \in SUBSET Nat, T # {} PROVE \E n \in T : \A m \in T : n <= m
<1> DEFINE F == {0 .. n : n \in T}
           R == StrictSubsetOrdering(Nat)
<1>1. IsWellFoundedOn(R, FiniteSubsetsOf(Nat))
  BY FS_StrictSubsetOrderingWellFounded
<1>2. F \subseteq FiniteSubsetsOf(Nat) /\ F # {}
  <2>1. ASSUME NEW n \in T PROVE 0 .. n \in FiniteSubsetsOf(Nat)
    <3>1. IsFiniteSet(0 .. n)
      BY FS_Interval
    <3> QED
      BY <3>1 DEF FiniteSubsetsOf
  <2> QED
    BY <2>1
<1>3. \E x \in F : \A y \in F : <<y, x>> \notin R
  <2> HIDE DEF F, R
  <2> QED
    BY <1>1, <1>2, WFMin
<1>4. PICK n \in T : \A m \in T : <<0 .. m, 0 .. n>> \notin R
  BY <1>3
<1>5. ASSUME NEW m \in T, m < n PROVE FALSE
  <2>1. 0 .. m \subseteq 0 .. n /\ n \in 0 .. n /\ n \notin 0 .. m
    BY <1>5
  <2>2. 0 .. m \in SUBSET Nat /\ 0 .. n \in SUBSET Nat
    OBVIOUS
  <2>3. <<0 .. m, 0 .. n>> \in R
    BY <2>1, <2>2 DEF StrictSubsetOrdering
  <2> QED
    BY <1>4, <2>3
<1> QED
  BY <1>4, <1>5

(* Induction over the numbers.                                             *)
LEMMA Induction ==
  ASSUME NEW S \in SUBSET Nat, 0 \in S, \A n \in S : n + 1 \in S
  PROVE  S = Nat
<1>1. CASE Nat \ S = {}
  BY <1>1
<1>2. CASE Nat \ S # {}
  <2>1. PICK n \in Nat \ S : \A m \in Nat \ S : n <= m
    BY <1>2, Least
  <2>2. n # 0 /\ n - 1 \in Nat /\ n - 1 \in S
    BY <2>1
  <2> QED
    BY <2>1, <2>2
<1> QED
  BY <1>1, <1>2

InOrder(f) == \A i, j \in DOMAIN f : i < j => f[i] < f[j]

(* Every finite set of numbers can be listed in ascending order.           *)
LEMMA Lists ==
  ASSUME NEW T \in SUBSET Nat, IsFiniteSet(T)
  PROVE  Ascending(T) \in [1 .. Cardinality(T) -> T] /\ InOrder(Ascending(T))
<1> DEFINE Listed(S) == \E f \in [1 .. Cardinality(S) -> S] : InOrder(f)
           L == {n \in Nat : \A S \in SUBSET Nat : IsFiniteSet(S) /\ Cardinality(S) = n => Listed(S)}
<1>1. 0 \in L
  <2> SUFFICES ASSUME NEW S \in SUBSET Nat, IsFiniteSet(S), Cardinality(S) = 0 PROVE Listed(S)
    OBVIOUS
  <2>1. 1 .. Cardinality(S) = {}
    OBVIOUS
  <2> WITNESS [i \in 1 .. Cardinality(S) |-> i] \in [1 .. Cardinality(S) -> S]
  <2> QED
    BY <2>1 DEF InOrder
<1>2. ASSUME NEW n \in L PROVE n + 1 \in L
  <2> SUFFICES ASSUME NEW S \in SUBSET Nat, IsFiniteSet(S), Cardinality(S) = n + 1 PROVE Listed(S)
    OBVIOUS
  <2>0. n \in Nat
    OBVIOUS
  <2>1. S # {}
    BY <2>0, FS_EmptySet
  <2>2. PICK x \in S : \A y \in S : x <= y
    BY <2>1, Least
  <2>3. IsFiniteSet(S \ {x}) /\ Cardinality(S \ {x}) = n
    BY <2>0, FS_RemoveElement
  <2>4. PICK f \in [1 .. n -> S \ {x}] : InOrder(f)
    <3>1. Listed(S \ {x})
      BY <2>3
    <3> QED
      BY <2>3, <3>1
  <2> DEFINE g == [i \in 1 .. n + 1 |-> IF i = 1 THEN x ELSE f[i - 1]]
  <2>5. g \in [1 .. Cardinality(S) -> S]
    BY <2>0, <2>4
  <2>6. ASSUME NEW i \in 1 .. n + 1, NEW j \in 1 .. n + 1, i < j PROVE g[i] < g[j]
    <3>1. j - 1 \in 1 .. n /\ f[j - 1] \in S \ {x} /\ g[j] = f[j - 1]
      BY <2>0, <2>4, <2>6
    <3>2. CASE i = 1
      <4>1. g[i] = x
        BY <3>2
      <4>2. x <= f[j - 1] /\ x # f[j - 1] /\ x \in Nat /\ f[j - 1] \in Nat
        BY <2>2, <3>1
      <4> HIDE DEF g
      <4> QED
        BY <3>1, <4>1, <4>2
    <3>3. CASE i # 1
      <4>1. i - 1 \in 1 .. n /\ i - 1 < j - 1 /\ g[i] = f[i - 1]
        BY <2>0, <2>6, <3>3
      <4> QED
        BY <2>4, <3>1, <4>1 DEF InOrder
    <3> QED
      BY <3>2, <3>3
  <2>7. InOrder(g)
    BY <2>6 DEF InOrder
  <2> HIDE DEF g
  <2> QED
    BY <2>5, <2>7
<1>3. L = Nat
  <2> HIDE DEF L
  <2>1. L \in SUBSET Nat
    BY DEF L
  <2> QED
    BY <1>1, <1>2, <2>1, Induction
<1>4. \E f \in [1 .. Cardinality(T) -> T] : InOrder(f)
  BY <1>3, FS_CardinalityType
<1> QED
  BY <1>4 DEF Ascending, InOrder

(* SetToSeq lists each element of a finite set once.                       *)
LEMMA ListsOnce ==
  ASSUME NEW S, IsFiniteSet(S)
  PROVE  /\ SetToSeq(S) \in [1 .. Cardinality(S) -> S]
         /\ \A i, j \in 1 .. Cardinality(S) : SetToSeq(S)[i] = SetToSeq(S)[j] => i = j
         /\ Cardinality(S) \in Nat
<1>1. Cardinality(S) \in Nat /\ ExistsBijection(1 .. Cardinality(S), S)
  BY FS_CardinalityType
<1>2. \E f \in [1 .. Cardinality(S) -> S] : IsInjective(f)
  BY <1>1 DEF ExistsBijection, Bijection, Injection, IsInjective
<1>3. SetToSeq(S) \in [1 .. Cardinality(S) -> S] /\ IsInjective(SetToSeq(S))
  BY <1>2 DEF SetToSeq
<1> QED
  BY <1>1, <1>3 DEF IsInjective

------------------------------------------------------------------------------
(* Batches.                                                                *)

USE MediaAssumption

Rows == [state : {"none", "pending", "stored"}, path : {"old", "new"}, attempts : Nat]
IsWork(r) ==
  r = [pc |-> r.pc, batch |-> r.batch, tried |-> r.tried, empty |-> r.empty,
       passed |-> r.passed]
At(w) == Head(work[w].batch).media
Busy(w) == work[w].pc \in {"get", "put"}

Shapes ==
  /\ row \in [Medias -> Rows]
  /\ DOMAIN work = Workers /\ \A w \in Workers : IsWork(work[w])
  /\ work = [w \in Workers |-> work[w]]
Guarded == \A w \in Workers : Busy(w) => At(w) \in downloading
IInv == Shapes /\ Guarded /\ OneBatchPerMedia /\ StoredHasFile

LEMMA Initial == Init => IInv
<1> SUFFICES ASSUME Init PROVE IInv
  OBVIOUS
<1>1. Shapes
  BY DEF Init, Shapes, Rows, NoRow, IsWork, Rest, Starts
<1>2. Guarded /\ OneBatchPerMedia
  BY DEF Init, Guarded, OneBatchPerMedia, Busy, Rest, Starts
<1>3. StoredHasFile
  BY DEF Init, StoredHasFile, NoRow
<1> QED
  BY <1>1, <1>2, <1>3 DEF IInv

(* Of the rows, a step changes what is typed and stored with its file.     *)
RowsWell == row' \in [Medias -> Rows] /\ StoredHasFile'

(* Steps of the batches.  Whoever begins a media takes its guard;          *)
LEMMA WorkerStep ==
  ASSUME IInv, RowsWell, NEW w \in Workers, NEW r, IsWork(r),
         work' = [work EXCEPT ![w] = r],
         \/ r.pc \notin {"get", "put"} /\ downloading' = downloading
         \/ /\ r.pc \in {"get", "put"} /\ Busy(w) /\ downloading' = downloading
            /\ r.batch = work[w].batch
         \/ /\ r.pc = "get" /\ r.batch = work[w].batch /\ At(w) \notin downloading
            /\ downloading' = downloading \cup {At(w)}
         \/ /\ r.pc \notin {"get", "put"} /\ Busy(w)
            /\ downloading' = downloading \ {At(w)}
  PROVE  IInv'
<1>1. \A v \in Workers : work'[v] = IF v = w THEN r ELSE work[v]
  BY DEF IInv, Shapes
<1>2. Shapes'
  BY <1>1 DEF IInv, Shapes, RowsWell
<1>3. \A v \in Workers : v # w => work'[v] = work[v] /\ At(v)' = At(v) /\ (Busy(v)' <=> Busy(v))
  BY <1>1 DEF At, Busy
<1>4. \A v \in Workers : v # w /\ Busy(v) /\ Busy(w) => At(v) # At(w)
  BY DEF IInv, OneBatchPerMedia, At, Busy
<1>5. Guarded'
  <2> SUFFICES ASSUME NEW v \in Workers, Busy(v)' PROVE At(v)' \in downloading'
    BY DEF Guarded
  <2>1. CASE v = w
    BY <1>1, <2>1 DEF IInv, Guarded, At, Busy
  <2>2. CASE v # w
    BY <1>3, <1>4, <2>2 DEF IInv, Guarded
  <2> QED
    BY <2>1, <2>2
<1>6. OneBatchPerMedia'
  <2> SUFFICES ASSUME NEW u \in Workers, NEW v \in Workers, u # v, Busy(u)', Busy(v)'
               PROVE At(u)' # At(v)'
    BY DEF OneBatchPerMedia, At, Busy
  <2>1. CASE u # w /\ v # w
    BY <1>3, <2>1 DEF IInv, OneBatchPerMedia, At, Busy
  <2>2. CASE u = w \/ v = w
    <3>1. \A z \in Workers : z # w /\ Busy(z)' => At(z)' # At(w)'
      <4> SUFFICES ASSUME NEW z \in Workers, z # w, Busy(z)' PROVE At(z)' # At(w)'
        OBVIOUS
      <4>1. Busy(w)' /\ At(w)' = At(w) /\ Busy(z) /\ At(z)' = At(z)
        BY <1>1, <1>3, <2>2 DEF At, Busy
      <4>2. CASE Busy(w)
        BY <1>4, <4>1, <4>2
      <4>3. CASE At(w) \notin downloading
        BY <4>1, <4>3 DEF IInv, Guarded
      <4>4. Busy(w) \/ At(w) \notin downloading
        BY <1>1, <4>1 DEF Busy
      <4> QED
        BY <4>2, <4>3, <4>4
    <3> QED
      BY <2>2, <3>1
  <2> QED
    BY <2>1, <2>2
<1> QED
  BY <1>2, <1>5, <1>6 DEF IInv, RowsWell

(* and all other steps leave the batches and the guard alone.              *)
LEMMA OtherStep ==
  ASSUME IInv, RowsWell, UNCHANGED <<work, downloading>>
  PROVE  IInv'
<1>1. Shapes' /\ Guarded'
  BY DEF IInv, Shapes, RowsWell, Guarded, Busy, At
<1>2. OneBatchPerMedia'
  BY DEF IInv, OneBatchPerMedia
<1> QED
  BY <1>1, <1>2 DEF IInv, RowsWell

LEMMA SameRows == ASSUME IInv, UNCHANGED <<row, bucket>> PROVE RowsWell
  BY DEF IInv, Shapes, RowsWell, StoredHasFile

LEMMA Attempts ==
  ASSUME IInv, NEW m, Attempt(m) \/ UNCHANGED row, UNCHANGED bucket
  PROVE  RowsWell
<1>1. row \in [Medias -> Rows]
  BY DEF IInv, Shapes
<1>2. row' = row \/ row' = [row EXCEPT ![m] = [row[m] EXCEPT !.attempts = @ + 1]]
  BY DEF Attempt, Writes
<1>3. \A n \in Medias : row'[n] \in Rows /\ row'[n].state = row[n].state
  BY <1>1, <1>2 DEF Rows
<1>4. row' \in [Medias -> Rows]
  BY <1>1, <1>2, <1>3
<1> QED
  BY <1>3, <1>4 DEF IInv, RowsWell, StoredHasFile

LEMMA Storing == ASSUME IInv, NEW m, Stores(m) PROVE RowsWell
<1>1. CASE UNCHANGED bucket /\ Attempt(m)
  BY <1>1, Attempts
<1>2. CASE bucket' = bucket \cup {m} /\ Writes(m, Stored(row[m]))
  <2>1. row \in [Medias -> Rows]
    BY DEF IInv, Shapes
  <2>2. row' = row \/ row' = [row EXCEPT ![m] = Stored(row[m])]
    BY <1>2 DEF Writes
  <2>3. \A n \in Medias : row'[n] \in Rows /\ (n # m => row'[n] = row[n])
    BY <2>1, <2>2 DEF Stored, Rows
  <2>4. row' \in [Medias -> Rows]
    BY <2>1, <2>2, <2>3
  <2> QED
    BY <1>2, <2>3, <2>4 DEF IInv, RowsWell, StoredHasFile
<1> QED
  BY <1>1, <1>2 DEF Stores

------------------------------------------------------------------------------
(* Each worker's steps.                                                    *)

LEMMA Begins == ASSUME IInv, Request \/ LoopContinues PROVE IInv'
<1>1. PICK w \in Workers : \E r : IsWork(r) /\ r.pc = "query" /\ work' = [work EXCEPT ![w] = r]
  <2>1. CASE Request
    BY <2>1 DEF Request, Worker, Workers, Starts, IsWork
  <2>2. CASE LoopContinues
    BY ZenonT(60), <2>2 DEF LoopContinues, Worker, Workers, IInv, Shapes, IsWork
  <2> QED
    BY <2>1, <2>2
<1>2. RowsWell /\ downloading' = downloading
  BY SameRows DEF Request, LoopContinues, store
<1> QED
  BY <1>1, <1>2, WorkerStep

LEMMA LoopEnds == ASSUME IInv, LoopIsCutOff \/ LoopPauses PROVE IInv'
<1>1. "history" \in Workers /\ IsWork(Rest) /\ Rest.pc = "off"
  BY DEF Workers, IsWork, Rest, Starts
<1>2. RowsWell /\ downloading' = downloading
  BY SameRows DEF LoopIsCutOff, LoopPauses, store
<1>3. CASE work' = [work EXCEPT !["history"] = Rest]
  BY <1>1, <1>2, <1>3, WorkerStep
<1> DEFINE no == FALSE
           r == [work["history"] EXCEPT !.pc = "check", !.passed = no]
<1>4. work' = [work EXCEPT !["history"] = Rest] \/ work' = [work EXCEPT !["history"] = r]
  BY DEF LoopIsCutOff, LoopPauses, Worker
<1> HIDE DEF no
<1>5. IsWork(r) /\ r.pc = "check"
  <2>1. IsWork(work["history"]) /\ r = [work["history"] EXCEPT !.pc = "check", !.passed = no]
    BY <1>1 DEF IInv, Shapes
  <2> HIDE DEF r
  <2> QED
    BY <2>1 DEF IsWork
<1> HIDE DEF r
<1>6. CASE work' = [work EXCEPT !["history"] = r]
  BY <1>1, <1>2, <1>5, <1>6, WorkerStep
<1> QED
  BY <1>3, <1>4, <1>6

LEMMA Queries == ASSUME IInv, NEW w \in Workers, Query(w) PROVE IInv'
<1>1. PICK b, failed : Reads(w, b, failed)
  BY DEF Query
<1> DEFINE r == [pc |-> "next", batch |-> b, tried |-> FALSE, empty |-> work[w].empty,
                 passed |-> failed]
<1>2. IsWork(r) /\ r.pc = "next"
  BY DEF IInv, Shapes, IsWork
<1>3. work' = [work EXCEPT ![w] = r]
  BY <1>1 DEF Reads, Worker
<1>4. RowsWell /\ downloading' = downloading
  BY SameRows DEF Query, store
<1> HIDE DEF r
<1> QED
  BY <1>2, <1>3, <1>4, WorkerStep

LEMMA Passes == ASSUME IInv, NEW w \in Workers, Skip(w) \/ BatchDone(w) PROVE IInv'
<1>1. RowsWell /\ downloading' = downloading
  BY SameRows DEF Skip, BatchDone, store
<1>2. PICK r : IsWork(r) /\ r.pc \notin {"get", "put"} /\ work' = [work EXCEPT ![w] = r]
  <2>0. IsWork(work[w])
    BY DEF IInv, Shapes
  <2>1. CASE Skip(w)
    <3> DEFINE b == Tail(work[w].batch)
               s == ~work[w].tried
               r == [work[w] EXCEPT !.batch = b, !.passed = s]
    <3>1. work' = [work EXCEPT ![w] = r]
      BY <2>1 DEF Skip, Worker
    <3> HIDE DEF b, s
    <3>2. r = [work[w] EXCEPT !.batch = b, !.passed = s]
      OBVIOUS
    <3> HIDE DEF r
    <3>3. IsWork(r) /\ r.pc = "next"
      BY <2>0, <2>1, <3>2 DEF IsWork, Skip
    <3> QED
      BY <3>1, <3>3
  <2>2. CASE BatchDone(w)
    <3> DEFINE r == IF w = "request" THEN Rest
                    ELSE [work[w] EXCEPT !.pc = "pause",
                            !.empty = IF work[w].tried THEN 0 ELSE work[w].empty + 1]
    <3>1. IsWork(r) /\ r.pc \in {"off", "pause"}
      BY <2>0 DEF IsWork, Rest, Starts
    <3>2. work' = [work EXCEPT ![w] = r]
      BY <2>2 DEF BatchDone, Worker
    <3> QED
      BY <3>1, <3>2
  <2> QED
    BY <2>1, <2>2
<1> QED
  BY <1>1, <1>2, WorkerStep

LEMMA Takes == ASSUME IInv, NEW w \in Workers, Take(w) PROVE IInv'
<1> DEFINE r == [work[w] EXCEPT !.pc = "get"]
<1>1. IsWork(r) /\ r.pc = "get" /\ r.batch = work[w].batch
  BY DEF IInv, Shapes, IsWork
<1>2. work' = [work EXCEPT ![w] = r] /\ RowsWell
  BY SameRows DEF Take, Worker, store
<1>3. At(w) \notin downloading /\ downloading' = downloading \cup {At(w)}
  BY DEF Take, At
<1> HIDE DEF r
<1> QED
  BY <1>1, <1>2, <1>3, WorkerStep

LEMMA Finishes == ASSUME IInv, NEW w \in Workers, Busy(w), Finish(w), RowsWell PROVE IInv'
<1> DEFINE yes == TRUE
           no == FALSE
           b == Tail(work[w].batch)
           r == [work[w] EXCEPT !.pc = "next", !.batch = b, !.tried = yes, !.passed = no]
<1>1. work' = [work EXCEPT ![w] = r] /\ downloading' = downloading \ {At(w)}
  BY DEF Finish, Worker, At
<1> HIDE DEF yes, no, b
<1>2. IsWork(r) /\ r.pc = "next"
  <2>1. /\ IsWork(work[w])
        /\ r = [work[w] EXCEPT !.pc = "next", !.batch = b, !.tried = yes, !.passed = no]
    BY DEF IInv, Shapes
  <2> HIDE DEF r
  <2> QED
    BY <2>1 DEF IsWork
<1> HIDE DEF r
<1> QED
  BY <1>1, <1>2, WorkerStep

LEMMA Gets == ASSUME IInv, NEW w \in Workers, BatchGet(w) PROVE IInv'
<1> DEFINE f == Head(work[w].batch)
           r == [work[w] EXCEPT !.pc = "put"]
<1>1. Busy(w) /\ bucket' = bucket
  BY DEF BatchGet, Busy
<1>2. RowsWell
  <2>1. Attempt(f.media) \/ UNCHANGED row
    BY DEF BatchGet, Downloads, Refused, Fails
  <2> HIDE DEF f
  <2> QED
    BY <1>1, <2>1, Attempts
<1>3. CASE Finish(w)
  BY <1>1, <1>2, <1>3, Finishes
<1>4. CASE work' = [work EXCEPT ![w] = r] /\ downloading' = downloading
  <2>1. IsWork(r) /\ r.pc = "put" /\ r.batch = work[w].batch
    BY DEF IInv, Shapes, IsWork
  <2> HIDE DEF r
  <2> QED
    BY <1>1, <1>2, <1>4, <2>1, WorkerStep
<1> QED
  BY <1>3, <1>4 DEF BatchGet, Worker

LEMMA Puts == ASSUME IInv, NEW w \in Workers, BatchPut(w) PROVE IInv'
<1>1. Busy(w) /\ Finish(w) /\ Stores(Head(work[w].batch).media)
  BY DEF BatchPut, Busy
<1>2. RowsWell
  BY <1>1, Storing
<1> QED
  BY <1>1, <1>2, Finishes

------------------------------------------------------------------------------
(* The rest.                                                               *)

LEMMA Saves == ASSUME IInv, NEW m \in Medias, MessageEvent(m) PROVE IInv'
<1>1. row \in [Medias -> Rows]
  BY DEF IInv, Shapes
<1>2. /\ row' = [row EXCEPT ![m] = [state |-> "pending", path |-> @.path, attempts |-> 0]]
      /\ UNCHANGED <<bucket, work, downloading>>
  BY DEF MessageEvent, Save
<1>3. \A n \in Medias : row'[n] \in Rows /\ (row'[n].state = "stored" => row[n].state = "stored")
  BY <1>1, <1>2 DEF Rows
<1>4. row' \in [Medias -> Rows]
  BY <1>1, <1>2, <1>3
<1>5. RowsWell
  BY <1>2, <1>3, <1>4 DEF IInv, RowsWell, StoredHasFile
<1> QED
  BY <1>2, <1>5, OtherStep

LEMMA Syncs == ASSUME IInv, NEW s \in Sessions, HistorySync(s) PROVE IInv'
<1>1. /\ \A n \in Medias : \/ row'[n] = row[n]
                           \/ row'[n] = NewRow
      /\ row' = [n \in Medias |-> row'[n]]
      /\ UNCHANGED <<bucket, downloading>>
  BY DEF HistorySync
<1>2. \A n \in Medias : row[n] \in Rows
  BY DEF IInv, Shapes
<1>3. NewRow \in Rows /\ NewRow.state = "pending"
  BY DEF NewRow, Rows
<1>4. RowsWell
  BY <1>1, <1>2, <1>3 DEF IInv, RowsWell, StoredHasFile
<1>5. CASE UNCHANGED work
  BY <1>1, <1>4, <1>5, OtherStep
<1> DEFINE r == Starts("check")
<1>6. CASE work' = [work EXCEPT !["history"] = r]
  <2>1. "history" \in Workers /\ IsWork(r) /\ r.pc = "check"
    BY DEF Workers, Starts, IsWork
  <2> HIDE DEF r
  <2> QED
    BY <1>1, <1>4, <1>6, <2>1, WorkerStep
<1> QED
  BY <1>5, <1>6 DEF HistorySync

LEMMA Fetches == ASSUME IInv, Alone PROVE IInv'
<1>1. PICK f \in fetch : FetchGet(f) \/ FetchPut(f) \/ FetchCancelled(f)
  BY DEF Alone
<1>2. UNCHANGED <<work, downloading>>
  BY <1>1 DEF FetchGet, FetchPut, FetchCancelled
<1>3. CASE FetchGet(f)
  <2>1. (Attempt(f.media) \/ UNCHANGED row) /\ UNCHANGED bucket
    BY <1>3 DEF FetchGet, Downloads, Refused, Fails
  <2> QED
    BY <1>2, <2>1, Attempts, OtherStep
<1>4. CASE FetchPut(f)
  BY <1>2, <1>4, Storing, OtherStep DEF FetchPut
<1>5. CASE FetchCancelled(f)
  BY <1>2, <1>5, SameRows, OtherStep DEF FetchCancelled, store
<1> QED
  BY <1>1, <1>3, <1>4, <1>5

LEMMA Phones == ASSUME IInv, NEW m \in Medias, ForceRetry(m) \/ Expire(m) \/ Answer(m) PROVE IInv'
<1>1. UNCHANGED <<work, downloading, bucket>>
  BY DEF ForceRetry, Expire, Answer, AnswerDropped, AnswerRefuses, AnswerSucceeds, store
<1>2. row' = row \/ row' = [row EXCEPT ![m].path = "new"]
  BY DEF ForceRetry, Expire, Answer, AnswerDropped, AnswerRefuses, AnswerSucceeds, store
<1>3. row \in [Medias -> Rows]
  BY DEF IInv, Shapes
<1>4. \A n \in Medias : row'[n] \in Rows /\ row'[n].state = row[n].state
  BY <1>2, <1>3 DEF Rows
<1>5. row' \in [Medias -> Rows]
  BY <1>2, <1>3, <1>4
<1>6. RowsWell
  BY <1>1, <1>4, <1>5 DEF IInv, RowsWell, StoredHasFile
<1> QED
  BY <1>1, <1>6, OtherStep

LEMMA Crashes == ASSUME IInv, Crash PROVE IInv'
<1>1. RowsWell
  BY SameRows DEF Crash, store
<1>2. work' = [w \in Workers |-> Rest] /\ IsWork(Rest) /\ Rest.pc = "off"
  BY DEF Crash, IsWork, Rest, Starts
<1>3. Shapes' /\ Guarded' /\ OneBatchPerMedia'
  BY <1>1, <1>2 DEF Shapes, Guarded, OneBatchPerMedia, Busy, RowsWell
<1> QED
  BY <1>1, <1>3 DEF IInv, RowsWell

LEMMA Inductive == IInv /\ [Next]_vars => IInv'
<1> SUFFICES ASSUME IInv, [Next]_vars PROVE IInv'
  OBVIOUS
<1>1. CASE Loop \/ Request
  BY <1>1, Begins, LoopEnds DEF Loop
<1>2. CASE Alone \/ Crash
  BY <1>2, Fetches, Crashes
<1>3. CASE \E w \in Workers : Batch(w)
  BY <1>3, Queries, Passes, Takes, Gets, Puts DEF Batch
<1>4. CASE \E s \in Sessions : HistorySync(s)
  BY <1>4, Syncs
<1>5. CASE \E m \in Medias : MessageEvent(m) \/ ForceRetry(m) \/ Expire(m) \/ Answer(m)
  BY <1>5, Saves, Phones
<1>6. CASE UNCHANGED vars
  BY <1>6, SameRows, OtherStep DEF vars, store
<1> QED
  BY <1>1, <1>2, <1>3, <1>4, <1>5, <1>6 DEF Next

LEMMA Always == Spec => []IInv
  BY Initial, Inductive, PTL DEF Spec

(* Two batches never download the same media at the same time              *)
(* (tryStartDownload, finishDownload), whatever they read, fail or skip.   *)
THEOREM BatchesExclude == Spec => []OneBatchPerMedia
<1>1. IInv => OneBatchPerMedia
  BY DEF IInv
<1> QED
  BY <1>1, Always, PTL

(* A row that counts as downloaded has its file in the object store        *)
(* (DownloadAndStore), whichever downloads overlap, fail or crash.         *)
THEOREM StoredRowsHaveFiles == Spec => []StoredHasFile
<1>1. IInv => StoredHasFile
  BY DEF IInv
<1> QED
  BY <1>1, Always, PTL

------------------------------------------------------------------------------
(* Tries.  The database counts attempts; whoever puts a file tries without *)
(* having been counted yet.  A batch that waits for a media read its row   *)
(* when there were attempts left; two that wait leave one more.            *)
Counted == {"events", "requests", "answers", "faults", "crashes"}
Slack == count.faults + count.crashes
Once(b) == \A i, j \in DOMAIN b : b[i].media = b[j].media => i = j
Batched(w) == work[w].pc \in {"next", "get", "put"}
Ahead(w) == IF work[w].pc = "put" THEN Tail(work[w].batch) ELSE work[w].batch
Waits(w, m) == Batched(w) /\ \E i \in DOMAIN Ahead(w) : Ahead(w)[i].media = m
Putting(m) == \E w \in Workers : work[w].pc = "put" /\ At(w) = m

CountsSound == count \in [Counted -> Nat] /\ tries \in [Medias -> Nat]
RowsSound ==
  /\ rows \in Seq(Medias)
  /\ \A i, j \in DOMAIN rows : rows[i] = rows[j] => i = j
  /\ \A i \in DOMAIN rows : row[rows[i]].state # "none"
  /\ \A m \in Medias : row[m].state = "none" => tries[m] = 0
BatchSound(w) ==
  /\ work[w].batch \in Seq(Snapshot) /\ Once(work[w].batch)
  /\ \A i \in DOMAIN work[w].batch : row[work[w].batch[i].media].state # "none"
  /\ Busy(w) => work[w].batch # <<>>
Budget(m) ==
  /\ tries[m] <= row[m].attempts + Slack + (IF Putting(m) THEN 1 ELSE 0)
  /\ tries[m] <= Tries + 1 + Slack
  /\ \A w \in Workers : Waits(w, m) => tries[m] <= Tries + Slack
  /\ \A v, w \in Workers : v # w /\ Waits(v, m) /\ Waits(w, m) => tries[m] < Tries + Slack
LoopRuns == running = NoSession => work["history"].pc = "off"
Ground ==
  CountsSound /\ RowsSound /\ LoopRuns /\ \A w \in Workers : Batched(w) => BatchSound(w)
TInv == IInv /\ Ground /\ \A m \in Medias : Budget(m)

LEMMA TInitial == Init => TInv
<1> SUFFICES ASSUME Init PROVE TInv
  OBVIOUS
<1>1. CountsSound
  BY DEF Init, CountsSound, Bounds, Counted
<1>2. RowsSound
  BY DEF Init, RowsSound
<1>3. \A w \in Workers : ~Batched(w)
  BY DEF Init, Batched, Rest, Starts
<1>4. ASSUME NEW m \in Medias PROVE Budget(m)
  <2>1. tries[m] = 0 /\ row[m].attempts = 0 /\ Slack = 0 /\ ~Putting(m)
    BY <1>3 DEF Init, Slack, Bounds, NoRow, Putting, Batched
  <2> QED
    BY <1>3, <2>1 DEF Budget, Waits
<1> QED
  BY <1>1, <1>2, <1>3, <1>4, Initial DEF TInv, Ground, LoopRuns, Init, Rest, Starts, Workers

(* What is counted only grows.                                             *)
LEMMA CountStep ==
  ASSUME CountsSound, UNCHANGED count \/ \E k \in Counted : Counts(k)
  PROVE  /\ count' \in [Counted -> Nat] /\ Slack \in Nat /\ Slack' \in Nat /\ Slack' >= Slack
         /\ Counts("faults") \/ Counts("crashes") => Slack' = Slack + 1
<1>1. CASE UNCHANGED count
  <2>1. ~Counts("faults") /\ ~Counts("crashes")
    <3>1. \A k \in {"faults", "crashes"} : [count EXCEPT ![k] = @ + 1][k] # count[k]
      BY DEF CountsSound, Counted
    <3> QED
      BY <1>1, <3>1 DEF Counts
  <2> QED
    BY <1>1, <2>1 DEF CountsSound, Counted, Slack
<1>2. ASSUME NEW k \in Counted, Counts(k) PROVE count' \in [Counted -> Nat] /\ Slack' >= Slack
  BY <1>2 DEF Counts, CountsSound, Counted, Slack
<1>3. ASSUME Counts("faults") \/ Counts("crashes") PROVE Slack' = Slack + 1
  BY <1>3 DEF Counts, CountsSound, Counted, Slack
<1>4. Slack \in Nat
  BY DEF CountsSound, Counted, Slack
<1>5. count' \in [Counted -> Nat] => Slack' \in Nat
  BY DEF Counted, Slack
<1> QED
  BY <1>1, <1>2, <1>3, <1>4, <1>5

(* A step that tries nothing and lets nobody wait for more.                *)
LEMMA QuietMedia ==
  ASSUME TInv, NEW m \in Medias, tries'[m] = tries[m], Slack' \in Nat, Slack' >= Slack,
         row'[m].attempts \in Nat, row'[m].attempts + Slack' >= row[m].attempts + Slack,
         \A w \in Workers : Waits(w, m)' => Waits(w, m),
         \/ Putting(m) => Putting(m)'
         \/ row'[m].attempts + Slack' >= row[m].attempts + Slack + 1
  PROVE  Budget(m)'
<1>1. tries[m] \in Nat /\ Slack \in Nat /\ row[m].attempts \in Nat /\ Tries \in Nat
  BY DEF TInv, Ground, CountsSound, IInv, Shapes, Rows, Slack, Counted
<1>2. Budget(m)
  BY DEF TInv
<1> DEFINE a == row[m].attempts
           b == row'[m].attempts
           k == Slack
           l == Slack'
           p == Putting(m)
           q == Putting(m)'
<1>3. tries[m] <= b + l + (IF q THEN 1 ELSE 0)
  <2>1. tries[m] <= a + k + (IF p THEN 1 ELSE 0) /\ b + l >= a + k
        /\ ((p => q) \/ b + l >= a + k + 1)
    BY <1>2 DEF Budget
  <2> HIDE DEF a, b, k, l, p, q
  <2>2. a \in Nat /\ b \in Nat /\ k \in Nat /\ l \in Nat
    BY <1>1 DEF a, b, k, l
  <2> QED
    BY <1>1, <2>1, <2>2
<1>4. tries[m] <= Tries + 1 + l
  BY <1>1, <1>2 DEF Budget
<1>5. \A w \in Workers : Waits(w, m)' => tries[m] <= Tries + l
  BY <1>1, <1>2 DEF Budget
<1>6. \A v, w \in Workers : v # w /\ Waits(v, m)' /\ Waits(w, m)' => tries[m] < Tries + l
  BY <1>1, <1>2 DEF Budget
<1> QED
  BY <1>3, <1>4, <1>5, <1>6 DEF Budget

(* A try by a batch that waited.                                           *)
LEMMA TriedMedia ==
  ASSUME TInv, NEW m \in Medias, NEW u \in Workers, Waits(u, m), ~Waits(u, m)',
         tries'[m] = tries[m] + 1, Slack' \in Nat, Slack' >= Slack,
         row'[m].attempts \in Nat, row'[m].attempts + Slack' >= row[m].attempts + Slack,
         \A w \in Workers : Waits(w, m)' => Waits(w, m),
         ~Putting(m),
         Putting(m)' \/ row'[m].attempts + Slack' >= row[m].attempts + Slack + 1
  PROVE  Budget(m)'
<1>1. tries[m] \in Nat /\ Slack \in Nat /\ row[m].attempts \in Nat /\ Tries \in Nat
  BY DEF TInv, Ground, CountsSound, IInv, Shapes, Rows, Slack, Counted
<1>2. Budget(m)
  BY DEF TInv
<1> DEFINE a == row[m].attempts
           b == row'[m].attempts
           k == Slack
           l == Slack'
           q == Putting(m)'
<1>3. tries[m] + 1 <= b + l + (IF q THEN 1 ELSE 0)
  <2>1. tries[m] <= a + k /\ b + l >= a + k /\ (q \/ b + l >= a + k + 1)
    BY <1>1, <1>2 DEF Budget
  <2> HIDE DEF a, b, k, l, q
  <2>2. a \in Nat /\ b \in Nat /\ k \in Nat /\ l \in Nat
    BY <1>1 DEF a, b, k, l
  <2> QED
    BY <1>1, <2>1, <2>2
<1>4. tries[m] + 1 <= Tries + 1 + l
  BY <1>1, <1>2 DEF Budget
<1>5. \A w \in Workers : Waits(w, m)' => tries[m] + 1 <= Tries + l
  BY <1>1, <1>2 DEF Budget
<1>6. \A v, w \in Workers : v # w /\ Waits(v, m)' /\ Waits(w, m)' => FALSE
  BY DEF Workers
<1> QED
  BY <1>3, <1>4, <1>5, <1>6 DEF Budget

------------------------------------------------------------------------------
(* What the steps have in common.                                          *)

RowsGrow ==
  \A n \in Medias : /\ row'[n].attempts \in Nat
                    /\ row'[n].attempts + Slack' >= row[n].attempts + Slack
                    /\ row'[n].state = "none" => row[n].state = "none"
StatesGrow == \A n \in Medias : row'[n].state = "none" => row[n].state = "none"
TriesKept == \A n \in Medias : row[n].state = "none" => tries'[n] = tries[n]

LEMMA TypesHere ==
  ASSUME TInv
  PROVE  /\ \A n \in Medias : /\ tries[n] \in Nat /\ row[n] \in Rows /\ row[n].attempts \in Nat
         /\ Slack \in Nat /\ Tries \in Nat
         /\ \A w \in Workers : Batched(w) => BatchSound(w)
         /\ \A m \in Medias : Budget(m)
BY DEF TInv, Ground, CountsSound, IInv, Shapes, Rows, Slack, Counted

(* A statement about one row, which may fail, records an attempt or leaves *)
(* a fault.                                                                *)
LEMMA Recorded ==
  ASSUME TInv, IInv', NEW m \in Medias, Attempt(m) \/ Stores(m)
  PROVE  /\ count' \in [Counted -> Nat] /\ Slack' \in Nat /\ Slack' >= Slack
         /\ RowsGrow
         /\ row'[m].attempts + Slack' >= row[m].attempts + Slack + 1
<1>1. CountsSound
  BY DEF TInv, Ground
<1>2. \/ /\ UNCHANGED count
         /\ \E r : /\ r.attempts = row[m].attempts + 1
                   /\ r.state # "none" \/ r.state = row[m].state
                   /\ row' = [row EXCEPT ![m] = r]
      \/ Counts("faults") /\ row' = row
  <2>1. ASSUME Attempt(m), ~(Counts("faults") /\ row' = row)
        PROVE  UNCHANGED count /\ row' = [row EXCEPT ![m] = [row[m] EXCEPT !.attempts = @ + 1]]
    BY <2>1 DEF Attempt, Writes
  <2> DEFINE r == [row[m] EXCEPT !.attempts = @ + 1]
             q == Stored(row[m])
  <2>2. r.attempts = row[m].attempts + 1 /\ r.state = row[m].state
    BY TypesHere DEF Rows
  <2>3. q.attempts = row[m].attempts + 1 /\ q.state # "none"
    BY DEF Stored
  <2>4. ASSUME ~Attempt(m), ~(Counts("faults") /\ row' = row)
        PROVE  UNCHANGED count /\ row' = [row EXCEPT ![m] = q]
    BY <2>4 DEF Stores, Writes
  <2> HIDE DEF r, q
  <2> QED
    BY <2>1, <2>2, <2>3, <2>4 DEF r
<1>3. CASE Counts("faults") /\ row' = row
  <2>1. "faults" \in Counted
    BY DEF Counted
  <2>2. Slack' = Slack + 1 /\ count' \in [Counted -> Nat] /\ Slack' \in Nat
    BY <1>1, <1>3, <2>1, CountStep
  <2> QED
    BY <1>3, <2>2, TypesHere DEF RowsGrow
<1>4. ASSUME NEW r, r.attempts = row[m].attempts + 1, r.state # "none" \/ r.state = row[m].state,
             row' = [row EXCEPT ![m] = r], UNCHANGED count
      PROVE  /\ count' \in [Counted -> Nat] /\ Slack' \in Nat /\ Slack' >= Slack
             /\ RowsGrow
             /\ row'[m].attempts + Slack' >= row[m].attempts + Slack + 1
  <2>1. Slack' = Slack /\ count' \in [Counted -> Nat]
    BY <1>1, <1>4 DEF Slack, CountsSound
  <2>2. \A n \in Medias : row'[n] = IF n = m THEN r ELSE row[n]
    BY <1>4 DEF TInv, IInv, Shapes
  <2> QED
    BY <1>4, <2>1, <2>2, TypesHere DEF RowsGrow
<1> QED
  BY <1>2, <1>3, <1>4

(* Steps that change no row may still count.                               *)
LEMMA OnlyCounted ==
  ASSUME TInv, row' = row, UNCHANGED count \/ \E k \in Counted : Counts(k)
  PROVE  count' \in [Counted -> Nat] /\ Slack' \in Nat /\ Slack' >= Slack /\ RowsGrow
<1>1. CountsSound
  BY DEF TInv, Ground
<1> QED
  BY <1>1, CountStep, TypesHere DEF RowsGrow

LEMMA RowsKept ==
  ASSUME TInv, rows' = rows, RowsGrow, TriesKept
  PROVE  RowsSound'
<1>1. \A i \in DOMAIN rows : rows[i] \in Medias
  BY DEF TInv, Ground, RowsSound
<1> QED
  BY <1>1 DEF TInv, Ground, RowsSound, RowsGrow, TriesKept

LEMMA TailOnce ==
  ASSUME NEW b \in Seq(Snapshot), Once(b), b # <<>>
  PROVE  /\ Tail(b) \in Seq(Snapshot) /\ Once(Tail(b)) /\ Head(b) \in Snapshot
         /\ Head(b) = b[1] /\ 1 \in DOMAIN b
         /\ \A i \in DOMAIN Tail(b) : /\ i + 1 \in DOMAIN b /\ Tail(b)[i] = b[i + 1]
                                      /\ Tail(b)[i].media # Head(b).media
<1>1. /\ Tail(b) \in Seq(Snapshot) /\ Len(Tail(b)) = Len(b) - 1 /\ Len(b) \in Nat \ {0}
      /\ Head(b) = b[1]
  OBVIOUS
<1>2. \A i \in DOMAIN Tail(b) : i + 1 \in DOMAIN b /\ Tail(b)[i] = b[i + 1] /\ i \in Nat \ {0}
  BY <1>1
<1>3. 1 \in DOMAIN b /\ b[1] \in Snapshot
  BY <1>1
<1>4. \A i \in DOMAIN Tail(b) : Tail(b)[i].media # Head(b).media
  BY <1>1, <1>2, <1>3 DEF Once
<1>5. Once(Tail(b))
  BY <1>2 DEF Once
<1> QED
  BY <1>1, <1>2, <1>3, <1>4, <1>5

LEMMA BatchKept ==
  ASSUME TInv, StatesGrow, NEW v \in Workers, Batched(v),
         \/ work'[v].batch = work[v].batch
         \/ work[v].batch # <<>> /\ work'[v].batch = Tail(work[v].batch),
         Busy(v)' => work'[v].batch # <<>>
  PROVE  BatchSound(v)'
<1> DEFINE b == work[v].batch
           c == work'[v].batch
<1>1. b \in Seq(Snapshot) /\ Once(b) /\ \A i \in DOMAIN b : row[b[i].media].state # "none"
  BY TypesHere DEF BatchSound
<1>2. c \in Seq(Snapshot) /\ Once(c) /\ \A i \in DOMAIN c : \E j \in DOMAIN b : c[i] = b[j]
  <2>1. CASE c = b
    BY <1>1, <2>1
  <2>2. CASE b # <<>> /\ c = Tail(b)
    <3> HIDE DEF b, c
    <3> QED
      BY <1>1, <2>2, TailOnce
  <2> QED
    BY <2>1, <2>2
<1>3. \A i \in DOMAIN b : b[i].media \in Medias
  <2> HIDE DEF b
  <2>1. \A i \in DOMAIN b : b[i] \in Snapshot
    BY <1>1
  <2> QED
    BY <2>1 DEF Snapshot
<1>4. \A i \in DOMAIN c : row'[c[i].media].state # "none"
  <2> HIDE DEF b, c
  <2> QED
    BY <1>1, <1>2, <1>3 DEF StatesGrow
<1> QED
  BY <1>2, <1>4 DEF BatchSound

LEMMA SameWork ==
  ASSUME work' = work
  PROVE  /\ \A w \in Workers : \A m : Waits(w, m)' <=> Waits(w, m)
         /\ \A m : Putting(m)' <=> Putting(m)
         /\ \A w \in Workers : (Batched(w)' <=> Batched(w)) /\ (Busy(w)' <=> Busy(w))
BY DEF Waits, Ahead, Putting, Batched, Busy, At

(* Steps that leave the batches alone and only add to what is recorded.    *)
LEMMA Elsewhere ==
  ASSUME TInv, IInv', UNCHANGED <<rows, work, running, tries>>, RowsGrow,
         count' \in [Counted -> Nat], Slack' \in Nat, Slack' >= Slack
  PROVE  TInv'
<1>1. CountsSound' /\ RowsSound'
  BY RowsKept DEF TInv, Ground, CountsSound, TriesKept
<1>2. \A w \in Workers : Batched(w)' => BatchSound(w)'
  <2> SUFFICES ASSUME NEW w \in Workers, Batched(w)' PROVE BatchSound(w)'
    OBVIOUS
  <2>1. Batched(w) /\ (Busy(w)' => work[w].batch # <<>>)
    BY SameWork, TypesHere DEF BatchSound
  <2> QED
    BY <2>1, BatchKept DEF RowsGrow, StatesGrow
<1>3. ASSUME NEW m \in Medias PROVE Budget(m)'
  BY SameWork, QuietMedia DEF RowsGrow
<1> QED
  BY <1>1, <1>2, <1>3 DEF TInv, Ground, LoopRuns

------------------------------------------------------------------------------
(* Downloads outside the batches, the phone.                               *)

LEMMA TFetches == ASSUME TInv, IInv', Alone PROVE TInv'
<1>1. PICK f \in fetch : FetchGet(f) \/ FetchPut(f) \/ FetchCancelled(f)
  BY DEF Alone
<1>2. UNCHANGED <<rows, work, running, tries>>
  BY <1>1 DEF FetchGet, FetchPut, FetchCancelled, store, history
<1>3. CASE UNCHANGED <<row, count>>
  BY <1>2, <1>3, OnlyCounted, Elsewhere
<1>4. CASE Attempt(f.media) \/ Stores(f.media)
  <2>1. CASE f.media \in Medias
    BY <1>2, <1>4, <2>1, Recorded, Elsewhere
  <2>2. CASE f.media \notin Medias
    <3>1. UNCHANGED count \/ Counts("faults")
      BY <1>4 DEF Attempt, Stores, Writes
    <3>2. row' = row
      <4>1. row' = row \/ \E r : row' = [row EXCEPT ![f.media] = r]
        BY <1>4 DEF Attempt, Stores, Writes
      <4> QED
        BY <2>2, <4>1 DEF TInv, IInv, Shapes
    <3>3. "faults" \in Counted
      BY DEF Counted
    <3> QED
      BY <1>2, <3>1, <3>2, <3>3, OnlyCounted, Elsewhere
  <2> QED
    BY <2>1, <2>2
<1>5. UNCHANGED <<row, count>> \/ Attempt(f.media) \/ Stores(f.media)
  BY <1>1 DEF FetchGet, FetchPut, FetchCancelled, Downloads, Refused, Fails, store
<1> QED
  BY <1>3, <1>4, <1>5

LEMMA TPhones ==
  ASSUME TInv, IInv', NEW m \in Medias, ForceRetry(m) \/ Expire(m) \/ Answer(m)
  PROVE  TInv'
<1>1. UNCHANGED <<rows, work, running, tries>>
  BY DEF ForceRetry, Expire, Answer, AnswerDropped, AnswerRefuses, AnswerSucceeds, store,
         history
<1>2. row' = row \/ row' = [row EXCEPT ![m].path = "new"]
  BY DEF ForceRetry, Expire, Answer, AnswerDropped, AnswerRefuses, AnswerSucceeds, store
<1>3. UNCHANGED count \/ \E k \in Counted : Counts(k)
  BY DEF ForceRetry, Expire, Answer, AnswerDropped, AnswerRefuses, AnswerSucceeds, Counted
<1>4. CountsSound
  BY DEF TInv, Ground
<1>5. \A n \in Medias : row'[n].attempts = row[n].attempts /\ row'[n].state = row[n].state
  BY <1>2 DEF TInv, IInv, Shapes, Rows
<1>6. count' \in [Counted -> Nat] /\ Slack' \in Nat /\ Slack' >= Slack
  BY <1>3, <1>4, CountStep
<1>7. RowsGrow
  BY <1>5, <1>6, TypesHere DEF RowsGrow
<1> QED
  BY <1>1, <1>6, <1>7, Elsewhere

------------------------------------------------------------------------------
(* Steps of one worker.                                                    *)

LEMMA WorkOf ==
  ASSUME TInv, NEW w \in Workers, NEW r, work' = [work EXCEPT ![w] = r]
  PROVE  work'[w] = r /\ \A v \in Workers \ {w} : work'[v] = work[v]
BY DEF TInv, IInv, Shapes

LEMMA Others ==
  ASSUME NEW v \in Workers, work'[v] = work[v]
  PROVE  /\ Batched(v)' <=> Batched(v)
         /\ Busy(v)' <=> Busy(v)
         /\ At(v)' = At(v)
         /\ \A m : Waits(v, m)' <=> Waits(v, m)
BY DEF Batched, Busy, At, Waits, Ahead

LEMMA Works ==
  ASSUME TInv, IInv', NEW w \in Workers, \A v \in Workers \ {w} : work'[v] = work[v],
         CountsSound', RowsSound', StatesGrow, LoopRuns',
         Batched(w)' => BatchSound(w)', \A m \in Medias : Budget(m)'
  PROVE  TInv'
<1>1. ASSUME NEW v \in Workers, Batched(v)' PROVE BatchSound(v)'
  <2>1. CASE v = w
    BY <1>1, <2>1
  <2>2. CASE v # w
    <3>1. Batched(v) /\ work'[v] = work[v] /\ (Busy(v)' => work[v].batch # <<>>)
      BY <1>1, <2>2, Others, TypesHere DEF BatchSound
    <3> QED
      BY <3>1, BatchKept
  <2> QED
    BY <2>1, <2>2
<1> QED
  BY <1>1 DEF TInv, Ground

(* Whoever still puts after a step of w put before, and those who wait.    *)
LEMMA StillPuts ==
  ASSUME NEW w \in Workers, \A v \in Workers \ {w} : work'[v] = work[v], NEW m,
         Putting(m), ~(work[w].pc = "put" /\ At(w) = m)
  PROVE  Putting(m)'
<1>1. PICK v \in Workers : work[v].pc = "put" /\ At(v) = m
  BY DEF Putting
<1>2. v # w /\ work'[v] = work[v]
  BY <1>1
<1> QED
  BY <1>1, <1>2, Others DEF Putting

LEMMA StillWaits ==
  ASSUME NEW w \in Workers, \A v \in Workers \ {w} : work'[v] = work[v], NEW m,
         Waits(w, m)' => Waits(w, m)
  PROVE  \A v \in Workers : Waits(v, m)' => Waits(v, m)
BY Others

(* A worker that leaves its batch, or starts one.                          *)
LEMMA Turns ==
  ASSUME TInv, IInv', NEW w \in Workers, NEW r, work' = [work EXCEPT ![w] = r],
         work[w].pc # "put", r.pc \notin {"next", "get", "put"},
         UNCHANGED <<rows, row, tries>>, LoopRuns',
         UNCHANGED count \/ \E k \in Counted : Counts(k)
  PROVE  TInv'
<1>1. work'[w] = r /\ \A v \in Workers \ {w} : work'[v] = work[v]
  BY WorkOf
<1>2. ~Batched(w)' /\ \A m : ~Waits(w, m)'
  BY <1>1 DEF Batched, Waits
<1>3. count' \in [Counted -> Nat] /\ Slack' \in Nat /\ Slack' >= Slack /\ RowsGrow
  BY OnlyCounted
<1>4. CountsSound' /\ RowsSound' /\ StatesGrow
  BY <1>3, RowsKept DEF TInv, Ground, CountsSound, TriesKept, RowsGrow, StatesGrow
<1>5. ASSUME NEW m \in Medias PROVE Budget(m)'
  BY <1>1, <1>2, <1>3, StillPuts, StillWaits, QuietMedia DEF RowsGrow
<1> QED
  BY <1>1, <1>2, <1>4, <1>5, Works

(* The medias in front of a batch.                                         *)
LEMMA AtFront ==
  ASSUME TInv, NEW w \in Workers, Batched(w), work[w].batch # <<>>
  PROVE  /\ At(w) \in Medias
         /\ \A i \in DOMAIN Tail(work[w].batch) : Tail(work[w].batch)[i].media # At(w)
         /\ \A i \in DOMAIN Tail(work[w].batch) :
              \E j \in DOMAIN work[w].batch : work[w].batch[j] = Tail(work[w].batch)[i]
         /\ \E i \in DOMAIN work[w].batch : work[w].batch[i].media = At(w)
<1> DEFINE b == work[w].batch
<1>1. b \in Seq(Snapshot) /\ Once(b) /\ b # <<>>
  BY TypesHere DEF BatchSound
<1>2. At(w) = Head(b).media
  BY DEF At
<1> HIDE DEF b
<1>3. Head(b) \in Snapshot => Head(b).media \in Medias
  BY DEF Snapshot
<1>4. /\ Head(b).media \in Medias
      /\ \A i \in DOMAIN Tail(b) : Tail(b)[i].media # Head(b).media
      /\ \A i \in DOMAIN Tail(b) : \E j \in DOMAIN b : b[j] = Tail(b)[i]
      /\ \E i \in DOMAIN b : b[i].media = Head(b).media
  BY <1>1, <1>3, TailOnce
<1> QED
  BY <1>2, <1>4 DEF b

(* A worker passes the front of its batch, or starts to put it.            *)
LEMMA Advances ==
  ASSUME TInv, NEW w \in Workers, Batched(w), work[w].batch # <<>>, work[w].pc # "put",
         \/ work'[w].pc # "put" /\ work'[w].batch = Tail(work[w].batch)
         \/ work'[w].pc = "put" /\ work'[w].batch = work[w].batch
  PROVE  /\ \A m : Waits(w, m)' => Waits(w, m)
         /\ Waits(w, At(w)) /\ ~(\E m \in {At(w)} : Waits(w, m)')
<1>1. Ahead(w) = work[w].batch /\ Ahead(w)' = Tail(work[w].batch)
  BY DEF Ahead
<1>2. Waits(w, At(w))
  BY <1>1, AtFront DEF Waits
<1>3. ASSUME NEW m, Waits(w, m)' PROVE Waits(w, m) /\ m # At(w)
  <2>1. PICK i \in DOMAIN Tail(work[w].batch) : Tail(work[w].batch)[i].media = m
    BY <1>1, <1>3 DEF Waits
  <2>2. m # At(w)
    BY <2>1, AtFront
  <2>3. PICK j \in DOMAIN work[w].batch : work[w].batch[j] = Tail(work[w].batch)[i]
    BY <2>1, AtFront
  <2>4. work[w].batch[j].media = m
    BY <2>1, <2>3
  <2> QED
    BY <1>1, <2>2, <2>4 DEF Waits
<1> QED
  BY <1>2, <1>3

------------------------------------------------------------------------------
(* Batches begin, pass medias, and end.                                    *)

LEMMA TBegins == ASSUME TInv, IInv', Request PROVE TInv'
<1>1. work' = [work EXCEPT !["request"] = Starts("query")] /\ work["request"].pc = "off"
  BY DEF Request, Worker
<1>2. Starts("query").pc = "query"
  BY DEF Starts
<1>3. "request" \in Workers /\ "history" \in Workers \ {"request"}
  BY DEF Workers
<1>4. LoopRuns'
  BY <1>1, <1>3, WorkOf DEF Request, TInv, Ground, LoopRuns
<1>5. UNCHANGED <<rows, row, tries>> /\ "requests" \in Counted /\ Counts("requests")
  BY DEF Request, store, history, Counted
<1> HIDE DEF Request
<1> QED
  BY <1>1, <1>2, <1>3, <1>4, <1>5, Turns

LEMMA TLoop == ASSUME TInv, IInv', Loop PROVE TInv'
<1>1. "history" \in Workers /\ UNCHANGED <<rows, row, tries, count>>
  BY DEF Workers, Loop, LoopContinues, LoopIsCutOff, LoopPauses, store, history
<1>2. IsWork(work["history"])
  BY <1>1 DEF TInv, IInv, Shapes
<1>3. \E r : /\ work' = [work EXCEPT !["history"] = r]
             /\ r.pc \in {"off", "check", "query"}
             /\ running' = running \/ r.pc = "off"
  <2> DEFINE q == [work["history"] EXCEPT !.pc = "query"]
             c == [work["history"] EXCEPT !.pc = "check", !.passed = FALSE]
  <2>1. q.pc = "query" /\ c.pc = "check" /\ Rest.pc = "off"
    BY <1>2 DEF IsWork, Rest, Starts
  <2>2. \/ work' = [work EXCEPT !["history"] = q] /\ running' = running
        \/ work' = [work EXCEPT !["history"] = c] /\ running' = running
        \/ work' = [work EXCEPT !["history"] = Rest]
    BY DEF Loop, LoopContinues, LoopIsCutOff, LoopPauses, Worker
  <2> HIDE DEF q, c
  <2> QED
    BY <2>1, <2>2
<1> PICK r : /\ work' = [work EXCEPT !["history"] = r]
             /\ r.pc \in {"off", "check", "query"}
             /\ running' = running \/ r.pc = "off"
  BY <1>3
<1>4. work["history"].pc \in {"check", "pause"}
  BY DEF Loop, LoopContinues, LoopIsCutOff, LoopPauses
<1>5. LoopRuns'
  BY <1>1, <1>4, WorkOf DEF TInv, Ground, LoopRuns
<1> QED
  BY <1>1, <1>4, <1>5, Turns

LEMMA TDone == ASSUME TInv, IInv', NEW w \in Workers, BatchDone(w) PROVE TInv'
<1>1. PICK r : work' = [work EXCEPT ![w] = r] /\ r.pc \in {"off", "pause"}
  <2> DEFINE q == [work[w] EXCEPT !.pc = "pause",
                                  !.empty = IF work[w].tried THEN 0 ELSE work[w].empty + 1]
  <2>1. q.pc = "pause" /\ Rest.pc = "off"
    BY DEF Rest, Starts, TInv, IInv, Shapes, IsWork
  <2>2. work' = [work EXCEPT ![w] = q] \/ work' = [work EXCEPT ![w] = Rest]
    BY DEF BatchDone, Worker
  <2> HIDE DEF q
  <2> QED
    BY <2>1, <2>2
<1>2. work[w].pc = "next" /\ UNCHANGED <<rows, row, tries, count, running>>
  BY DEF BatchDone, store, history
<1>3. LoopRuns'
  BY <1>1, <1>2, WorkOf DEF TInv, Ground, LoopRuns, Workers
<1> QED
  BY <1>1, <1>2, <1>3, Turns

(* Worker w, somewhere in its batch, works on.                             *)
LEMMA WorksOn ==
  ASSUME TInv, IInv', NEW w \in Workers, NEW r, work' = [work EXCEPT ![w] = r],
         r.pc \in {"next", "get", "put"}, work[w].pc # "off",
         \/ Batched(w) /\ r.batch = work[w].batch
         \/ Batched(w) /\ work[w].batch # <<>> /\ r.batch = Tail(work[w].batch),
         r.pc = "next" \/ (r.batch = work[w].batch /\ work[w].batch # <<>>),
         UNCHANGED <<rows, running>>, RowsGrow, count' \in [Counted -> Nat],
         tries' \in [Medias -> Nat], TriesKept, \A m \in Medias : Budget(m)'
  PROVE  TInv'
<1>1. work'[w] = r /\ \A v \in Workers \ {w} : work'[v] = work[v]
  BY WorkOf
<1>2. StatesGrow /\ CountsSound' /\ RowsSound'
  BY RowsKept DEF TInv, CountsSound, RowsGrow, StatesGrow
<1>3. Busy(w)' => work'[w].batch # <<>>
  BY <1>1 DEF Busy
<1>4. BatchSound(w)'
  BY <1>1, <1>2, <1>3, BatchKept
<1>5. LoopRuns'
  BY <1>1 DEF TInv, Ground, LoopRuns, Workers
<1> QED
  BY <1>1, <1>2, <1>4, <1>5, Works

LEMMA TPasses == ASSUME TInv, IInv', NEW w \in Workers, Skip(w) \/ Take(w) PROVE TInv'
<1>1. UNCHANGED <<rows, row, running, tries, count>> /\ work[w].pc = "next" /\ work[w].batch # <<>>
  BY DEF Skip, Take, store, history
<1>2. \/ work' = [work EXCEPT ![w] = [work[w] EXCEPT !.batch = Tail(@),
                                                    !.passed = ~work[w].tried]]
      \/ work' = [work EXCEPT ![w] = [work[w] EXCEPT !.pc = "get"]]
  BY DEF Skip, Take, Worker
<1>3. IsWork(work[w])
  BY DEF TInv, IInv, Shapes
<1>4. PICK q : /\ work' = [work EXCEPT ![w] = q]
               /\ \/ q.pc = "next" /\ q.batch = Tail(work[w].batch)
                  \/ q.pc = "get" /\ q.batch = work[w].batch
  <2> DEFINE b == Tail(work[w].batch)
             s == ~work[w].tried
             t == [work[w] EXCEPT !.batch = b, !.passed = s]
             g == [work[w] EXCEPT !.pc = "get"]
  <2>1. work' = [work EXCEPT ![w] = t] \/ work' = [work EXCEPT ![w] = g]
    BY <1>2
  <2>2. g.pc = "get" /\ g.batch = work[w].batch
    BY <1>3 DEF IsWork
  <2> HIDE DEF g, s, b
  <2>3. t = [work[w] EXCEPT !.batch = b, !.passed = s]
    OBVIOUS
  <2> HIDE DEF t
  <2>4. t.pc = "next" /\ t.batch = b
    BY <1>1, <1>3, <2>3 DEF IsWork
  <2> QED
    BY <2>1, <2>2, <2>4 DEF b
<1>5. work'[w] = q /\ \A v \in Workers \ {w} : work'[v] = work[v]
  BY <1>4, WorkOf
<1>6. Batched(w)
  BY <1>1 DEF Batched
<1>7. \A m : Waits(w, m)' => Waits(w, m)
  <2>1. CASE q.pc = "next" /\ q.batch = Tail(work[w].batch)
    BY <1>1, <1>5, <1>6, <2>1, Advances
  <2>2. CASE q.pc = "get" /\ q.batch = work[w].batch
    BY <1>1, <1>5, <1>6, <2>2 DEF Waits, Ahead
  <2> QED
    BY <1>4, <2>1, <2>2
<1>8. count' \in [Counted -> Nat] /\ Slack' \in Nat /\ Slack' >= Slack /\ RowsGrow
  BY <1>1, OnlyCounted
<1>9. ASSUME NEW m \in Medias PROVE Budget(m)'
  BY <1>1, <1>5, <1>7, <1>8, StillPuts, StillWaits, QuietMedia DEF RowsGrow
<1>10. tries' \in [Medias -> Nat] /\ TriesKept
  BY <1>1 DEF TInv, Ground, CountsSound, TriesKept
<1> QED
  BY <1>1, <1>4, <1>6, <1>8, <1>9, <1>10, WorksOn

------------------------------------------------------------------------------
(* A batch tries the media in front of it.                                 *)

LEMMA Finished ==
  ASSUME Shapes, NEW w \in Workers, Finish(w)
  PROVE  \E r : work' = [work EXCEPT ![w] = r] /\ r.pc = "next" /\ r.batch = Tail(work[w].batch)
<1> DEFINE yes == TRUE
           no == FALSE
           b == Tail(work[w].batch)
           r == [work[w] EXCEPT !.pc = "next", !.batch = b, !.tried = yes, !.passed = no]
<1>1. work' = [work EXCEPT ![w] = r]
  BY DEF Finish, Worker
<1> HIDE DEF yes, no, b
<1>2. r.pc = "next" /\ r.batch = b
  <2>1. /\ IsWork(work[w])
        /\ r = [work[w] EXCEPT !.pc = "next", !.batch = b, !.tried = yes, !.passed = no]
    BY DEF Shapes
  <2> HIDE DEF r
  <2> QED
    BY <2>1 DEF IsWork
<1> HIDE DEF r
<1> QED
  BY <1>1, <1>2 DEF b

(* Nobody puts what another worker downloads.                              *)
LEMMA OneDownloads ==
  ASSUME TInv, NEW w \in Workers, work[w].pc = "get"
  PROVE  ~Putting(At(w))
BY DEF TInv, IInv, OneBatchPerMedia, Putting, At

LEMMA TGets == ASSUME TInv, IInv', NEW w \in Workers, BatchGet(w) PROVE TInv'
<1> DEFINE m == At(w)
<1>1. work[w].pc = "get" /\ UNCHANGED <<rows, running>>
  BY DEF BatchGet
<1>2. Batched(w) /\ Busy(w) /\ work[w].batch # <<>> /\ BatchSound(w)
  BY <1>1, TypesHere DEF Batched, Busy, BatchSound
<1>3. m \in Medias /\ ~Putting(m) /\ row[m].state # "none"
  <2>1. \E i \in DOMAIN work[w].batch : work[w].batch[i].media = m
    BY <1>2, AtFront
  <2> QED
    BY <1>1, <1>2, <2>1, OneDownloads, AtFront DEF BatchSound
<1>4. \/ UNCHANGED <<row, count>>
      \/ Attempt(m)
  BY DEF BatchGet, Downloads, Refused, Fails, At
<1>5. /\ count' \in [Counted -> Nat] /\ Slack' \in Nat /\ Slack' >= Slack /\ RowsGrow
      /\ UNCHANGED <<row, count>> \/ row'[m].attempts + Slack' >= row[m].attempts + Slack + 1
  BY <1>3, <1>4, OnlyCounted, Recorded
<1>6. \E r : /\ work' = [work EXCEPT ![w] = r]
             /\ \/ r.pc = "put" /\ r.batch = work[w].batch
                \/ r.pc = "next" /\ r.batch = Tail(work[w].batch)
  <2>1. CASE Finish(w)
    BY <2>1, Finished DEF TInv, IInv
  <2>2. CASE ~Finish(w)
    <3> DEFINE g == [work[w] EXCEPT !.pc = "put"]
    <3>1. work' = [work EXCEPT ![w] = g]
      BY <2>2 DEF BatchGet, Worker
    <3>2. g.pc = "put" /\ g.batch = work[w].batch
      BY DEF TInv, IInv, Shapes, IsWork
    <3> HIDE DEF g
    <3> QED
      BY <3>1, <3>2
  <2> QED
    BY <2>1, <2>2
<1> PICK r : /\ work' = [work EXCEPT ![w] = r]
             /\ \/ r.pc = "put" /\ r.batch = work[w].batch
                \/ r.pc = "next" /\ r.batch = Tail(work[w].batch)
  BY <1>6
<1>7. work'[w] = r /\ \A v \in Workers \ {w} : work'[v] = work[v]
  BY WorkOf
<1>8. /\ \A n : Waits(w, n)' => Waits(w, n)
      /\ Waits(w, m) /\ ~(\E n \in {m} : Waits(w, n)')
  BY <1>1, <1>2, <1>7, Advances
<1>9. r.pc = "put" => \E n \in {m} : Putting(n)'
  BY <1>7 DEF Putting, At
<1>10. \/ UNCHANGED tries
       \/ /\ tries' = [tries EXCEPT ![m] = @ + 1]
          /\ r.pc = "put" \/ row'[m].attempts + Slack' >= row[m].attempts + Slack + 1
  <2>1. CASE Fails(Head(work[w].batch)) /\ Tried(w)
    <3>1. tries' = [tries EXCEPT ![m] = @ + 1]
      BY <2>1 DEF Tried, At
    <3>2. Attempt(m)
      BY <2>1 DEF Fails, At
    <3> QED
      BY <1>3, <3>1, <3>2, Recorded
  <2>2. CASE UNCHANGED tries
    BY <2>2
  <2>3. CASE Downloads(Head(work[w].batch)) /\ Tried(w) /\ Worker(w, [work[w] EXCEPT !.pc = "put"])
    <3>1. tries' = [tries EXCEPT ![m] = @ + 1]
      BY <2>3 DEF Tried, At
    <3>2. r.pc = "put"
      <4> DEFINE g == [work[w] EXCEPT !.pc = "put"]
      <4>1. work'[w] = g
        BY <2>3, WorkOf DEF Worker
      <4> QED
        BY <1>7, <4>1 DEF TInv, IInv, Shapes, IsWork
    <3> QED
      BY <3>1, <3>2
  <2> QED
    BY <2>1, <2>2, <2>3 DEF BatchGet
<1> HIDE DEF m
<1>11. ASSUME NEW n \in Medias PROVE Budget(n)'
  <2>1. \A v \in Workers : Waits(v, n)' => Waits(v, n)
    BY <1>7, <1>8, StillWaits
  <2>2. Putting(n) => Putting(n)'
    BY <1>1, <1>7, StillPuts
  <2>3. row'[n].attempts \in Nat /\ row'[n].attempts + Slack' >= row[n].attempts + Slack
    BY <1>5 DEF RowsGrow
  <2>4. tries[n] \in Nat /\ tries \in [Medias -> Nat]
    BY DEF TInv, Ground, CountsSound
  <2>5. CASE tries'[n] = tries[n]
    BY <1>5, <2>1, <2>2, <2>3, <2>5, QuietMedia
  <2>6. CASE tries'[n] # tries[n]
    <3>1. n = m /\ tries'[m] = tries[m] + 1
          /\ (r.pc = "put" \/ row'[m].attempts + Slack' >= row[m].attempts + Slack + 1)
      BY <1>10, <2>4, <2>6
    <3> QED
      BY <1>3, <1>5, <1>8, <1>9, <2>1, <2>3, <3>1, TriedMedia
  <2> QED
    BY <2>5, <2>6
<1>12. tries' \in [Medias -> Nat] /\ TriesKept
  BY <1>3, <1>10 DEF TInv, Ground, CountsSound, TriesKept
<1> QED
  BY <1>1, <1>2, <1>5, <1>11, <1>12, WorksOn

LEMMA TPuts == ASSUME TInv, IInv', NEW w \in Workers, BatchPut(w) PROVE TInv'
<1> DEFINE m == At(w)
<1>1. work[w].pc = "put" /\ UNCHANGED <<rows, running, tries>> /\ Stores(m) /\ Finish(w)
  BY DEF BatchPut, history, At
<1>2. Batched(w) /\ Busy(w) /\ work[w].batch # <<>>
  BY <1>1, TypesHere DEF Batched, Busy, BatchSound
<1>3. m \in Medias
  BY <1>2, AtFront
<1>4. /\ count' \in [Counted -> Nat] /\ Slack' \in Nat /\ Slack' >= Slack /\ RowsGrow
      /\ row'[m].attempts + Slack' >= row[m].attempts + Slack + 1
  BY <1>1, <1>3, Recorded
<1>5. PICK r : work' = [work EXCEPT ![w] = r] /\ r.pc = "next" /\ r.batch = Tail(work[w].batch)
  BY <1>1, Finished DEF TInv, IInv
<1>6. work'[w] = r /\ \A v \in Workers \ {w} : work'[v] = work[v]
  BY <1>5, WorkOf
<1>7. \A n : Waits(w, n)' => Waits(w, n)
  BY <1>1, <1>2, <1>5, <1>6 DEF Waits, Ahead
<1> HIDE DEF m
<1>8. ASSUME NEW n \in Medias PROVE Budget(n)'
  <2>1. \A v \in Workers : Waits(v, n)' => Waits(v, n)
    BY <1>6, <1>7, StillWaits
  <2>2. (Putting(n) => Putting(n)') \/ n = m
    BY <1>6, StillPuts DEF m
  <2> QED
    BY <1>1, <1>4, <2>1, <2>2, QuietMedia DEF RowsGrow
<1>9. tries' \in [Medias -> Nat] /\ TriesKept
  BY <1>1 DEF TInv, Ground, CountsSound, TriesKept
<1> QED
  BY <1>1, <1>2, <1>4, <1>5, <1>8, <1>9, WorksOn

------------------------------------------------------------------------------
(* A batch is read: each media once, and only those with attempts left.    *)
LEMMA Pending ==
  ASSUME TInv, NEW s
  PROVE  /\ PendingDownloads(s) \in Seq(Snapshot) /\ Once(PendingDownloads(s))
         /\ \A i \in DOMAIN PendingDownloads(s) : Wanted(PendingDownloads(s)[i].media)
<1> DEFINE wanted == {i \in DOMAIN rows : SessionOf[rows[i]] = s /\ Wanted(rows[i])}
           oldest == {i \in wanted : Cardinality({j \in wanted : j < i}) < BatchSize}
           order  == Ascending(oldest)
           n == Cardinality(oldest)
           b == PendingDownloads(s)
<1>1. /\ rows \in Seq(Medias) /\ row \in [Medias -> Rows]
      /\ \A i, j \in DOMAIN rows : rows[i] = rows[j] => i = j
  BY DEF TInv, Ground, RowsSound, IInv, Shapes
<1>2. DOMAIN rows = 1 .. Len(rows) /\ Len(rows) \in Nat /\ \A i \in DOMAIN rows : rows[i] \in Medias
  BY <1>1
<1>3. oldest \in SUBSET Nat /\ IsFiniteSet(oldest) /\ n \in Nat
  <2>1. IsFiniteSet(1 .. Len(rows))
    BY <1>2, FS_Interval
  <2>2. oldest \subseteq 1 .. Len(rows)
    BY <1>2
  <2> HIDE DEF oldest
  <2> QED
    BY <2>1, <2>2, FS_Subset, FS_CardinalityType
<1>4. /\ order \in [1 .. n -> oldest]
      /\ \A i, j \in 1 .. n : i < j => order[i] < order[j]
  <2> HIDE DEF oldest
  <2> QED
    BY <1>3, Lists DEF InOrder
<1>5. b = [i \in 1 .. n |-> [media |-> rows[order[i]], path |-> row[rows[order[i]]].path]]
  BY DEF PendingDownloads
<1>6. \A i \in oldest : i \in DOMAIN rows /\ Wanted(rows[i]) /\ i \in Nat
  BY <1>3
<1> HIDE DEF wanted, oldest, order, n, b
<1>7. \A i \in 1 .. n : order[i] \in oldest /\ b[i].media = rows[order[i]] /\ b[i] \in Snapshot
  <2> SUFFICES ASSUME NEW i \in 1 .. n
               PROVE  order[i] \in oldest /\ b[i].media = rows[order[i]] /\ b[i] \in Snapshot
    OBVIOUS
  <2>1. order[i] \in oldest /\ rows[order[i]] \in Medias
    BY <1>2, <1>4, <1>6
  <2>2. row[rows[order[i]]].path \in {"old", "new"}
    BY <1>1, <2>1 DEF Rows
  <2> QED
    BY <1>5, <2>1, <2>2 DEF Snapshot
<1>8. b \in Seq(Snapshot) /\ DOMAIN b = 1 .. n
  <2>1. b \in [1 .. n -> Snapshot]
    BY <1>5, <1>7
  <2> QED
    BY <1>3, <2>1
<1>9. ASSUME NEW i \in 1 .. n, NEW j \in 1 .. n, b[i].media = b[j].media PROVE i = j
  <2>1. order[i] = order[j] /\ order[i] \in Nat
    BY <1>1, <1>6, <1>7, <1>9
  <2>2. ~(order[i] < order[j]) /\ ~(order[j] < order[i])
    BY <2>1
  <2> QED
    BY <1>3, <1>4, <2>2
<1>10. Once(b) /\ \A i \in DOMAIN b : Wanted(b[i].media)
  BY <1>6, <1>7, <1>8, <1>9 DEF Once
<1> QED
  BY <1>8, <1>10 DEF b

LEMMA TQueries == ASSUME TInv, IInv', NEW w \in Workers, Query(w) PROVE TInv'
<1>1. UNCHANGED <<rows, row, running, tries>> /\ work[w].pc = "query"
  BY DEF Query, store, history
<1>2. UNCHANGED count \/ (Counts("faults") /\ "faults" \in Counted)
  BY DEF Query, Counted
<1>3. PICK b, failed :
               /\ Reads(w, b, failed)
               /\ b \in Seq(Snapshot) /\ Once(b) /\ \A i \in DOMAIN b : Wanted(b[i].media)
  <2>1. CASE \E s : Reads(w, PendingDownloads(s), FALSE)
    BY <2>1, Pending
  <2>2. CASE Reads(w, <<>>, TRUE)
    <3>1. << >> \in Seq(Snapshot) /\ DOMAIN << >> = {}
      OBVIOUS
    <3> DEFINE e == << >>
    <3> HIDE DEF e
    <3>2. DOMAIN e = {} /\ e \in Seq(Snapshot) /\ Reads(w, e, TRUE)
      BY <2>2, <3>1 DEF e
    <3> QED
      BY <3>2 DEF Once
  <2> QED
    BY <2>1, <2>2 DEF Query
<1> DEFINE r == [pc |-> "next", batch |-> b, tried |-> FALSE, empty |-> work[w].empty,
                 passed |-> failed]
<1>4. work'[w] = r /\ \A v \in Workers \ {w} : work'[v] = work[v]
  BY <1>3, WorkOf DEF Reads, Worker
<1>5. r.pc = "next" /\ r.batch = b
  OBVIOUS
<1> HIDE DEF r
<1>6. count' \in [Counted -> Nat] /\ Slack' \in Nat /\ Slack' >= Slack /\ RowsGrow
  BY <1>1, <1>2, OnlyCounted
<1>7. CountsSound' /\ RowsSound' /\ StatesGrow
  BY <1>1, <1>6, RowsKept DEF TInv, Ground, CountsSound, TriesKept, RowsGrow, StatesGrow
<1>8. LoopRuns'
  BY <1>1, <1>4 DEF TInv, Ground, LoopRuns, Workers
<1>9. BatchSound(w)'
  <2>1. \A i \in DOMAIN b : row[b[i].media].state # "none"
    BY <1>3 DEF Wanted
  <2> QED
    BY <1>1, <1>3, <1>4, <1>5, <2>1 DEF BatchSound, Busy
<1>10. ASSUME NEW m \in Medias PROVE Budget(m)'
  <2>0. \A v \in Workers \ {w} : Waits(v, m)' => Waits(v, m)
    BY <1>4, Others
  <2>1. CASE ~Waits(w, m)'
    BY <1>1, <1>4, <1>6, <2>0, <2>1, StillPuts, QuietMedia DEF RowsGrow
  <2>2. CASE Waits(w, m)'
    <3>1. Wanted(m)
      BY <1>3, <1>4, <1>5, <2>2 DEF Waits, Ahead
    <3>2. /\ tries[m] \in Nat /\ row[m].attempts \in Nat /\ Slack \in Nat /\ Tries \in Nat
          /\ row[m].attempts < Tries /\ tries'[m] = tries[m] /\ row' = row
          /\ Slack' \in Nat /\ Slack' >= Slack
      BY <1>1, <1>6, <3>1, TypesHere DEF Wanted
    <3>3. Budget(m)
      BY TypesHere
    <3>4. Putting(m) => Putting(m)'
      BY <1>1, <1>4, StillPuts
    <3>5. tries[m] <= row[m].attempts + Slack' + (IF Putting(m)' THEN 1 ELSE 0)
      <4> DEFINE p == Putting(m)
                 q == Putting(m)'
                 a == row[m].attempts
                 k == Slack
                 l == Slack'
      <4>1. tries[m] <= a + k + (IF p THEN 1 ELSE 0) /\ (p => q)
        BY <3>3, <3>4 DEF Budget
      <4>2. tries[m] \in Nat /\ a \in Nat /\ k \in Nat /\ l \in Nat /\ l >= k
        BY <3>2
      <4> HIDE DEF p, q, a, k, l
      <4>3. tries[m] <= a + l + (IF q THEN 1 ELSE 0)
        BY <4>1, <4>2
      <4> QED
        BY <4>3 DEF a, l, q
    <3>6. tries[m] <= Tries + Slack
      BY <3>2, <3>3 DEF Budget
    <3>7. ASSUME NEW v \in Workers \ {w}, Waits(v, m) PROVE tries[m] < Tries + Slack
      <4>1. ~Putting(m)
        <5> SUFFICES ASSUME NEW u \in Workers, work[u].pc = "put", At(u) = m PROVE FALSE
          BY DEF Putting
        <5>1. u = v
          BY <1>1 DEF Workers
        <5>2. Batched(v) /\ work[v].batch # <<>>
          BY <5>1, TypesHere DEF Batched, Busy, BatchSound
        <5>3. \E i \in DOMAIN Tail(work[v].batch) : Tail(work[v].batch)[i].media = m
          BY <3>7, <5>1 DEF Waits, Ahead
        <5> QED
          BY <5>1, <5>2, <5>3, AtFront
      <4> QED
        BY <3>2, <3>3, <4>1 DEF Budget
    <3>8. \A v, u \in Workers : v # u /\ Waits(v, m)' /\ Waits(u, m)'
            => \E x \in Workers \ {w} : Waits(x, m)
      BY <2>0
    <3> QED
      BY <3>2, <3>5, <3>6, <3>7, <3>8 DEF Budget
  <2> QED
    BY <2>1, <2>2
<1> QED
  BY <1>4, <1>7, <1>8, <1>9, <1>10, Works

------------------------------------------------------------------------------
(* Rows are saved; the process crashes.                                    *)

(* A media whose row is new, or written anew, has not been tried.          *)
LEMMA Untried ==
  ASSUME NEW m \in Medias, tries'[m] = 0, row'[m].attempts \in Nat, Slack' \in Nat
  PROVE  Budget(m)'
BY DEF Budget

LEMMA TSaves == ASSUME TInv, IInv', NEW m \in Medias, MessageEvent(m) PROVE TInv'
<1>1. /\ UNCHANGED <<work, running>> /\ Counts("events") /\ "events" \in Counted
      /\ tries' = [tries EXCEPT ![m] = 0]
  BY DEF MessageEvent, Counted
<1> DEFINE r == [state |-> "pending", path |-> row[m].path, attempts |-> 0]
<1>2. /\ row' = [row EXCEPT ![m] = r] /\ r.state = "pending" /\ r.attempts = 0
      /\ rows' = IF row[m].state = "none" THEN Append(rows, m) ELSE rows
  BY DEF MessageEvent, Save
<1> HIDE DEF r
<1>3. \A n \in Medias : row'[n] = IF n = m THEN r ELSE row[n]
  BY <1>2 DEF TInv, IInv, Shapes
<1>4. count' \in [Counted -> Nat] /\ Slack' \in Nat /\ Slack' >= Slack
  BY <1>1, CountStep DEF TInv, Ground
<1>5. CountsSound' /\ LoopRuns' /\ StatesGrow
  BY <1>1, <1>2, <1>3, <1>4 DEF TInv, Ground, CountsSound, LoopRuns, StatesGrow
<1>6. RowsSound'
  <2>1. /\ rows \in Seq(Medias) /\ \A i \in DOMAIN rows : rows[i] \in Medias
        /\ \A i, j \in DOMAIN rows : rows[i] = rows[j] => i = j
        /\ \A i \in DOMAIN rows : row[rows[i]].state # "none"
        /\ \A n \in Medias : row[n].state = "none" => tries[n] = 0
    BY DEF TInv, Ground, RowsSound
  <2>2. \A n \in Medias : row'[n].state = "none" => tries'[n] = 0
    BY <1>1, <1>2, <1>3, <2>1 DEF TInv, Ground, CountsSound
  <2>3. CASE row[m].state # "none"
    BY <1>2, <1>3, <2>1, <2>2, <2>3 DEF RowsSound
  <2>4. CASE row[m].state = "none"
    <3> DEFINE q == Append(rows, m)
    <3>1. q \in Seq(Medias) /\ DOMAIN q = 1 .. Len(rows) + 1
          /\ \A i \in DOMAIN q : q[i] = IF i = Len(rows) + 1 THEN m ELSE rows[i]
      BY <2>1
    <3>2. \A i \in DOMAIN rows : rows[i] # m
      BY <2>1, <2>4
    <3>3. \A i \in DOMAIN q : i = Len(rows) + 1 \/ i \in DOMAIN rows
      BY <2>1, <3>1
    <3>4. rows' = q
      BY <1>2, <2>4
    <3> HIDE DEF q
    <3>5. \A i, j \in DOMAIN q : q[i] = q[j] => i = j
      BY <2>1, <3>1, <3>2, <3>3
    <3>6. \A i \in DOMAIN q : row'[q[i]].state # "none"
      BY <1>2, <1>3, <2>1, <3>1, <3>3
    <3> QED
      BY <2>2, <3>1, <3>4, <3>5, <3>6 DEF RowsSound
  <2> QED
    BY <2>3, <2>4
<1>7. ASSUME NEW n \in Medias PROVE Budget(n)'
  <2>1. CASE n = m
    BY <1>1, <1>2, <1>3, <1>4, <2>1, Untried DEF TInv, Ground, CountsSound
  <2>2. CASE n # m
    <3>1. tries'[n] = tries[n] /\ row'[n] = row[n] /\ row[n].attempts \in Nat /\ Slack \in Nat
      BY <1>1, <1>3, <2>2, TypesHere DEF TInv, Ground, CountsSound
    <3> QED
      BY <1>1, <1>4, <3>1, SameWork, QuietMedia
  <2> QED
    BY <2>1, <2>2
<1>8. ASSUME NEW w \in Workers, Batched(w)' PROVE BatchSound(w)'
  <2>1. Batched(w) /\ (Busy(w)' => work[w].batch # <<>>)
    BY <1>1, <1>8, SameWork, TypesHere DEF BatchSound
  <2> QED
    BY <1>1, <1>5, <2>1, BatchKept
<1> QED
  BY <1>5, <1>6, <1>7, <1>8 DEF TInv, Ground

LEMMA TSyncs == ASSUME TInv, IInv', NEW s \in Sessions, HistorySync(s) PROVE TInv'
<1>1. PICK M \in SUBSET {m \in Medias : row[m].state = "none"} :
        /\ Counts("events")
        /\ row' = [m \in Medias |-> IF m \in M THEN NewRow ELSE row[m]]
        /\ rows' = rows \o SetToSeq(M)
        /\ \/ /\ running = NoSession /\ running' = s
              /\ work' = [work EXCEPT !["history"] = Starts("check")]
           \/ UNCHANGED <<running, work>>
        /\ UNCHANGED tries
  BY DEF HistorySync
<1>2. NewRow.state = "pending" /\ NewRow.attempts = 0 /\ "events" \in Counted
  BY DEF NewRow, Counted
<1>3. \A n \in Medias : row'[n] = IF n \in M THEN NewRow ELSE row[n]
  BY <1>1
<1>4. count' \in [Counted -> Nat] /\ Slack' \in Nat /\ Slack' >= Slack
  BY <1>1, <1>2, CountStep DEF TInv, Ground
<1>5. CountsSound' /\ StatesGrow
  BY <1>1, <1>2, <1>3, <1>4 DEF TInv, Ground, CountsSound, StatesGrow
<1>6. RowsSound'
  <2>1. /\ rows \in Seq(Medias) /\ \A i \in DOMAIN rows : rows[i] \in Medias
        /\ \A i, j \in DOMAIN rows : rows[i] = rows[j] => i = j
        /\ \A i \in DOMAIN rows : row[rows[i]].state # "none"
        /\ \A n \in Medias : row[n].state = "none" => tries[n] = 0
    BY DEF TInv, Ground, RowsSound
  <2> DEFINE b == SetToSeq(M)
             q == rows \o b
  <2>2. /\ b \in Seq(M) /\ \A i \in DOMAIN b : b[i] \in M
        /\ \A i, j \in DOMAIN b : b[i] = b[j] => i = j
    <3>1. IsFiniteSet(M)
      BY FS_Subset
    <3>2. /\ b \in [1 .. Cardinality(M) -> M] /\ Cardinality(M) \in Nat
          /\ \A i, j \in 1 .. Cardinality(M) : b[i] = b[j] => i = j
      BY ZenonT(60), <3>1, ListsOnce
    <3> HIDE DEF b
    <3>3. b \in Seq(M) /\ DOMAIN b = 1 .. Cardinality(M)
      BY <3>2
    <3> QED
      BY <3>2, <3>3
  <2>3. /\ q \in Seq(Medias)
        /\ \A i \in DOMAIN q : \/ i \in DOMAIN rows /\ q[i] = rows[i]
                               \/ /\ i \notin DOMAIN rows /\ i - Len(rows) \in DOMAIN b
                                  /\ q[i] = b[i - Len(rows)]
        /\ DOMAIN q \subseteq Nat /\ Len(rows) \in Nat
    <3> HIDE DEF b
    <3>1. b \in Seq(Medias)
      BY <2>2
    <3> QED
      BY <2>1, <3>1
  <2>4. rows' = q
    BY <1>1
  <2> HIDE DEF q, b
  <2>5. \A i, j \in DOMAIN q : q[i] = q[j] => i = j
    <3> SUFFICES ASSUME NEW i \in DOMAIN q, NEW j \in DOMAIN q, q[i] = q[j] PROVE i = j
      OBVIOUS
    <3>1. \A x \in DOMAIN rows : rows[x] \notin M
      BY <2>1
    <3>2. CASE i \in DOMAIN rows /\ j \in DOMAIN rows
      BY <2>1, <2>3, <3>2
    <3>3. CASE i \notin DOMAIN rows /\ j \notin DOMAIN rows
      <4>1. i - Len(rows) = j - Len(rows)
        BY <2>2, <2>3, <3>3
      <4> QED
        BY <2>3, <4>1
    <3> QED
      BY <2>2, <2>3, <3>1, <3>2, <3>3
  <2>6. \A i \in DOMAIN q : row'[q[i]].state # "none"
    BY SMTT(60), <1>2, <1>3, <2>1, <2>2, <2>3
  <2>7. \A n \in Medias : row'[n].state = "none" => tries'[n] = 0
    BY <1>1, <1>2, <1>3, <2>1
  <2> QED
    BY <2>3, <2>4, <2>5, <2>6, <2>7 DEF RowsSound
<1>7. \A v \in Workers : work'[v] = work[v] \/ (work[v].pc = "off" /\ ~Batched(v)')
  <2>1. CASE UNCHANGED work
    BY <2>1
  <2>2. CASE running = NoSession /\ work' = [work EXCEPT !["history"] = Starts("check")]
    <3>1. "history" \in Workers /\ work["history"].pc = "off" /\ Starts("check").pc = "check"
      BY <2>2 DEF Workers, TInv, Ground, LoopRuns, Starts
    <3> QED
      BY <2>2, <3>1, WorkOf DEF Batched
  <2> QED
    BY <1>1, <2>1, <2>2
<1>8. LoopRuns'
  BY <1>1 DEF TInv, Ground, LoopRuns
<1>9. ASSUME NEW n \in Medias PROVE Budget(n)'
  <2>1. CASE n \in M
    BY <1>1, <1>2, <1>3, <1>4, <2>1, Untried DEF TInv, Ground, RowsSound
  <2>2. CASE n \notin M
    <3>1. tries'[n] = tries[n] /\ row'[n] = row[n] /\ row[n].attempts \in Nat /\ Slack \in Nat
      BY <1>1, <1>3, <2>2, TypesHere
    <3>2. \A v \in Workers : Waits(v, n)' => Waits(v, n)
      BY <1>7, Others DEF Waits
    <3>3. Putting(n) => Putting(n)'
      BY <1>7, Others DEF Putting
    <3> QED
      BY <1>4, <3>1, <3>2, <3>3, QuietMedia
  <2> QED
    BY <2>1, <2>2
<1>10. ASSUME NEW w \in Workers, Batched(w)' PROVE BatchSound(w)'
  <2>1. Batched(w) /\ work'[w] = work[w] /\ (Busy(w)' => work[w].batch # <<>>)
    BY <1>7, <1>10, Others, TypesHere DEF BatchSound
  <2> QED
    BY <1>5, <2>1, BatchKept
<1> QED
  BY <1>5, <1>6, <1>8, <1>9, <1>10 DEF TInv, Ground

LEMMA TCrashes == ASSUME TInv, IInv', Crash PROVE TInv'
<1>1. /\ UNCHANGED <<rows, row, tries>> /\ Counts("crashes") /\ "crashes" \in Counted
      /\ work' = [w \in Workers |-> Rest]
  BY DEF Crash, store, Counted
<1>2. CountsSound
  BY DEF TInv, Ground
<1>3. count' \in [Counted -> Nat] /\ Slack' = Slack + 1 /\ Slack \in Nat /\ Slack' \in Nat
  BY <1>1, <1>2, CountStep
<1>4. \A w \in Workers : work'[w].pc = "off" /\ ~Batched(w)'
  BY <1>1 DEF Batched, Rest, Starts
<1>5. CountsSound' /\ RowsSound' /\ LoopRuns'
  BY <1>1, <1>3, <1>4 DEF TInv, Ground, CountsSound, RowsSound, LoopRuns, Workers
<1>6. ASSUME NEW m \in Medias PROVE Budget(m)'
  <2>1. row[m].attempts \in Nat /\ tries[m] \in Nat
    BY TypesHere
  <2> QED
    BY <1>1, <1>3, <1>4, <2>1, QuietMedia DEF Waits
<1> QED
  BY <1>4, <1>5, <1>6 DEF TInv, Ground

------------------------------------------------------------------------------
LEMMA TStep == TInv /\ [Next]_vars => TInv'
<1> SUFFICES ASSUME TInv, [Next]_vars PROVE TInv'
  OBVIOUS
<1>1. IInv'
  BY Inductive DEF TInv
<1>2. CASE UNCHANGED vars
  <2>1. UNCHANGED <<rows, row, work, running, count, tries>>
    BY <1>2 DEF vars, store, history
  <2> QED
    BY <1>1, <2>1, OnlyCounted, Elsewhere
<1>3. CASE Next
  <2>1. ASSUME NEW w \in Workers, Batch(w) PROVE TInv'
    BY <1>1, <2>1, TQueries, TPasses, TGets, TPuts, TDone DEF Batch
  <2>2. CASE Loop \/ Request \/ Alone \/ Crash
    BY <1>1, <2>2, TLoop, TBegins, TFetches, TCrashes
  <2>3. ASSUME NEW s \in Sessions, HistorySync(s) PROVE TInv'
    BY <1>1, <2>3, TSyncs
  <2>4. ASSUME NEW m \in Medias, MessageEvent(m) \/ ForceRetry(m) \/ Expire(m) \/ Answer(m)
        PROVE  TInv'
    BY <1>1, <2>4, TSaves, TPhones
  <2> QED
    BY <1>3, <2>1, <2>2, <2>3, <2>4 DEF Next
<1> QED
  BY <1>2, <1>3

(* Batches try a media as often as the limit allows, once more only when   *)
(* another batch read its row before the last try, and once more for each  *)
(* attempt that the database did not record or a crash cut off, whatever   *)
(* the batches, the retries and the phone do meanwhile                     *)
(* (ProcessPendingDownloads, tryStartDownload, GetPendingDownloads).       *)
THEOREM TriesAreBounded == Spec => []TriesBounded
<1>1. TInv => TriesBounded
  <2> SUFFICES ASSUME TInv, NEW m \in Medias
               PROVE  tries[m] <= Tries + Cardinality(Workers) - 1 + count.faults + count.crashes
    BY DEF TriesBounded
  <2>1. Cardinality(Workers) = 2
    <3>1. IsFiniteSet({"history"}) /\ Cardinality({"history"}) = 1
      BY FS_Singleton
    <3>2. Workers = {"history"} \cup {"request"} /\ "request" \notin {"history"}
      BY DEF Workers
    <3>3. Cardinality({"history"} \cup {"request"}) = 1 + 1
      BY <3>1, <3>2, FS_AddElement
    <3> QED
      BY <3>2, <3>3
  <2>2. tries[m] <= Tries + 1 + (count.faults + count.crashes)
    BY TypesHere DEF Budget, Slack
  <2>3. count.faults \in Nat /\ count.crashes \in Nat /\ Tries \in Nat
    BY DEF TInv, Ground, CountsSound, Counted
  <2> QED
    BY <2>1, <2>2, <2>3
<1> QED
  BY <1>1, TInitial, TStep, PTL DEF Spec

HIDE MediaAssumption

------------------------------------------------------------------------------
(* What Chatwoot shows of messages.                                        *)

Entry(m) == {RowOf(wa[m], raw) : raw \in {"event", "history"}}
Post == [of : Pair, shows : SUBSET Parts, sid : BOOLEAN, reply : Nat,
         by : {"bridge", "sync"}]
Sync == [pc : {"idle", "texts", "ids", "replies", "media"}, wanted : SUBSET Pair,
         found : SUBSET Pair, texts : SUBSET Pair, jobs : SUBSET Pair]
ContentShape ==
  /\ wa[1] \in Firsts /\ wa[2] \in Seconds
  /\ table \in [Pair -> {NoEntry} \cup Entry(1) \cup Entry(2)]
  /\ \A m \in Pair : table[m] = NoEntry \/ table[m] \in Entry(m)
  /\ files \subseteq Pair /\ synced \subseteq Pair
  /\ bridge \in [Pair -> {"none", "told", "done"}]
  /\ cw \in Seq(Post) /\ refs \in [Pair -> Nat] /\ sync \in Sync

HasPost(m) == \E p \in DOMAIN cw : cw[p].of = m
(* A reference and a reply are to a post of the message meant.             *)
RefsMeant == \A m \in Pair : refs[m] # 0 => refs[m] \in DOMAIN cw /\ cw[refs[m]].of = m
RepliesMeant ==
  \A p \in DOMAIN cw :
    cw[p].reply # 0 => /\ cw[p].of = 2 /\ wa[2].quotes
                       /\ cw[p].reply \in DOMAIN cw /\ cw[cw[p].reply].of = 1

(* What a post shows is what its maker makes of the message.               *)
OfBridge(post) ==
  \E d \in BOOLEAN : /\ post.shows = LiveShows(wa[post.of], d)
                     /\ post.sid = ~(IsMediaMessage(wa[post.of]) /\ d)
SyncShows(m) ==
  IF IsMedia(m) THEN {"file"} \cup table[m].content \cup Prefix(wa[m])
  ELSE Prefix(wa[m]) \cup RowText(table[m], wa[m])
OfSync(post) ==
  /\ post.sid /\ table[post.of] # NoEntry /\ post.shows = SyncShows(post.of)
PostRight(post) ==
  /\ post.shows # {}
  /\ post.by = "bridge" => OfBridge(post)
  /\ post.by = "sync" => OfSync(post)
PostsRight == \A p \in DOMAIN cw : PostRight(cw[p])

(* What a synchronisation counts as brought is in Chatwoot, or nothing of  *)
(* it could be shown.                                                      *)
Brought(m) == HasPost(m) \/ LiveShows(wa[m], TRUE) = {}
SyncKnows ==
  /\ \A m \in synced \cup sync.found : Brought(m)
  /\ \A m \in sync.wanted \cup sync.jobs : table[m] # NoEntry
  /\ \A m \in sync.jobs : IsMedia(m)
  /\ sync.pc \in {"ids", "replies", "media"} =>
       \A m \in sync.wanted : ~IsMedia(m) => Brought(m)

(* The posts of a synchronisation that quote one before them are replies,  *)
(* those it is still about to resolve apart.                               *)
KeptAll ==
  \A p, q \in DOMAIN cw :
    cw[p].of = 2 /\ cw[p].by = "sync" /\ ~IsMedia(2)
    /\ Quoted(wa[2], table[2].raw) /\ q < p /\ cw[q].of = 1 /\ cw[q].sid
      => cw[p].reply # 0
KeptLater == (sync.pc \in {"ids", "replies"} /\ 2 \in sync.texts) \/ KeptAll

ContentInv ==
  ContentShape /\ RefsMeant /\ RepliesMeant /\ PostsRight /\ SyncKnows /\ KeptLater

------------------------------------------------------------------------------
(* The two ways a message is formatted.                                    *)

(* The types of rows that are of media are those of messages that are.     *)
LEMMA MediaByType ==
  ASSUME NEW msg, NEW raw
  PROVE  RowOf(msg, raw).type \in MediaTypes <=> IsMediaMessage(msg)
BY DEF RowOf, TypeOf, MediaTypes, IsMediaMessage

(* Of a message without a file, the synchronisation shows what the bridge  *)
(* shows, in its essential parts, and nothing only where that shows        *)
(* nothing.                                                                *)
OwedParts(msg) ==
  {s \in LiveShows(msg, TRUE) \cap Essential :
     (s = "caption" => msg.kind # "document") /\ (s = "coordinates" => s \in msg.has)}

LEMMA TextOfRow ==
  ASSUME NEW msg, NEW raw \in {"event", "history"}, ~IsMediaMessage(msg),
         msg.has \in SUBSET Parts
  PROVE  LET text == RowText(RowOf(msg, raw), msg) IN
         /\ OwedParts(msg) \subseteq Prefix(msg) \cup text
         /\ text = {} => LiveShows(msg, TRUE) = {}
<1> DEFINE hers == RowOf(msg, raw)
           text == RowText(hers, msg)
<1>r. hers.raw = raw /\ hers.content = RowContent(msg) /\ hers.type = TypeOf(msg)
  BY DEF RowOf
<1>1. LiveShows(msg, TRUE) \subseteq Prefix(msg) \cup LiveText(msg)
  BY DEF LiveShows, Signed, Prefix
<1>2. LiveText(msg) = {} => LiveShows(msg, TRUE) = {}
  BY DEF LiveShows, Signed
<1>3. SUFFICES /\ \A s \in LiveText(msg) \cap Essential :
                    (s = "coordinates" => s \in msg.has) => s \in text
               /\ text = {} => LiveText(msg) = {}
  <2> HIDE DEF text
  <2>1. ASSUME NEW s \in OwedParts(msg) PROVE s \in Prefix(msg) \cup text
    BY <1>1, <1>3, <2>1 DEF OwedParts
  <2>2. text = {} => LiveShows(msg, TRUE) = {}
    BY <1>2, <1>3
  <2>3. OwedParts(msg) \subseteq Prefix(msg) \cup text
    BY <2>1
  <2> QED
    BY <2>2, <2>3 DEF text
<1>4. CASE msg.kind = "text"
  <2>1. hers.type = "text" /\ hers.content = msg.has \cap {"text"}
    BY <1>4, <1>r DEF TypeOf, RowContent, ContentParts
  <2>2. text = msg.has \cap {"text"}
    BY <2>1 DEF RowText, Interactive, InteractiveParts
  <2>3. LiveText(msg) = msg.has \cap {"text"}
    BY <1>4 DEF LiveText
  <2> QED
    BY <2>2, <2>3
<1>5. CASE msg.kind = "location"
  <2>1. hers.type = "location" /\ hers.content = {"coordinates"}
    BY <1>5, <1>r DEF TypeOf, RowContent
  <2>2. text = LocationContent(hers, msg)
    BY <2>1 DEF RowText, Interactive, InteractiveParts
  <2>3. LiveText(msg) = {"coordinates"}
    BY <1>5 DEF LiveText
  <2> QED
    BY <2>1, <2>2, <2>3, <1>r DEF LocationContent
<1>6. CASE msg.kind = "contact"
  <2>1. hers.type = "contact"
    BY <1>6, <1>r DEF TypeOf
  <2>2. text = CardContent(msg)
    BY <2>1 DEF RowText, Interactive, InteractiveParts
  <2>3. LiveText(msg) = FormattedCard(msg)
    BY <1>6 DEF LiveText
  <2> QED
    BY <2>2, <2>3 DEF CardContent, FormattedCard, Card, Essential
<1>7. CASE msg.kind = "contacts"
  <2>1. hers.type = "contacts"
    BY <1>7, <1>r DEF TypeOf
  <2>2. text = CardsContent(msg)
    BY <2>1 DEF RowText, Interactive, InteractiveParts
  <2>3. LiveText(msg) = FormattedCards(msg)
    BY <1>7 DEF LiveText
  <2> QED
    BY <2>2, <2>3 DEF CardsContent, FormattedCards, FormattedCard, Card, Essential
<1>8. CASE msg.kind \notin {"text", "location", "contact", "contacts"}
  <2>1. LiveText(msg) = {}
    BY <1>8 DEF LiveText
  <2> QED
    BY <2>1
<1> QED
  BY <1>4, <1>5, <1>6, <1>7, <1>8

(* Of a media the bridge could download or a synchronisation uploads, the  *)
(* file and the caption are shown; the row of a document holds its name.   *)
LEMMA FileOfRow ==
  ASSUME NEW msg, NEW raw \in {"event", "history"}, IsMediaMessage(msg)
  PROVE  OwedParts(msg) \subseteq {"file"} \cup RowOf(msg, raw).content \cup Prefix(msg)
<1>1. LiveShows(msg, TRUE) \subseteq {"file"} \cup MediaCaption(msg)
  BY DEF LiveShows, MediaShows
<1>2. RowOf(msg, raw).content = RowContent(msg)
  BY DEF RowOf
<1>3. ASSUME NEW s \in OwedParts(msg), s # "file" PROVE s \in RowContent(msg)
  <2>1. s \in MediaCaption(msg) /\ (s = "caption" => msg.kind # "document")
    BY <1>1, <1>3 DEF OwedParts
  <2>2. s = "caption" /\ msg.kind \in {"image", "video"} /\ s \in msg.has
    BY <2>1 DEF MediaCaption
  <2> QED
    BY <2>2 DEF RowContent, ContentParts
<1> QED
  BY <1>2, <1>3

LEMMA OwedIs == ASSUME NEW m, ~Placeholder(m) PROVE OwedOf(m) = OwedParts(wa[m])
BY DEF OwedOf, OwedParts

(* What is posted of a message shows what is owed of it.                   *)
LEMMA PostShows ==
  ASSUME ContentShape, PostsRight, NEW p \in DOMAIN cw
  PROVE  OwedOf(cw[p].of) \subseteq cw[p].shows /\ cw[p].shows # {}
<1> DEFINE m == cw[p].of
           msg == wa[m]
<1>1. cw[p] \in Post
  BY DEF ContentShape
<1>2. m \in Pair /\ cw[p].by \in {"bridge", "sync"} /\ cw[p].sid \in BOOLEAN
  BY <1>1 DEF Post
<1>3. PostRight(cw[p])
  BY DEF PostsRight
<1>4. CASE Placeholder(m)
  BY <1>3, <1>4 DEF OwedOf, PostRight
<1>5. CASE ~Placeholder(m)
  <2> HIDE DEF m
  <2>1. OwedOf(m) = OwedParts(msg)
    BY <1>5, OwedIs
  <2>2. CASE cw[p].by = "bridge"
    <3>1. PICK d \in BOOLEAN : /\ cw[p].shows = LiveShows(msg, d)
                               /\ cw[p].sid = ~(IsMediaMessage(msg) /\ d)
      BY <1>3, <2>2 DEF PostRight, OfBridge, m
    <3>2. IsMediaMessage(msg) => d = TRUE
      BY <1>5, <2>2, <3>1 DEF Placeholder, m
    <3>3. LiveShows(msg, d) = LiveShows(msg, TRUE)
      BY <3>2 DEF LiveShows
    <3> QED
      BY <1>3, <2>1, <3>1, <3>3 DEF OwedParts, PostRight, m
  <2>3. CASE cw[p].by = "sync"
    <3>1. table[m] # NoEntry /\ cw[p].shows = SyncShows(m)
      BY <1>3, <2>3 DEF PostRight, OfSync, m
    <3>2. PICK raw \in {"event", "history"} : table[m] = RowOf(msg, raw)
      BY <1>2, <3>1 DEF ContentShape, Entry, m
    <3>3. IsMedia(m) <=> IsMediaMessage(msg)
      BY <3>2, MediaByType DEF IsMedia
    <3>4. msg.has \in SUBSET Parts
      BY <1>2, ContentAssumption DEF ContentShape, WaMessage, Pair, m
    <3>5. OwedParts(msg) \subseteq SyncShows(m)
      BY <3>2, <3>3, <3>4, TextOfRow, FileOfRow DEF SyncShows
    <3> QED
      BY <1>3, <2>1, <3>1, <3>5 DEF PostRight, m
  <2> QED
    BY <1>2, <2>2, <2>3 DEF m
<1> QED
  BY <1>4, <1>5

(* What a synchronisation counts as brought is recovered, and what is a    *)
(* reply replies to the message meant.                                     *)
LEMMA ContentEnough == ContentInv => Recovered /\ RepliesOwn /\ RepliesKept
<1> SUFFICES ASSUME ContentInv PROVE Recovered /\ RepliesOwn /\ RepliesKept
  OBVIOUS
<1> USE DEF ContentInv
<1>1. ASSUME NEW m \in synced
      PROVE  /\ OwedOf(m) \subseteq ShownOf(m)
             /\ LiveShows(wa[m], TRUE) # {} => ShownOf(m) # {}
  <2>1. Brought(m)
    BY <1>1 DEF SyncKnows
  <2>2. CASE HasPost(m)
    <3>1. PICK p \in DOMAIN cw : cw[p].of = m
      BY <2>2 DEF HasPost
    <3>2. OwedOf(m) \subseteq cw[p].shows /\ cw[p].shows # {}
      BY <3>1, PostShows
    <3>3. cw[p].shows \subseteq ShownOf(m)
      BY <3>1 DEF ShownOf
    <3> QED
      BY <3>2, <3>3
  <2>3. CASE LiveShows(wa[m], TRUE) = {}
    BY <2>3 DEF OwedOf
  <2> QED
    BY <2>1, <2>2, <2>3 DEF Brought
<1>2. Recovered
  BY <1>1 DEF Recovered
<1>3. RepliesOwn
  <2> SUFFICES ASSUME NEW p \in DOMAIN cw, cw[p].reply # 0
               PROVE  /\ cw[p].of = 2 /\ wa[2].quotes
                      /\ cw[p].reply # p /\ cw[cw[p].reply].of = 1
    BY DEF RepliesOwn
  <2> QED
    BY DEF RepliesMeant
<1>4. RepliesKept
  BY DEF KeptLater, KeptAll, RepliesKept
<1> QED
  BY <1>2, <1>3, <1>4

------------------------------------------------------------------------------
(* Steps.                                                                  *)

LEMMA ContentStarts == ContentInit => ContentInv
<1> SUFFICES ASSUME ContentInit PROVE ContentInv
  OBVIOUS
<1>1. PICK first \in Firsts, second \in Seconds : wa = <<first, second>>
  BY DEF ContentInit
<1>2. wa[1] = first /\ wa[2] = second
  BY <1>1
<1>3. sync \in Sync
  BY DEF ContentInit, Sync, NoSync
<1>4. ContentShape
  BY <1>2, <1>3 DEF ContentInit, ContentShape, Pair
<1> QED
  BY <1>4 DEF ContentInit, ContentInv, RefsMeant, RepliesMeant, PostsRight, SyncKnows, KeptLater,
     KeptAll, NoSync

LEMMA Appended ==
  ASSUME NEW list \in Seq(Post), NEW post \in Post
  PROVE  /\ Append(list, post) \in Seq(Post)
         /\ Len(list) \in Nat /\ Len(Append(list, post)) = Len(list) + 1
         /\ DOMAIN list = 1 .. Len(list)
         /\ DOMAIN Append(list, post) = 1 .. Len(list) + 1
         /\ \A p \in DOMAIN list : Append(list, post)[p] = list[p]
         /\ Append(list, post)[Len(list) + 1] = post
OBVIOUS

(* What stays of posts and rows in every step: posts keep all but their    *)
(* replies, and rows are written once.                                     *)
Stays(post, later) ==
  /\ later.of = post.of /\ later.shows = post.shows /\ later.sid = post.sid
  /\ later.by = post.by
PostsStay ==
  /\ DOMAIN cw \subseteq DOMAIN cw'
  /\ \A p \in DOMAIN cw : Stays(cw[p], cw'[p])
RowsStay ==
  /\ wa' = wa
  /\ \A m \in Pair : table[m] # NoEntry => table'[m] = table[m]

(* What a synchronisation inserts: a post of each text, after all others.  *)
TextPost(m) == NewPost(m, Prefix(wa[m]) \cup RowText(table[m], wa[m]), TRUE, 0, "sync")
Insertion ==
  /\ cw' \in Seq(Post)
  /\ \A p \in DOMAIN cw : p \in DOMAIN cw' /\ cw'[p] = cw[p]
  /\ \A p \in DOMAIN cw' : p \notin DOMAIN cw =>
       p > Len(cw) /\ \E m \in sync'.texts : cw'[p] = TextPost(m)
  /\ \A m \in sync'.texts : \E p \in DOMAIN cw' : cw'[p] = TextPost(m)
  /\ sync'.texts = {m \in sync.wanted : ~IsMedia(m) /\ RowText(table[m], wa[m]) # {}}
  /\ sync' = [sync EXCEPT !.pc = "ids", !.texts = sync'.texts]

LEMMA PrefixIsText == ASSUME NEW msg PROVE Prefix(msg) \subseteq Parts
BY DEF Prefix, Parts

LEMMA RowTextIsText ==
  ASSUME NEW msg \in WaMessage, NEW raw \in {"event", "history"}
  PROVE  /\ RowText(RowOf(msg, raw), msg) \subseteq Parts
         /\ RowOf(msg, raw).content \subseteq Parts
<1> DEFINE hers == RowOf(msg, raw)
<1>1. msg.has \subseteq Parts
  BY DEF WaMessage
<1>2. hers.content \subseteq Parts
  BY <1>1 DEF RowOf, RowContent, Parts
<1>3. RowText(hers, msg) \in {Interactive(hers, msg), LocationContent(hers, msg), CardContent(msg),
                             CardsContent(msg), ButtonReply(hers), hers.content}
  BY DEF RowText
<1>4. /\ Interactive(hers, msg) \subseteq Parts /\ LocationContent(hers, msg) \subseteq Parts
      /\ CardContent(msg) \subseteq Parts /\ CardsContent(msg) \subseteq Parts
      /\ ButtonReply(hers) \subseteq Parts
  <2> HIDE DEF hers
  <2> QED
    BY <1>1, <1>2 DEF Interactive, LocationContent, CardContent, CardsContent, ButtonReply, Parts
<1> HIDE DEF hers
<1>5. RowText(hers, msg) \subseteq Parts
  BY <1>2, <1>3, <1>4
<1> QED
  BY <1>2, <1>5 DEF hers

LEMMA Messages ==
  ASSUME ContentShape, NEW m \in Pair
  PROVE  /\ wa[m] \in WaMessage
         /\ table[m] # NoEntry =>
              /\ RowText(table[m], wa[m]) \subseteq Parts /\ table[m].content \subseteq Parts
<1>1. wa[m] \in WaMessage
  BY ContentAssumption DEF ContentShape, Pair
<1>2. ASSUME table[m] # NoEntry PROVE \E raw \in {"event", "history"} : table[m] = RowOf(wa[m], raw)
  BY <1>2 DEF ContentShape, Entry
<1> QED
  BY <1>1, <1>2, RowTextIsText

LEMMA TextPostIs ==
  ASSUME ContentShape, NEW m \in Pair, table[m] # NoEntry
  PROVE  TextPost(m) \in Post
<1>1. Prefix(wa[m]) \cup RowText(table[m], wa[m]) \in SUBSET Parts
  BY Messages, PrefixIsText
<1> QED
  BY <1>1 DEF TextPost, NewPost, Post

LEMMA Inserts == ASSUME ContentShape, SyncKnows, SyncInserts PROVE Insertion
<1> DEFINE Text(m) == RowText(table[m], wa[m])
           texts == {m \in sync.wanted : ~IsMedia(m) /\ Text(m) # {}}
           In(m) == IF m \in texts
                    THEN <<NewPost(m, Prefix(wa[m]) \cup Text(m), TRUE, 0, "sync")>> ELSE <<>>
<1>1. cw' = (cw \o In(1)) \o In(2) /\ sync' = [sync EXCEPT !.pc = "ids", !.texts = texts]
  BY DEF SyncInserts
<1>2. sync'.texts = texts
  BY <1>1 DEF ContentShape, Sync
<1>3. texts \subseteq Pair /\ \A m \in texts : table[m] # NoEntry
  BY DEF ContentShape, Sync, SyncKnows
<1>4. \A m \in texts : TextPost(m) \in Post
  BY <1>3, TextPostIs
<1>5. cw \in Seq(Post)
  BY DEF ContentShape
<1>6. \A m : In(m) = IF m \in texts THEN <<TextPost(m)>> ELSE <<>>
  BY DEF TextPost
<1> HIDE DEF texts, In
<1>7. \A list \in Seq(Post), m \in Pair :
        list \o In(m) = IF m \in texts THEN Append(list, TextPost(m)) ELSE list
  <2> SUFFICES ASSUME NEW list \in Seq(Post), NEW m \in Pair
               PROVE  list \o In(m) = IF m \in texts THEN Append(list, TextPost(m)) ELSE list
    OBVIOUS
  <2>1. ASSUME m \in texts PROVE list \o In(m) = Append(list, TextPost(m))
    <3>1. In(m) = <<TextPost(m)>> /\ TextPost(m) \in Post
      BY <1>4, <1>6, <2>1
    <3> HIDE DEF TextPost
    <3>2. list \o <<TextPost(m)>> = Append(list, TextPost(m))
      BY <3>1
    <3> QED
      BY <3>1, <3>2
  <2>2. ASSUME m \notin texts PROVE list \o In(m) = list
    <3>1. In(m) = <<>>
      BY <1>6, <2>2
    <3> QED
      BY <3>1
  <2> QED
    BY <2>1, <2>2
<1> DEFINE one == cw \o In(1)
<1>8. /\ one \in Seq(Post) /\ Len(cw) \in Nat /\ Len(one) \in Nat
      /\ DOMAIN cw = 1 .. Len(cw) /\ DOMAIN one = 1 .. Len(one)
      /\ \A p \in DOMAIN cw : p \in DOMAIN one /\ one[p] = cw[p]
      /\ \A p \in DOMAIN one : p \notin DOMAIN cw => p > Len(cw) /\ 1 \in texts /\ one[p] = TextPost(1)
      /\ 1 \in texts => \E p \in DOMAIN one : one[p] = TextPost(1)
  <2>1. CASE 1 \in texts
    <3>1. one = Append(cw, TextPost(1)) /\ TextPost(1) \in Post
      BY <1>4, <1>5, <1>7, <2>1 DEF Pair
    <3> HIDE DEF one
    <3> QED
      BY <1>5, <2>1, <3>1, Appended
  <2>2. CASE 1 \notin texts
    <3>1. one = cw
      BY <1>5, <1>7, <2>2 DEF Pair
    <3> HIDE DEF one
    <3> QED
      BY <1>5, <2>2, <3>1
  <2> QED
    BY <2>1, <2>2
<1>9. cw' = one \o In(2)
  BY <1>1
<1> HIDE DEF one
<1>10. /\ cw' \in Seq(Post) /\ Len(one) \in Nat
       /\ DOMAIN one = 1 .. Len(one)
       /\ \A p \in DOMAIN one : p \in DOMAIN cw' /\ cw'[p] = one[p]
       /\ \A p \in DOMAIN cw' : p \notin DOMAIN one => p > Len(one) /\ 2 \in texts /\ cw'[p] = TextPost(2)
       /\ 2 \in texts => \E p \in DOMAIN cw' : cw'[p] = TextPost(2)
  <2>1. CASE 2 \in texts
    <3>1. cw' = Append(one, TextPost(2)) /\ TextPost(2) \in Post
      BY <1>4, <1>7, <1>8, <1>9, <2>1 DEF Pair
    <3> QED
      BY <1>8, <2>1, <3>1, Appended
  <2>2. CASE 2 \notin texts
    <3>1. cw' = one
      BY <1>7, <1>8, <1>9, <2>2 DEF Pair
    <3> QED
      BY <1>8, <2>2, <3>1
  <2> QED
    BY <2>1, <2>2
<1>11. Len(cw) <= Len(one)
  <2>1. Len(cw) > 0 => Len(cw) \in DOMAIN one
    BY <1>8
  <2> QED
    BY <1>8, <2>1
<1>12. ASSUME NEW p \in DOMAIN cw', p \notin DOMAIN cw
       PROVE  p > Len(cw) /\ \E m \in texts : cw'[p] = TextPost(m)
  <2>1. CASE p \in DOMAIN one
    <3>1. p > Len(cw) /\ 1 \in texts /\ one[p] = TextPost(1)
      BY <1>8, <1>12, <2>1
    <3>2. cw'[p] = one[p]
      BY <1>10, <2>1
    <3> QED
      BY <3>1, <3>2
  <2>2. CASE p \notin DOMAIN one
    <3>1. p > Len(one) /\ 2 \in texts /\ cw'[p] = TextPost(2)
      BY <1>10, <1>12, <2>2
    <3>2. p \in Nat
      BY <1>10, <1>12
    <3> QED
      BY <1>8, <1>11, <3>1, <3>2
  <2> QED
    BY <2>1, <2>2
<1>13. ASSUME NEW m \in texts PROVE \E p \in DOMAIN cw' : cw'[p] = TextPost(m)
  <2>1. m = 1 \/ m = 2
    BY <1>3, <1>13 DEF Pair
  <2>2. CASE m = 1
    BY <1>8, <1>10, <1>13, <2>2
  <2>3. CASE m = 2
    BY <1>10, <1>13, <2>3
  <2> QED
    BY <2>1, <2>2, <2>3
<1>14. \A p \in DOMAIN cw : p \in DOMAIN cw' /\ cw'[p] = cw[p]
  BY <1>8, <1>10
<1>15. texts = {m \in sync.wanted : ~IsMedia(m) /\ RowText(table[m], wa[m]) # {}}
  BY DEF texts
<1> QED
  BY <1>1, <1>2, <1>10, <1>12, <1>13, <1>14, <1>15 DEF Insertion

LEMMA LiveShowsParts ==
  ASSUME NEW msg \in WaMessage, NEW d \in BOOLEAN PROVE LiveShows(msg, d) \in SUBSET Parts
<1>1. msg.has \subseteq Parts
  BY DEF WaMessage
<1>2. MediaShows(msg, d) \subseteq Parts
  BY <1>1 DEF MediaShows, MediaCaption, Parts
<1>3. LiveText(msg) \subseteq Parts
  <2>1. LiveText(msg) \in {msg.has \cap {"text"}, {"coordinates"}, FormattedCard(msg),
                           FormattedCards(msg), {}}
    BY DEF LiveText
  <2>2. FormattedCard(msg) \subseteq Parts /\ FormattedCards(msg) \subseteq Parts
    BY <1>1 DEF FormattedCard, FormattedCards, Card, Parts
  <2>3. {"coordinates"} \subseteq Parts
    BY DEF Parts
  <2> QED
    BY <1>1, <2>1, <2>2, <2>3
<1>4. Signed(msg, LiveText(msg)) \subseteq Parts
  BY <1>3 DEF Signed, Parts
<1> QED
  BY <1>2, <1>4 DEF LiveShows

(* The post of a bridge that shows a message.                              *)
LEMMA BridgePosts ==
  ASSUME ContentInv, NEW m \in Pair, BridgeShows(m)
  PROVE  \E post \in Post :
           /\ cw' = Append(cw, post) /\ post.of = m /\ post.by = "bridge" /\ post.shows # {}
           /\ OfBridge(post) /\ post.reply = ReplyOf(wa[m])
           /\ refs' = refs \/ refs' = [refs EXCEPT ![m] = Len(cw) + 1]
<1> DEFINE media == IsMediaMessage(wa[m])
           made(d) == NewPost(m, LiveShows(wa[m], d), ~(media /\ d), ReplyOf(wa[m]), "bridge")
<1>1. PICK d \in BOOLEAN :
        /\ LiveShows(wa[m], d) # {} /\ cw' = Append(cw, made(d))
        /\ refs' = refs \/ refs' = [refs EXCEPT ![m] = Len(cw) + 1]
  BY DEF BridgeShows
<1>2. LiveShows(wa[m], d) \in SUBSET Parts
  BY Messages, LiveShowsParts DEF ContentInv
<1>3. ReplyOf(wa[m]) \in Nat
  BY DEF ReplyOf, ContentInv, ContentShape, Pair
<1>4. PICK sid \in BOOLEAN : sid = ~(media /\ d)
  BY DEF IsMediaMessage
<1>5. made(d) \in Post
  <2>1. NewPost(m, LiveShows(wa[m], d), sid, ReplyOf(wa[m]), "bridge") \in Post
    BY <1>2, <1>3 DEF NewPost, Post
  <2> QED
    BY <1>4, <2>1
<1>6. /\ made(d).of = m /\ made(d).by = "bridge" /\ made(d).shows = LiveShows(wa[m], d)
      /\ made(d).sid = ~(media /\ d) /\ made(d).reply = ReplyOf(wa[m])
  BY DEF NewPost
<1>7. OfBridge(made(d))
  BY <1>6 DEF OfBridge
<1> HIDE DEF made
<1> QED
  BY <1>1, <1>5, <1>6, <1>7

(* That of an upload.                                                      *)
LEMMA UploadPosts ==
  ASSUME ContentInv, NEW m \in Pair, SyncUploads(m)
  PROVE  \E post \in Post :
           /\ cw' = Append(cw, post) /\ post.of = m /\ post.by = "sync" /\ post.shows # {}
           /\ OfSync(post) /\ post.reply = 0 /\ IsMedia(m)
<1> DEFINE shows == {"file"} \cup table[m].content \cup Prefix(wa[m])
           post == NewPost(m, shows, TRUE, 0, "sync")
<1>1. cw' = Append(cw, post) /\ IsMedia(m) /\ table[m] # NoEntry
  BY DEF SyncUploads, ContentInv, SyncKnows
<1>2. shows \in SUBSET Parts
  <2>1. table[m].content \subseteq Parts
    BY <1>1, Messages DEF ContentInv
  <2>2. "file" \in Parts
    BY DEF Parts
  <2> QED
    BY <2>1, <2>2, PrefixIsText
<1>3. post \in Post
  BY <1>2 DEF NewPost, Post
<1>4. post.of = m /\ post.by = "sync" /\ post.shows = shows /\ post.sid = TRUE /\ post.reply = 0
  BY DEF NewPost
<1>5. OfSync(post)
  BY <1>1, <1>4 DEF OfSync, SyncShows
<1>6. shows # {}
  OBVIOUS
<1> HIDE DEF post
<1> QED
  BY <1>1, <1>3, <1>4, <1>5, <1>6

(* What a synchronisation resolves.                                        *)
Resolution ==
  /\ 2 \in sync.texts /\ QuotedOfRow(2)
  /\ \E q \in DOMAIN cw :
       /\ cw[q].of = 1 /\ cw[q].sid
       /\ cw' \in Seq(Post) /\ DOMAIN cw' = DOMAIN cw
       /\ \A p \in DOMAIN cw :
            IF cw[p].of = 2 /\ cw[p].sid THEN Stays(cw[p], cw'[p]) /\ cw'[p].reply = q
            ELSE cw'[p] = cw[p]

LEMMA Resolves ==
  ASSUME ContentInv, SyncResolves
  PROVE  \/ cw' = cw /\ ~(2 \in sync.texts /\ QuotedOfRow(2) /\ 1 \in Found)
         \/ Resolution
<1>1. CASE 2 \in sync.texts /\ QuotedOfRow(2) /\ 1 \in Found
  <2>1. PICK q \in DOMAIN cw :
          /\ cw[q].of = 1 /\ cw[q].sid
          /\ cw' = [p \in DOMAIN cw |-> IF cw[p].of = 2 /\ cw[p].sid
                                        THEN [cw[p] EXCEPT !.reply = q] ELSE cw[p]]
    BY <1>1 DEF SyncResolves
  <2>2. cw \in Seq(Post) /\ q \in Nat
    BY DEF ContentInv, ContentShape
  <2>3. \A p \in DOMAIN cw : cw[p] \in Post
    BY <2>2
  <2>4. ASSUME NEW post \in Post
        PROVE  /\ [post EXCEPT !.reply = q] \in Post
               /\ Stays(post, [post EXCEPT !.reply = q]) /\ [post EXCEPT !.reply = q].reply = q
    BY <2>2 DEF Post, Stays
  <2>5. DOMAIN cw' = DOMAIN cw /\ \A p \in DOMAIN cw : cw'[p] \in Post
    BY <2>1, <2>3, <2>4
  <2>6. cw' \in Seq(Post)
    <3>1. cw' = [p \in 1 .. Len(cw) |-> cw'[p]] /\ Len(cw) \in Nat /\ DOMAIN cw = 1 .. Len(cw)
      BY <2>1, <2>2
    <3> QED
      BY <2>5, <3>1
  <2> QED
    BY <1>1, <2>1, <2>3, <2>4, <2>5, <2>6 DEF Resolution
<1>2. CASE ~(2 \in sync.texts /\ QuotedOfRow(2) /\ 1 \in Found)
  BY <1>2 DEF SyncResolves
<1> QED
  BY <1>1, <1>2

(* Every step keeps the messages, the rows written and the posts made, up  *)
(* to their replies, and what it adds are posts that show what their maker *)
(* makes of the message.                                                   *)
Added(p) == p \in DOMAIN cw' /\ p \notin DOMAIN cw

LEMMA RowsKeep == ASSUME ContentInv, [ContentNext]_contentVars PROVE RowsStay
<1>1. CASE \E m \in Pair : Receive(m) \/ ReadHistory(m)
  <2>1. PICK m \in Pair : Receive(m) \/ ReadHistory(m)
    BY <1>1
  <2>2. \A k \in Pair : table[k] # NoEntry => table'[k] = table[k]
    BY <2>1 DEF Receive, ReadHistory, ContentInv, ContentShape
  <2>3. wa' = wa
    BY <2>1 DEF Receive, ReadHistory
  <2> QED
    BY <2>2, <2>3 DEF RowsStay
<1>2. CASE wa' = wa /\ table' = table
  BY <1>2 DEF RowsStay
<1> QED
  BY <1>1, <1>2 DEF ContentNext, contentVars, StoreFile, BridgeShows, BridgeDrops, SyncUploads,
     SyncReads, SyncInserts, SyncRecords, SyncResolves, SyncEnded

(* The four steps that change Chatwoot.                                    *)
LEMMA CwSteps ==
  ASSUME [ContentNext]_contentVars
  PROVE  \/ \E m \in Pair : BridgeShows(m)
         \/ \E m \in Pair : SyncUploads(m)
         \/ SyncInserts \/ SyncResolves \/ cw' = cw
BY DEF ContentNext, contentVars, Receive, ReadHistory, StoreFile, BridgeDrops, SyncReads, SyncRecords,
   SyncEnded

LEMMA PostsKeep ==
  ASSUME ContentInv, [ContentNext]_contentVars
  PROVE  /\ PostsStay /\ cw' \in Seq(Post)
         /\ \A p : Added(p) =>
              /\ p > Len(cw) /\ PostRight(cw'[p])
              /\ \/ \E m \in Pair : BridgeShows(m) /\ cw'[p].of = m /\ cw'[p].by = "bridge"
                                     /\ cw'[p].reply = ReplyOf(wa[m])
                 \/ \E m \in Pair : SyncUploads(m) /\ cw'[p].of = m /\ IsMedia(m)
                                     /\ cw'[p].reply = 0
                 \/ SyncInserts /\ \E m \in sync'.texts : cw'[p] = TextPost(m)
<1>0. cw \in Seq(Post)
  BY DEF ContentInv, ContentShape
<1>1. CASE \E m \in Pair : BridgeShows(m)
  <2>1. PICK m \in Pair : BridgeShows(m)
    BY <1>1
  <2>2. PICK post \in Post :
          /\ cw' = Append(cw, post) /\ post.of = m /\ post.by = "bridge" /\ post.shows # {}
          /\ OfBridge(post) /\ post.reply = ReplyOf(wa[m])
    BY <2>1, BridgePosts
  <2>3. PostRight(post)
    BY <2>2 DEF PostRight
  <2> QED
    BY <1>0, <2>1, <2>2, <2>3, Appended DEF PostsStay, Stays, Added
<1>2. CASE \E m \in Pair : SyncUploads(m)
  <2>1. PICK m \in Pair : SyncUploads(m)
    BY <1>2
  <2>2. PICK post \in Post :
          /\ cw' = Append(cw, post) /\ post.of = m /\ post.by = "sync" /\ post.shows # {}
          /\ OfSync(post) /\ post.reply = 0 /\ IsMedia(m)
    BY <2>1, UploadPosts
  <2>3. PostRight(post)
    BY <2>2 DEF PostRight
  <2> QED
    BY <1>0, <2>1, <2>2, <2>3, Appended DEF PostsStay, Stays, Added
<1>3. CASE SyncInserts
  <2>1. Insertion
    BY <1>3, Inserts DEF ContentInv
  <2>2. PostsStay /\ cw' \in Seq(Post)
    BY <2>1 DEF Insertion, PostsStay, Stays
  <2>3. ASSUME NEW p, Added(p)
        PROVE  p > Len(cw) /\ PostRight(cw'[p]) /\ \E m \in sync'.texts : cw'[p] = TextPost(m)
    <3>1. PICK m \in sync'.texts : cw'[p] = TextPost(m)
      BY <2>1, <2>3 DEF Insertion, Added
    <3>2. /\ m \in sync.wanted /\ ~IsMedia(m) /\ RowText(table[m], wa[m]) # {}
          /\ table[m] # NoEntry
      BY <2>1, <3>1 DEF Insertion, ContentInv, SyncKnows
    <3>3. PostRight(TextPost(m))
      BY <3>2 DEF PostRight, OfSync, SyncShows, TextPost, NewPost
    <3> QED
      BY <2>1, <2>3, <3>1, <3>3 DEF Insertion, Added
  <2> QED
    BY <1>3, <2>2, <2>3
<1>4. CASE SyncResolves
  <2>1. cw' = cw \/ Resolution
    BY <1>4, Resolves
  <2> QED
    BY <1>0, <2>1 DEF Resolution, PostsStay, Stays, Added
<1>5. CASE cw' = cw
  BY <1>0, <1>5 DEF PostsStay, Stays, Added
<1> QED
  BY <1>1, <1>2, <1>3, <1>4, <1>5, CwSteps

LEMMA PostsRightStep ==
  ASSUME ContentInv, [ContentNext]_contentVars PROVE PostsRight'
<1>1. RowsStay /\ PostsStay /\ cw' \in Seq(Post)
  BY RowsKeep, PostsKeep
<1>2. ASSUME NEW post \in Post, PostRight(post) PROVE PostRight(post)'
  <2>1. post.of \in Pair
    BY DEF Post
  <2>2. OfBridge(post) => OfBridge(post)'
    BY <1>1 DEF RowsStay, OfBridge
  <2>3. OfSync(post) => OfSync(post)'
    BY <1>1, <2>1 DEF RowsStay, OfSync, SyncShows, IsMedia
  <2> QED
    BY <1>2, <2>2, <2>3 DEF PostRight
<1>3. ASSUME NEW p \in DOMAIN cw' PROVE PostRight(cw[p])'
  <2>1. cw'[p] \in Post
    BY <1>1
  <2>2. PostRight(cw'[p])
    <3>1. CASE p \in DOMAIN cw
      <4>1. PostRight(cw[p]) /\ Stays(cw[p], cw'[p])
        BY <1>1, <3>1 DEF ContentInv, PostsRight, PostsStay
      <4> QED
        BY <4>1 DEF PostRight, OfBridge, OfSync, Stays
    <3>2. CASE p \notin DOMAIN cw
      BY <3>2, PostsKeep DEF Added
    <3> QED
      BY <3>1, <3>2
  <2>3. PICK post \in Post : post = cw'[p]
    BY <2>1
  <2>4. PostRight(post)'
    BY <1>2, <2>2, <2>3
  <2> QED
    BY <2>3, <2>4 DEF PostRight, OfBridge, OfSync
<1> QED
  BY <1>3 DEF PostsRight

LEMMA ShapeStep == ASSUME ContentInv, [ContentNext]_contentVars PROVE ContentShape'
<1> USE DEF ContentInv, ContentShape
<1>0. cw' \in Seq(Post) /\ wa' = wa
  BY PostsKeep, RowsKeep DEF RowsStay
<1>1. CASE \E m \in Pair : Receive(m) \/ ReadHistory(m)
  <2>1. PICK m \in Pair : Receive(m) \/ ReadHistory(m)
    BY <1>1
  <2>2. RowOf(wa[m], "event") \in Entry(m) /\ RowOf(wa[m], "history") \in Entry(m)
    BY DEF Entry
  <2>3. PICK entry \in {table[m]} \cup Entry(m) : table' = [table EXCEPT ![m] = entry]
    BY <2>1, <2>2 DEF Receive, ReadHistory
  <2>4. Entry(1)' = Entry(1) /\ Entry(2)' = Entry(2) /\ Entry(m)' = Entry(m)
    BY <1>0 DEF Entry
  <2>5. \A k \in Pair : Entry(k)' = Entry(k)
    BY <1>0 DEF Entry
  <2>6. \A k \in Pair : table'[k] = NoEntry \/ table'[k] \in Entry(k)
    BY <2>3
  <2>7. table' \in [Pair -> {NoEntry} \cup Entry(1) \cup Entry(2)]
    <3>1. m = 1 \/ m = 2
      BY DEF Pair
    <3> QED
      BY <2>3, <3>1
  <2>8. bridge' \in [Pair -> {"none", "told", "done"}]
    BY <2>1 DEF Receive, ReadHistory
  <2>9. UNCHANGED <<files, refs, sync, synced>>
    BY <2>1 DEF Receive, ReadHistory
  <2> QED
    BY <1>0, <2>4, <2>5, <2>6, <2>7, <2>8, <2>9
<1> DEFINE Tabled == /\ table' \in [Pair -> {NoEntry} \cup Entry(1)' \cup Entry(2)']
                     /\ \A m \in Pair : table'[m] = NoEntry \/ table'[m] \in Entry(m)'
<1>2. ASSUME table' = table PROVE Tabled
  BY <1>0, <1>2 DEF Entry
<1>3. CASE \E m \in Pair : StoreFile(m) \/ BridgeDrops(m)
  BY <1>0, <1>2, <1>3 DEF StoreFile, BridgeDrops
<1>4. CASE \E m \in Pair : BridgeShows(m)
  <2>1. PICK m \in Pair : BridgeShows(m)
    BY <1>4
  <2>2. refs' = refs \/ refs' = [refs EXCEPT ![m] = Len(cw) + 1]
    BY <2>1, BridgePosts
  <2>3. refs' \in [Pair -> Nat]
    BY <2>2
  <2>4. bridge' \in [Pair -> {"none", "told", "done"}] /\ UNCHANGED <<table, files, sync, synced>>
    BY <2>1 DEF BridgeShows
  <2> QED
    BY <1>0, <1>2, <2>3, <2>4
<1>5. CASE \E m \in Pair : SyncUploads(m)
  <2>1. sync' \in Sync
    <3>1. PICK m \in Pair : SyncUploads(m)
      BY <1>5
    <3> DEFINE jobs == sync.jobs \ {m}
               found == sync.found \cup {m}
    <3>2. sync' = [sync EXCEPT !.jobs = jobs, !.found = found]
      BY <3>1 DEF SyncUploads
    <3>3. jobs \subseteq Pair /\ found \subseteq Pair
      BY DEF Sync
    <3> HIDE DEF jobs, found
    <3> QED
      BY <3>2, <3>3 DEF Sync
  <2> QED
    BY <1>0, <1>2, <1>5, <2>1 DEF SyncUploads
<1>6. CASE SyncReads
  <2>1. sync' \in Sync
    <3> DEFINE all == {m \in Pair : table[m] # NoEntry}
               found == all \cap Found
               wanted == {m \in all \ Found : ~Skipped(m)}
    <3>1. sync' = [NoSync EXCEPT !.pc = "texts", !.found = found, !.wanted = wanted]
      BY <1>6 DEF SyncReads
    <3>2. found \subseteq Pair /\ wanted \subseteq Pair
      OBVIOUS
    <3> HIDE DEF found, wanted
    <3> QED
      BY <3>1, <3>2 DEF NoSync, Sync
  <2> QED
    BY <1>0, <1>2, <1>6, <2>1 DEF SyncReads
<1>7. CASE SyncInserts
  <2>1. Insertion
    BY <1>7, Inserts
  <2>2. sync' \in Sync
    <3>1. sync'.texts \subseteq Pair
      BY <2>1 DEF Insertion, Sync
    <3> DEFINE texts == sync'.texts
    <3> HIDE DEF texts
    <3>2. sync' = [sync EXCEPT !.pc = "ids", !.texts = texts] /\ texts \subseteq Pair
      BY <2>1, <3>1 DEF Insertion, texts
    <3> QED
      BY <3>2 DEF Sync
  <2> QED
    BY <1>0, <1>2, <1>7, <2>2 DEF SyncInserts
<1>8. CASE SyncRecords
  <2>1. sync' \in Sync
    BY <1>8 DEF SyncRecords, Sync
  <2>2. refs' \in [Pair -> Nat]
    <3>1. PICK id \in [sync.texts -> DOMAIN cw] :
            refs' = [m \in Pair |-> IF m \in sync.texts THEN id[m] ELSE refs[m]]
      BY <1>8 DEF SyncRecords
    <3>2. DOMAIN cw \subseteq Nat
      OBVIOUS
    <3> QED
      BY <3>1, <3>2
  <2> QED
    BY <1>0, <1>2, <1>8, <2>1, <2>2 DEF SyncRecords
<1>9. CASE SyncResolves
  <2>1. sync' \in Sync
    <3> DEFINE jobs == {m \in sync.wanted \cap files : IsMedia(m)}
    <3>1. sync' = [sync EXCEPT !.pc = "media", !.jobs = jobs] /\ jobs \subseteq Pair
      BY <1>9 DEF SyncResolves
    <3> HIDE DEF jobs
    <3> QED
      BY <3>1 DEF Sync
  <2> QED
    BY <1>0, <1>2, <1>9, <2>1 DEF SyncResolves
<1>10. CASE SyncEnded
  <2>1. sync' \in Sync
    BY <1>10 DEF SyncEnded, Sync, NoSync
  <2>2. synced' \subseteq Pair
    BY <1>10 DEF SyncEnded, Sync
  <2> QED
    BY <1>0, <1>2, <1>10, <2>1, <2>2 DEF SyncEnded
<1>11. CASE UNCHANGED contentVars
  BY <1>0, <1>2, <1>11 DEF contentVars
<1> QED
  BY <1>1, <1>3, <1>4, <1>5, <1>6, <1>7, <1>8, <1>9, <1>10, <1>11 DEF ContentNext

LEMMA RefsStep == ASSUME ContentInv, [ContentNext]_contentVars PROVE RefsMeant'
<1>1. PostsStay /\ cw \in Seq(Post) /\ refs \in [Pair -> Nat] /\ RefsMeant
  BY PostsKeep DEF ContentInv, ContentShape
<1>2. CASE \E m \in Pair : BridgeShows(m)
  <2>1. PICK m \in Pair : BridgeShows(m)
    BY <1>2
  <2>2. PICK post \in Post :
          /\ cw' = Append(cw, post) /\ post.of = m
          /\ refs' = refs \/ refs' = [refs EXCEPT ![m] = Len(cw) + 1]
    BY <2>1, BridgePosts
  <2>3. Len(cw) + 1 \in DOMAIN cw' /\ cw'[Len(cw) + 1].of = m
    BY <1>1, <2>2, Appended
  <2> QED
    BY <1>1, <2>2, <2>3 DEF RefsMeant, PostsStay, Stays
<1>3. CASE SyncRecords
  <2>1. PICK id \in [sync.texts -> DOMAIN cw] :
          /\ \A m \in sync.texts : cw[id[m]].sid /\ cw[id[m]].of = m
          /\ refs' = [m \in Pair |-> IF m \in sync.texts THEN id[m] ELSE refs[m]]
    BY <1>3 DEF SyncRecords
  <2>2. cw' = cw
    BY <1>3 DEF SyncRecords
  <2> QED
    BY <1>1, <2>1, <2>2 DEF RefsMeant
<1>4. CASE refs' = refs
  BY <1>1, <1>4 DEF RefsMeant, PostsStay, Stays
<1> QED
  BY <1>2, <1>3, <1>4 DEF ContentNext, contentVars, Receive, ReadHistory, StoreFile, BridgeDrops,
     SyncUploads, SyncReads, SyncInserts, SyncResolves, SyncEnded

LEMMA RepliesStep == ASSUME ContentInv, [ContentNext]_contentVars PROVE RepliesMeant'
<1>1. PostsStay /\ RowsStay /\ RepliesMeant /\ RefsMeant /\ wa' = wa
  BY PostsKeep, RowsKeep DEF ContentInv, RowsStay
<1> SUFFICES ASSUME NEW p \in DOMAIN cw', cw'[p].reply # 0
             PROVE  /\ cw'[p].of = 2 /\ wa[2].quotes
                    /\ cw'[p].reply \in DOMAIN cw' /\ cw'[cw'[p].reply].of = 1
  BY <1>1 DEF RepliesMeant
<1>2. CASE p \in DOMAIN cw /\ cw'[p].reply = cw[p].reply
  BY <1>1, <1>2 DEF RepliesMeant, PostsStay, Stays
<1>3. CASE p \in DOMAIN cw /\ cw'[p].reply # cw[p].reply
  <2>1. cw' # cw /\ ~(\E m \in Pair : BridgeShows(m)) /\ ~(\E m \in Pair : SyncUploads(m))
        /\ ~SyncInserts
    <3>1. cw \in Seq(Post)
      BY DEF ContentInv, ContentShape
    <3>2. ASSUME NEW post \in Post, cw' = Append(cw, post) PROVE FALSE
      BY <1>3, <3>1, <3>2, Appended
    <3>3. ~(\E m \in Pair : BridgeShows(m))
      BY <3>2, BridgePosts
    <3>4. ~(\E m \in Pair : SyncUploads(m))
      BY <3>2, UploadPosts
    <3>5. ~SyncInserts
      BY <1>3, Inserts DEF Insertion, ContentInv
    <3> QED
      BY <1>3, <3>3, <3>4, <3>5
  <2>2. SyncResolves
    BY <2>1, CwSteps
  <2>3. Resolution
    BY <2>1, <2>2, Resolves
  <2>4. PICK q \in DOMAIN cw :
          /\ cw[q].of = 1
          /\ IF cw[p].of = 2 /\ cw[p].sid THEN Stays(cw[p], cw'[p]) /\ cw'[p].reply = q
             ELSE cw'[p] = cw[p]
    BY <1>3, <2>3 DEF Resolution
  <2>5. cw[p].of = 2 /\ cw'[p].of = 2 /\ cw'[p].reply = q
    BY <1>3, <2>4 DEF Stays
  <2>6. wa[2].quotes
    <3>1. QuotedOfRow(2)
      BY <2>3 DEF Resolution
    <3>2. table[2] = NoEntry \/ \E raw \in {"event", "history"} : table[2] = RowOf(wa[2], raw)
      BY DEF ContentInv, ContentShape, Entry, Pair
    <3>3. table[2].quoted => wa[2].quotes
      BY <3>2 DEF NoEntry, RowOf, Quoted
    <3> QED
      BY <3>1, <3>3 DEF QuotedOfRow
  <2>7. q \in DOMAIN cw' /\ cw'[q].of = 1
    BY <1>1, <2>4 DEF PostsStay, Stays
  <2> QED
    BY <2>5, <2>6, <2>7
<1>4. CASE p \notin DOMAIN cw
  <2>1. PICK m \in Pair : cw'[p].of = m /\ cw'[p].reply = ReplyOf(wa[m])
    BY <1>4, PostsKeep DEF Added, TextPost, NewPost
  <2>2. wa[m].quotes /\ cw'[p].reply = refs[1]
    BY <2>1 DEF ReplyOf
  <2>3. m = 2
    BY <2>2, ContentAssumption DEF ContentInv, ContentShape, Pair
  <2>4. refs[1] \in DOMAIN cw /\ cw[refs[1]].of = 1
    BY <1>1, <2>2 DEF RefsMeant, Pair
  <2> QED
    BY <1>1, <2>1, <2>2, <2>3, <2>4 DEF PostsStay, Stays
<1> QED
  BY <1>2, <1>3, <1>4

(* The rows a synchronisation wants, and those it counts as brought.       *)
LEMMA NothingToShow ==
  ASSUME ContentShape, NEW m \in Pair, table[m] # NoEntry, ~IsMedia(m),
         RowText(table[m], wa[m]) = {}
  PROVE  LiveShows(wa[m], TRUE) = {}
<1>1. PICK raw \in {"event", "history"} : table[m] = RowOf(wa[m], raw)
  BY DEF ContentShape, Entry
<1>2. ~IsMediaMessage(wa[m]) /\ wa[m].has \in SUBSET Parts
  BY <1>1, MediaByType, Messages DEF IsMedia, WaMessage
<1> QED
  BY <1>1, <1>2, TextOfRow

LEMMA KnowsStep == ASSUME ContentInv, [ContentNext]_contentVars PROVE SyncKnows'
<1>1. RowsStay /\ PostsStay /\ SyncKnows /\ ContentShape
  BY RowsKeep, PostsKeep DEF ContentInv
<1>2. \A m \in Pair : HasPost(m) => HasPost(m)'
  BY <1>1 DEF HasPost, PostsStay, Stays
<1>3. \A m \in Pair : Brought(m) => Brought(m)'
  BY <1>1, <1>2 DEF Brought, RowsStay
<1>4. \A m \in Pair : table[m] # NoEntry => table'[m] # NoEntry /\ (IsMedia(m)' <=> IsMedia(m))
  BY <1>1 DEF RowsStay, IsMedia
<1>5. /\ synced \subseteq Pair /\ sync.found \subseteq Pair /\ sync.wanted \subseteq Pair
      /\ sync.jobs \subseteq Pair
  BY <1>1 DEF ContentShape, Sync
<1>6. CASE UNCHANGED <<sync, synced>>
  BY <1>1, <1>3, <1>4, <1>5, <1>6 DEF SyncKnows
<1>7. CASE SyncReads
  <2> DEFINE all == {m \in Pair : table[m] # NoEntry}
             found == all \cap Found
             wanted == {m \in all \ Found : ~Skipped(m)}
  <2>1. sync' = [NoSync EXCEPT !.pc = "texts", !.found = found, !.wanted = wanted]
    BY <1>7 DEF SyncReads
  <2>2. /\ sync'.found = found /\ sync'.wanted = wanted /\ sync'.jobs = {}
        /\ sync'.pc = "texts"
    <3> HIDE DEF found, wanted
    <3> QED
      BY <2>1 DEF NoSync
  <2>3. \A m \in found : Brought(m)
    BY DEF Found, Brought, HasPost
  <2>4. synced' = synced
    BY <1>7 DEF SyncReads
  <2> QED
    BY <1>1, <1>3, <1>4, <1>5, <2>2, <2>3, <2>4 DEF SyncKnows
<1>8. CASE SyncInserts
  <2>1. Insertion
    BY <1>1, <1>8, Inserts
  <2> DEFINE texts == sync'.texts
  <2>2. /\ sync'.found = sync.found /\ sync'.wanted = sync.wanted /\ sync'.jobs = sync.jobs
    <3> HIDE DEF texts
    <3>1. sync' = [sync EXCEPT !.pc = "ids", !.texts = texts]
      BY <2>1 DEF Insertion, texts
    <3> QED
      BY <1>1, <3>1 DEF ContentShape, Sync
  <2>3. ASSUME NEW m \in sync.wanted, ~IsMedia(m) PROVE Brought(m)'
    <3>1. m \in Pair /\ table[m] # NoEntry
      BY <1>1, <1>5 DEF SyncKnows
    <3>2. CASE RowText(table[m], wa[m]) = {}
      <4>1. LiveShows(wa[m], TRUE) = {}
        BY <1>1, <2>3, <3>1, <3>2, NothingToShow
      <4> QED
        BY <1>1, <4>1 DEF Brought, RowsStay
    <3>3. CASE RowText(table[m], wa[m]) # {}
      <4>1. PICK p \in DOMAIN cw' : cw'[p] = TextPost(m)
        BY <2>1, <2>3, <3>3 DEF Insertion
      <4>2. cw'[p].of = m
        BY <4>1 DEF TextPost, NewPost
      <4> QED
        BY <4>2 DEF Brought, HasPost
    <3> QED
      BY <3>2, <3>3
  <2>4. synced' = synced
    BY <1>8 DEF SyncInserts
  <2> QED
    BY <1>1, <1>3, <1>4, <1>5, <2>2, <2>3, <2>4 DEF SyncKnows
<1>9. CASE SyncRecords
  <2>1. /\ sync'.found = sync.found /\ sync'.wanted = sync.wanted /\ sync'.jobs = sync.jobs
        /\ sync.pc = "ids" /\ synced' = synced
    BY <1>1, <1>9 DEF SyncRecords, ContentShape, Sync
  <2> QED
    BY <1>1, <1>3, <1>4, <1>5, <2>1 DEF SyncKnows
<1>10. CASE SyncResolves
  <2> DEFINE jobs == {m \in sync.wanted \cap files : IsMedia(m)}
  <2>1. sync' = [sync EXCEPT !.pc = "media", !.jobs = jobs] /\ sync.pc = "replies"
    BY <1>10 DEF SyncResolves
  <2>2. /\ sync'.found = sync.found /\ sync'.wanted = sync.wanted /\ sync'.jobs = jobs
    <3> HIDE DEF jobs
    <3> QED
      BY <1>1, <2>1 DEF ContentShape, Sync
  <2>3. synced' = synced
    BY <1>10 DEF SyncResolves
  <2> QED
    BY <1>1, <1>3, <1>4, <1>5, <2>1, <2>2, <2>3 DEF SyncKnows
<1>11. CASE \E m \in Pair : SyncUploads(m)
  <2>1. PICK m \in Pair : SyncUploads(m)
    BY <1>11
  <2> DEFINE jobs == sync.jobs \ {m}
             found == sync.found \cup {m}
  <2>2. sync' = [sync EXCEPT !.jobs = jobs, !.found = found] /\ sync.pc = "media"
    BY <2>1 DEF SyncUploads
  <2>3. /\ sync'.found = found /\ sync'.wanted = sync.wanted /\ sync'.jobs = jobs
    <3> HIDE DEF jobs, found
    <3> QED
      BY <1>1, <2>2 DEF ContentShape, Sync
  <2>4. Brought(m)'
    <3>1. PICK post \in Post : cw' = Append(cw, post) /\ post.of = m
      BY <2>1, UploadPosts
    <3>2. Len(cw) + 1 \in DOMAIN cw' /\ cw'[Len(cw) + 1].of = m
      BY <1>1, <3>1, Appended DEF ContentShape
    <3> QED
      BY <3>2 DEF Brought, HasPost
  <2>5. synced' = synced
    BY <2>1 DEF SyncUploads
  <2> QED
    BY <1>1, <1>3, <1>4, <1>5, <2>2, <2>3, <2>4, <2>5 DEF SyncKnows
<1>12. CASE SyncEnded
  <2>1. /\ synced' = synced \cup sync.found \cup {m \in sync.wanted : ~IsMedia(m)}
        /\ sync' = NoSync /\ sync.pc = "media"
    BY <1>12 DEF SyncEnded
  <2>2. sync'.found = {} /\ sync'.wanted = {} /\ sync'.jobs = {}
    BY <2>1 DEF NoSync
  <2>3. \A m \in synced' : m \in Pair /\ Brought(m)
    BY <1>1, <1>5, <2>1 DEF SyncKnows
  <2> QED
    BY <1>3, <2>2, <2>3 DEF SyncKnows
<1> QED
  BY <1>6, <1>7, <1>8, <1>9, <1>10, <1>11, <1>12 DEF ContentNext, contentVars, Receive,
     ReadHistory, StoreFile, BridgeShows, BridgeDrops

(* A post of a synchronisation that is no reply stays none only while the  *)
(* synchronisation has yet to look.                                        *)
LEMMA KeptStep == ASSUME ContentInv, [ContentNext]_contentVars PROVE KeptLater'
<1>1. /\ RowsStay /\ PostsStay /\ KeptLater /\ PostsRight /\ cw \in Seq(Post) /\ sync \in Sync
      /\ cw' \in Seq(Post)
  BY RowsKeep, PostsKeep DEF ContentInv, ContentShape
<1>2. /\ DOMAIN cw = 1 .. Len(cw) /\ Len(cw) \in Nat /\ DOMAIN cw' \subseteq Nat
  BY <1>1
<1> DEFINE Unanswered(p, q) ==
             /\ cw[p].of = 2 /\ cw[p].by = "sync" /\ ~IsMedia(2)
             /\ Quoted(wa[2], table[2].raw) /\ q < p /\ cw[q].of = 1 /\ cw[q].sid
(* Only an insertion makes such posts, and only a resolution changes them. *)
<1>3. ASSUME KeptAll, ~SyncResolves, SyncInserts => 2 \notin sync'.texts PROVE KeptAll'
  <2> SUFFICES ASSUME NEW p \in DOMAIN cw', NEW q \in DOMAIN cw', Unanswered(p, q)'
               PROVE  cw'[p].reply # 0
    BY DEF KeptAll
  <2>1. CASE p \in DOMAIN cw
    <3>1. q \in DOMAIN cw
      BY <1>2, <2>1, PostsKeep DEF Added
    <3>2. cw'[p].reply = cw[p].reply
      <4>1. CASE SyncInserts
        BY <1>1, <2>1, <4>1, Inserts DEF Insertion, ContentInv
      <4>2. ASSUME NEW post \in Post, cw' = Append(cw, post) PROVE cw'[p] = cw[p]
        BY <1>1, <2>1, <4>2, Appended
      <4> QED
        BY <1>3, <4>1, <4>2, BridgePosts, UploadPosts, CwSteps
    <3>3. Stays(cw[p], cw'[p]) /\ Stays(cw[q], cw'[q])
      BY <1>1, <2>1, <3>1 DEF PostsStay
    <3>4. table[2] # NoEntry
      BY <1>1, <2>1, <3>3 DEF PostsRight, PostRight, OfSync, Stays
    <3>5. table'[2] = table[2] /\ wa' = wa
      BY <1>1, <3>4 DEF RowsStay, Pair
    <3>6. Unanswered(p, q)
      BY <3>3, <3>5 DEF Stays, IsMedia
    <3> QED
      BY <1>3, <2>1, <3>1, <3>2, <3>6 DEF KeptAll
  <2>2. CASE p \notin DOMAIN cw
    <3>1. /\ \A m \in Pair : ~(BridgeShows(m) /\ cw'[p].of = m /\ cw'[p].by = "bridge")
      OBVIOUS
    <3>2. ASSUME NEW m \in Pair, SyncUploads(m), cw'[p].of = m, IsMedia(m) PROVE FALSE
      <4>1. m = 2 /\ table' = table
        BY <3>2 DEF SyncUploads
      <4> QED
        BY <3>2, <4>1 DEF IsMedia
    <3>3. ASSUME SyncInserts, NEW m \in sync'.texts, cw'[p] = TextPost(m) PROVE FALSE
      <4>1. cw'[p].of = m
        BY <3>3 DEF TextPost, NewPost
      <4> QED
        BY <1>3, <3>3, <4>1
    <3> QED
      BY <2>2, <3>1, <3>2, <3>3, PostsKeep DEF Added
  <2> QED
    BY <2>1, <2>2
<1>4. CASE SyncResolves
  <2>1. table' = table /\ wa' = wa
    BY <1>4 DEF SyncResolves
  <2>2. CASE cw' = cw /\ ~(2 \in sync.texts /\ QuotedOfRow(2) /\ 1 \in Found)
    <3>1. CASE KeptAll
      BY <2>1, <2>2, <3>1 DEF KeptAll, KeptLater, IsMedia
    <3>2. CASE 2 \in sync.texts
      <4> SUFFICES ASSUME NEW p \in DOMAIN cw, NEW q \in DOMAIN cw, Unanswered(p, q) PROVE FALSE
        BY <2>1, <2>2 DEF KeptAll, KeptLater, IsMedia
      <4>1. 1 \in Found
        BY DEF Found
      <4>2. table[2] # NoEntry
        BY <1>1 DEF PostsRight, PostRight, OfSync
      <4>3. table[2].quoted = Quoted(wa[2], table[2].raw)
        <5>1. PICK raw \in {"event", "history"} : table[2] = RowOf(wa[2], raw)
          BY <4>2 DEF ContentInv, ContentShape, Entry, Pair
        <5>2. table[2].quoted = Quoted(wa[2], raw) /\ table[2].raw = raw
          BY <5>1 DEF RowOf
        <5> QED
          BY <5>2
      <4>4. QuotedOfRow(2)
        BY <4>3 DEF QuotedOfRow
      <4> QED
        BY <2>2, <3>2, <4>1, <4>4
    <3> QED
      BY <1>1, <3>1, <3>2 DEF KeptLater
  <2>3. CASE Resolution
    <3>1. PICK q \in DOMAIN cw :
            /\ DOMAIN cw' = DOMAIN cw
            /\ \A p \in DOMAIN cw :
                 IF cw[p].of = 2 /\ cw[p].sid THEN Stays(cw[p], cw'[p]) /\ cw'[p].reply = q
                 ELSE cw'[p] = cw[p]
      BY <2>3 DEF Resolution
    <3>2. q # 0
      BY <1>2
    <3>3. ASSUME NEW p \in DOMAIN cw', cw'[p].of = 2, cw'[p].by = "sync" PROVE cw'[p].reply # 0
      <4>1. cw[p].of = 2 /\ cw[p].by = "sync"
        BY <1>1, <3>1, <3>3 DEF PostsStay, Stays
      <4>2. cw[p].sid
        BY <1>1, <3>1, <3>3, <4>1 DEF PostsRight, PostRight, OfSync
      <4> QED
        BY <3>1, <3>2, <3>3, <4>1, <4>2
    <3> QED
      BY <3>3 DEF KeptLater, KeptAll
  <2> QED
    BY <1>4, <2>2, <2>3, Resolves
<1>5. CASE SyncInserts
  <2>1. KeptAll /\ sync'.pc = "ids"
    <3>1. sync.pc = "texts"
      BY <1>5 DEF SyncInserts
    <3>2. sync'.pc = "ids"
      BY <1>1, <1>5, Inserts DEF Insertion, ContentInv, Sync
    <3> QED
      BY <1>1, <3>1, <3>2 DEF KeptLater
  <2>2. ~SyncResolves
    BY <1>5 DEF SyncInserts, SyncResolves
  <2> QED
    BY <1>3, <2>1, <2>2 DEF KeptLater
<1>6. CASE ~SyncResolves /\ ~SyncInserts
  <2>1. CASE KeptAll
    BY <1>3, <1>6, <2>1 DEF KeptLater
  <2>2. CASE sync.pc \in {"ids", "replies"} /\ 2 \in sync.texts
    <3>1. sync'.pc \in {"ids", "replies"} /\ sync'.texts = sync.texts
      BY <1>1, <1>6, <2>2 DEF ContentNext, contentVars, Receive, ReadHistory, StoreFile,
         BridgeShows, BridgeDrops, SyncUploads, SyncReads, SyncRecords, SyncEnded, Sync
    <3> QED
      BY <2>2, <3>1 DEF KeptLater
  <2> QED
    BY <1>1, <2>1, <2>2 DEF KeptLater
<1> QED
  BY <1>4, <1>5, <1>6

LEMMA ContentStep == ContentInv /\ [ContentNext]_contentVars => ContentInv'
BY ShapeStep, RefsStep, RepliesStep, PostsRightStep, KnowsStep, KeptStep DEF ContentInv

THEOREM ContentHolds == ContentSpec => []ContentInv
BY ContentStarts, ContentStep, PTL DEF ContentSpec

(* What a synchronisation has seen shows in Chatwoot whatever the bridge   *)
(* would have shown of it, whatever the kinds and parts of the messages.   *)
THEOREM MessagesRecover == ContentSpec => []Recovered
BY ContentHolds, ContentEnough, PTL

(* Every reply is to a post of the message quoted, and what is brought     *)
(* after the message it quotes is a reply.                                 *)
THEOREM RepliesAreRight == ContentSpec => [](RepliesOwn /\ RepliesKept)
<1>1. ContentInv => RepliesOwn /\ RepliesKept
  BY ContentEnough
<1> QED
  BY <1>1, ContentHolds, PTL

(* The rows and posts of messages are well typed.                          *)
LEMMA ContentTypes == ContentInv => ContentTypeOK
<1> SUFFICES ASSUME ContentInv PROVE ContentTypeOK
  OBVIOUS
<1> USE DEF ContentInv, ContentShape
<1>1. ASSUME NEW msg \in WaMessage, NEW raw \in {"event", "history"}
      PROVE  /\ TypeOf(msg) \in MessageKinds \cup {"none", "system"}
             /\ RowContent(msg) \in SUBSET Parts /\ RowOf(msg, raw).raw = raw
  <2>1. TypeOf(msg) \in MessageKinds \cup {"none", "system"}
    BY DEF TypeOf, WaMessage, MessageKinds
  <2>2. RowContent(msg) \in SUBSET Parts
    BY DEF RowContent, WaMessage, Parts
  <2> QED
    BY <2>1, <2>2 DEF RowOf
<1> DEFINE Table == [type : MessageKinds \cup {"none", "system"}, content : SUBSET Parts,
                     quoted : BOOLEAN, raw : {"none", "event", "history"}]
<1>2. ASSUME NEW msg \in WaMessage, NEW raw \in {"event", "history"} PROVE RowOf(msg, raw) \in Table
  <2>1. PICK quoted \in BOOLEAN : quoted = Quoted(msg, raw)
    BY DEF Quoted, WaMessage
  <2>2. RowOf(msg, raw) = [type |-> TypeOf(msg), content |-> RowContent(msg), quoted |-> quoted,
                           raw |-> raw]
    BY <2>1 DEF RowOf
  <2> QED
    BY <1>1, <2>2
<1>3. NoEntry \in Table
  BY DEF NoEntry
<1>4. \A m \in Pair : table[m] \in Table
  <2> SUFFICES ASSUME NEW m \in Pair, table[m] # NoEntry PROVE table[m] \in Table
    BY <1>3
  <2>1. wa[m] \in WaMessage
    BY Messages
  <2>2. PICK raw \in {"event", "history"} : table[m] = RowOf(wa[m], raw)
    BY DEF Entry
  <2> QED
    BY <1>2, <2>1, <2>2
<1>5. table \in [Pair -> Table]
  <2> HIDE DEF Table
  <2> QED
    BY <1>4
<1>6. \A p \in DOMAIN cw : cw[p].of \in Pair /\ cw[p].reply \in 0 .. Len(cw)
  <2>1. \A p \in DOMAIN cw : cw[p] \in Post
    OBVIOUS
  <2>2. Len(cw) \in Nat /\ DOMAIN cw = 1 .. Len(cw)
    OBVIOUS
  <2> QED
    BY <2>1, <2>2 DEF RepliesMeant, Post
<1>7. refs \in [Pair -> 0 .. Len(cw)]
  <2>1. Len(cw) \in Nat /\ DOMAIN cw = 1 .. Len(cw)
    OBVIOUS
  <2> QED
    BY <2>1 DEF RefsMeant
<1> QED
  BY <1>5, <1>6, <1>7 DEF ContentTypeOK, Sync

(* Rows, posts and references of messages keep their types.                *)
THEOREM ContentTyped == ContentSpec => []ContentTypeOK
BY ContentHolds, ContentTypes, PTL

(* Whatever the two messages are and whenever a synchronisation runs, what *)
(* is posted of them shows what WhatsApp showed, and a reply is kept and   *)
(* answers the message it quotes.                                          *)
THEOREM ContentIsRight == ContentSpec => []ContentRight
BY ContentHolds, ContentEnough, PTL DEF ContentRight
==============================================================================
