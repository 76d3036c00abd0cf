------------------------- MODULE ChatComposerProofs -------------------------
(***************************************************************************)
(* Proofs about ChatComposer, for any number of sessions, cards, files and *)
(* messages and any capacity of the queue: the lock of the page, the order *)
(* and the size of the queue, the session an answer goes to, and that a    *)
(* message that failed waits for the user.                                 *)
(***************************************************************************)
EXTENDS ChatComposer, SequenceTheorems, FiniteSetTheorems, TLAPS

-----------------------------------------------------------------------------
(* The inductive invariant.                                                *)

(* The requests there may be after n messages were queued: an answer has a *)
(* card and a session, a drained message its number.                       *)
SoundOps(n) ==
  {o \in Op : /\ o.kind = "resume" => o.answer \in Interrupt /\ o.session \in Sessions
              /\ o.kind = "drain" => o.item \in 1..n}

OpsOK == ops \in [Slots -> SoundOps(items) \cup {Free}]

Typed == TypeOK /\ OpsOK

(* The lock of the page; without a request started beside another there is *)
(* one request at a time.                                                  *)
Locked ==
  /\ streaming => Live # {}
  /\ ~twin => /\ \A j, k \in InFlight : j = k
              /\ Live # {} => streaming

(* Cards stand under the session that raised them, and the page shows      *)
(* those of its session unless it streams.                                 *)
CacheHome(c) == \A s \in Sessions : c[s] \subseteq {s} \X Cards
CardsHome == ~streaming => pending \subseteq {route} \X Cards
AnswersHome == \A k \in InFlight : ops[k].kind = "resume" => ops[k].answer[1] = ops[k].session

CardsAtHome == ~twin => CacheHome(cache) /\ CardsHome /\ AnswersHome

(* After a drained message failed the queue is paused and nothing is sent. *)
Waiting == ~twin /\ held => paused /\ InFlight = {}

(* Every message is at one place: the queue, in order, or one drain, which *)
(* comes before the queue.                                                 *)
Drains == {k \in InFlight : ops[k].kind = "drain"}

Ordered ==
  /\ Len(queue) <= QueueLimit
  /\ \A n \in 1..Len(queue) : queue[n] <= items
  /\ \A m, n \in 1..Len(queue) : m # n => queue[m] # queue[n]
  /\ \A k \in Drains : \A n \in 1..Len(queue) : queue[n] # ops[k].item
  /\ \A j, k \in Drains : j # k => ops[j].item # ops[k].item
  /\ ~twin => /\ \A m, n \in 1..Len(queue) : m < n => queue[m] < queue[n]
              /\ \A k \in Drains : \A n \in 1..Len(queue) : ops[k].item < queue[n]

IInv == Typed /\ Locked /\ CardsAtHome /\ Waiting /\ Ordered

-----------------------------------------------------------------------------
(* The queue.                                                              *)

(* Removing the message at place k moves those behind it up.               *)
LEMMA RemoveAtProperties ==
  ASSUME NEW S, NEW q \in Seq(S), NEW k \in 1..Len(q)
  PROVE  /\ RemoveAt(q, k) \in Seq(S)
         /\ Len(RemoveAt(q, k)) = Len(q) - 1
         /\ \A n \in 1..Len(q) - 1 : RemoveAt(q, k)[n] = IF n < k THEN q[n] ELSE q[n + 1]
<1> DEFINE a == SubSeq(q, 1, k - 1)
           b == SubSeq(q, k + 1, Len(q))
<1>1. Len(q) \in Nat /\ \A n \in 1..Len(q) : q[n] \in S
  BY ElementOfSeq
<1>2. a \in Seq(S) /\ Len(a) = k - 1 /\ \A n \in 1..k - 1 : a[n] = q[n]
  <2>1. \A n \in 1..k - 1 : q[n] \in S
    BY <1>1
  <2> QED BY <1>1, <2>1, SubSeqProperties
<1>3. b \in Seq(S) /\ Len(b) = Len(q) - k /\ \A n \in 1..Len(q) - k : b[n] = q[k + n]
  <2> DEFINE m == k + 1
             l == Len(q)
  <2>1. m \in Int /\ l \in Int /\ m = k + 1 /\ \A n \in m..l : q[n] \in S
    BY <1>1
  <2>2. b = SubSeq(q, m, l) /\ l = Len(q)
    OBVIOUS
  <2> HIDE DEF m, b, l
  <2>3. /\ SubSeq(q, m, l) \in Seq(S)
        /\ Len(SubSeq(q, m, l)) = IF m <= l THEN l - m + 1 ELSE 0
        /\ \A n \in 1..l - m + 1 : SubSeq(q, m, l)[n] = q[m + n - 1]
    BY <2>1, SubSeqProperties
  <2>4. Len(b) = Len(q) - k
    BY <1>1, <2>1, <2>2, <2>3
  <2>5. ASSUME NEW n \in 1..Len(q) - k PROVE b[n] = q[k + n]
    <3>1. n \in 1..l - m + 1 /\ m + n - 1 = k + n
      BY <1>1, <2>1, <2>2
    <3>2. b[n] = q[m + n - 1]
      BY <2>2, <2>3, <3>1
    <3> QED BY <3>1, <3>2
  <2> QED BY <2>2, <2>3, <2>4, <2>5
<1>4. RemoveAt(q, k) = a \o b
  BY DEF RemoveAt
<1> HIDE DEF a, b
<1>5. /\ a \o b \in Seq(S)
      /\ Len(a \o b) = Len(a) + Len(b)
      /\ \A n \in 1..Len(a) + Len(b) : (a \o b)[n] = IF n <= Len(a) THEN a[n] ELSE b[n - Len(a)]
  BY <1>2, <1>3, ConcatProperties
<1>6. Len(a) + Len(b) = Len(q) - 1
  BY <1>1, <1>2, <1>3
<1>7. ASSUME NEW n \in 1..Len(q) - 1 PROVE (a \o b)[n] = IF n < k THEN q[n] ELSE q[n + 1]
  <2>1. CASE n < k
    BY <1>1, <1>2, <1>5, <1>6, <2>1
  <2>2. CASE ~(n < k)
    <3>1. n - Len(a) \in 1..Len(q) - k /\ k + (n - Len(a)) = n + 1 /\ ~(n <= Len(a))
      BY <1>1, <1>2, <2>2
    <3>2. b[n - Len(a)] = q[k + (n - Len(a))]
      BY <1>3, <3>1
    <3> QED BY <1>5, <1>6, <2>2, <3>1, <3>2
  <2> QED BY <2>1, <2>2
<1> QED BY <1>4, <1>5, <1>6, <1>7

(* A message put back comes first, and what does not fit is cut.           *)
LEMMA PutBackProperties ==
  ASSUME NEW i \in 1..MaxItems, queue \in Seq(1..MaxItems)
  PROVE  /\ PutBack(i) \in Seq(1..MaxItems)
         /\ Len(PutBack(i)) <= QueueLimit
         /\ Len(PutBack(i)) <= Len(queue) + 1
         /\ \A n \in 1..Len(PutBack(i)) : PutBack(i)[n] = IF n = 1 THEN i ELSE queue[n - 1]
<1> DEFINE S == 1..MaxItems
           q == <<i>> \o queue
           l == IF Len(queue) < QueueLimit THEN Len(queue) + 1 ELSE QueueLimit
<1>1. <<i>> \in Seq(S) /\ Len(<<i>>) = 1 /\ <<i>>[1] = i
  OBVIOUS
<1> HIDE DEF S
<1>2. queue \in Seq(S) /\ Len(queue) \in Nat
  BY DEF S
<1>3. q \in Seq(S) /\ Len(q) = Len(queue) + 1
      /\ \A n \in 1..Len(queue) + 1 : q[n] = IF n = 1 THEN i ELSE queue[n - 1]
  BY <1>1, <1>2, ConcatProperties
<1>4. PutBack(i) = SubSeq(q, 1, l)
  BY DEF PutBack
<1> HIDE DEF q
<1>5. l \in Nat /\ l <= QueueLimit /\ l <= Len(queue) + 1
  BY <1>2, LimitAssumption
<1> HIDE DEF l
<1>6. \A n \in 1..l : q[n] \in S
  BY <1>2, <1>3, <1>5, ElementOfSeq
<1>7. SubSeq(q, 1, l) \in Seq(S) /\ Len(SubSeq(q, 1, l)) = l /\ \A n \in 1..l : SubSeq(q, 1, l)[n] = q[n]
  BY <1>5, <1>6, SubSeqProperties
<1> QED BY <1>2, <1>3, <1>4, <1>5, <1>7 DEF S
-----------------------------------------------------------------------------
(* The requests.                                                           *)

(* A sound request is one and not a free slot, and stays sound.            *)
LEMMA SoundOpsProperties ==
  ASSUME NEW n \in Nat
  PROVE  /\ SoundOps(n) \subseteq Op /\ Free \notin SoundOps(n)
         /\ SoundOps(n) \subseteq SoundOps(n + 1)
         /\ \A o \in SoundOps(n) : o.kind # Free.kind
<1>1. \A o \in Op : o.kind # Free.kind
  BY DEF Op, Free
<1> QED BY <1>1 DEF SoundOps

(* A new request is one of its kind for its session.                       *)
LEMMA NewOpIsOp ==
  ASSUME NEW kind \in {"send", "drain", "resume"}, NEW r \in Routes
  PROVE  NewOp(kind, r) \in Op /\ NewOp(kind, r).kind = kind /\ NewOp(kind, r).session = r
BY LimitAssumption DEF NewOp, Op, NoInterrupt

(* What sending, draining and answering start, and a request of a session. *)
Sending(r, f) == [NewOp("send", r) EXCEPT !.files = f]
Draining(r, i) == [NewOp("drain", r) EXCEPT !.item = i]
Answering(r, i) == [NewOp("resume", r) EXCEPT !.answer = i]
Created(o, s) == [o EXCEPT !.session = s]

(* They are sound.                                                         *)
LEMMA StartedIsSound ==
  ASSUME NEW n \in 0..MaxItems, NEW r \in Routes
  PROVE  /\ \A f \in SUBSET Files : /\ Sending(r, f) \in SoundOps(n)
                                   /\ Sending(r, f).kind = "send" /\ Sending(r, f).session = r
         /\ \A i \in 1..n : /\ Draining(r, i) \in SoundOps(n) /\ Draining(r, i).kind = "drain"
                            /\ Draining(r, i).session = r /\ Draining(r, i).item = i
         /\ r \in Sessions => \A i \in Interrupt :
              /\ Answering(r, i) \in SoundOps(n) /\ Answering(r, i).kind = "resume"
              /\ Answering(r, i).session = r /\ Answering(r, i).answer = i
<1>1. /\ NewOp("send", r) \in Op /\ NewOp("send", r).kind = "send" /\ NewOp("send", r).session = r
      /\ NewOp("drain", r) \in Op /\ NewOp("drain", r).kind = "drain" /\ NewOp("drain", r).session = r
      /\ NewOp("resume", r) \in Op /\ NewOp("resume", r).kind = "resume" /\ NewOp("resume", r).session = r
  BY NewOpIsOp
<1>2. ASSUME NEW f \in SUBSET Files
      PROVE  /\ Sending(r, f) \in SoundOps(n)
             /\ Sending(r, f).kind = "send" /\ Sending(r, f).session = r
  BY <1>1 DEF Sending, SoundOps, Op
<1>3. ASSUME NEW i \in 1..n
      PROVE  /\ Draining(r, i) \in SoundOps(n) /\ Draining(r, i).kind = "drain"
             /\ Draining(r, i).session = r /\ Draining(r, i).item = i
  BY <1>1, LimitAssumption DEF Draining, SoundOps, Op
<1>4. ASSUME NEW i \in Interrupt, r \in Sessions
      PROVE  /\ Answering(r, i) \in SoundOps(n) /\ Answering(r, i).kind = "resume"
             /\ Answering(r, i).session = r /\ Answering(r, i).answer = i
  BY <1>1, <1>4 DEF Answering, SoundOps, Op
<1> QED BY <1>2, <1>3, <1>4

(* The request whose session has been created is sound.                    *)
LEMMA CreatedIsSound ==
  ASSUME NEW n \in 0..MaxItems, NEW o \in SoundOps(n), NEW s \in Sessions
  PROVE  /\ Created(o, s) \in SoundOps(n)
         /\ Created(o, s).kind = o.kind /\ Created(o, s).session = s
         /\ Created(o, s).item = o.item /\ Created(o, s).answer = o.answer
BY DEF Created, SoundOps, Op, Routes

-----------------------------------------------------------------------------
(* Every part of the invariant, action by action.                          *)

(* A request in flight is one.                                             *)
LEMMA InFlightIsSound ==
  ASSUME Typed, NEW k \in Slots, ops[k] # Free
  PROVE  ops[k] \in SoundOps(items) /\ ops[k] \in Op /\ items \in 0..MaxItems
BY SoundOpsProperties DEF Typed, TypeOK, OpsOK

(* The message drained next has been queued.                               *)
LEMMA HeadIsKnown ==
  ASSUME Typed, Ordered, queue # <<>>
  PROVE  Head(queue) \in 1..items /\ Head(queue) = queue[1] /\ Len(queue) \in Nat \ {0}
<1>1. queue \in Seq(1..MaxItems) /\ Len(queue) \in Nat \ {0} /\ items \in Nat
  BY EmptySeq, LimitAssumption DEF Typed, TypeOK
<1>2. 1 \in 1..Len(queue)
  BY <1>1
<1>3. queue[1] \in 1..MaxItems /\ queue[1] <= items
  BY <1>1, <1>2, ElementOfSeq DEF Ordered
<1>4. Head(queue) = queue[1]
  BY <1>1
<1> QED BY <1>1, <1>3, <1>4, LimitAssumption

(* The types.                                                              *)
LEMMA TypedStep ==
  ASSUME Typed, Ordered, [Next]_vars PROVE Typed'
<1> USE SessionsAssumption, LimitAssumption DEF Typed, pageVars, inputVars, queueVars, opVars
<1>a. items \in 0..MaxItems /\ items \in Nat
  BY DEF TypeOK
<1>b. ASSUME OpsOK' , items' \in Nat PROVE ops' \in [Slots -> Op \cup {Free}]
  BY <1>b, SoundOpsProperties DEF OpsOK
<1>c. ASSUME NEW k \in Slots, ops' = [ops EXCEPT ![k] = Free], items' = items PROVE OpsOK'
  BY <1>c DEF OpsOK
<1>d. ASSUME NEW o \in SoundOps(items), Start(o), items' = items
      PROVE  OpsOK' /\ sends' \in 0..MaxSends /\ twin' \in BOOLEAN
  BY <1>d DEF Start, OpsOK, TypeOK
<1>e. ASSUME UNCHANGED <<ops, items>> PROVE OpsOK'
  BY <1>e DEF OpsOK
<1>f. \A c \in [Sessions -> SUBSET Interrupt], r \in Routes : Synced(c, r) \subseteq Interrupt
  BY DEF Synced, Routes
<1>g. <<>> \in Seq(1..MaxItems)
  OBVIOUS
<1>1. CASE TypeText
  BY <1>1, <1>e DEF TypeText, TypeOK
<1>2. CASE AppendComposerFiles
  BY <1>2, <1>e DEF AppendComposerFiles, TypeOK
<1>3. CASE RemoveComposerAttachment
  BY <1>3, <1>e DEF RemoveComposerAttachment, TypeOK
<1>4. CASE HandleQueueMessage
  <2>1. items' = items + 1 /\ items + 1 \in 1..MaxItems /\ ops' = ops /\ queue' = Append(queue, items + 1)
    BY <1>4, <1>a DEF HandleQueueMessage
  <2>2. OpsOK'
    BY <1>a, <2>1, SoundOpsProperties DEF OpsOK
  <2>3. queue' \in Seq(1..MaxItems)
    BY <2>1, AppendProperties DEF TypeOK
  <2>4. ops' \in [Slots -> Op \cup {Free}] /\ items' \in 0..MaxItems
    BY <1>a, <1>b, <2>1, <2>2
  <2> QED BY <1>4, <2>2, <2>3, <2>4 DEF HandleQueueMessage, TypeOK
<1>5. CASE HandleRemoveQueuedMessage
  <2>1. PICK k \in DOMAIN queue : queue' = RemoveAt(queue, k)
    BY <1>5 DEF HandleRemoveQueuedMessage
  <2>2. queue' \in Seq(1..MaxItems)
    BY <2>1, RemoveAtProperties DEF TypeOK
  <2> QED BY <1>5, <1>e, <2>2 DEF HandleRemoveQueuedMessage, TypeOK
<1>7. CASE HandleSendMessage
  <2>1. Start(Sending(route, atts)) /\ items' = items
    BY <1>7 DEF HandleSendMessage, Sending
  <2>2. OpsOK' /\ sends' \in 0..MaxSends /\ twin' \in BOOLEAN
    BY <1>a, <1>d, <2>1, StartedIsSound DEF TypeOK
  <2> QED BY <1>7, <1>a, <1>b, <1>f, <2>2 DEF HandleSendMessage, TypeOK
<1>8. CASE DrainQueuedMessage
  <2>1. Head(queue) \in 1..items /\ Tail(queue) \in Seq(1..MaxItems)
    BY <1>8, HeadIsKnown, HeadTailProperties DEF DrainQueuedMessage, TypeOK
  <2>2. Start(Draining(route, Head(queue))) /\ items' = items
    BY <1>8 DEF DrainQueuedMessage, Draining
  <2>3. OpsOK' /\ sends' \in 0..MaxSends /\ twin' \in BOOLEAN
    BY <1>a, <1>d, <2>1, <2>2, StartedIsSound DEF TypeOK
  <2> QED BY <1>8, <1>a, <1>b, <1>f, <2>1, <2>3 DEF DrainQueuedMessage, TypeOK
<1>9. CASE HandleResolveInterrupt
  <2>1. route \in Sessions
    BY <1>9 DEF HandleResolveInterrupt, TypeOK, Routes
  <2>2. PICK i \in pending : /\ Start(Answering(route, i))
                             /\ cache' = [cache EXCEPT ![route] = pending \ {i}]
                             /\ pending' = pending \ {i}
    BY <1>9 DEF HandleResolveInterrupt, Answering
  <2>3. items' = items /\ Answering(route, i) \in SoundOps(items)
    BY <1>9, <1>a, <2>1, StartedIsSound DEF HandleResolveInterrupt, TypeOK
  <2>4. OpsOK' /\ sends' \in 0..MaxSends /\ twin' \in BOOLEAN
    BY <1>d, <2>2, <2>3
  <2> QED BY <1>9, <1>a, <1>b, <2>2, <2>4 DEF HandleResolveInterrupt, TypeOK
<1>10. ASSUME NEW k \in Slots, CreateSession(k) PROVE Typed'
  <2>1. PICK s \in fresh : /\ fresh' = fresh \ {s}
                           /\ ops' = [ops EXCEPT ![k] = Created(ops[k], s)]
                           /\ cache' = [cache EXCEPT ![s] = {}]
                           /\ ShowSession(s, cache')
    BY <1>10 DEF CreateSession, Created
  <2>2. s \in Sessions /\ ops[k] \in SoundOps(items) /\ items' = items
    BY <1>10, InFlightIsSound DEF CreateSession, TypeOK
  <2>3. Created(ops[k], s) \in SoundOps(items)
    BY <1>a, <2>2, CreatedIsSound
  <2>4. OpsOK'
    BY <2>1, <2>2, <2>3 DEF OpsOK
  <2>5. cache' \in [Sessions -> SUBSET Interrupt] /\ s \in Routes
    BY <2>1, <2>2 DEF TypeOK, Routes
  <2>6. pending' \subseteq Interrupt /\ route' \in Routes /\ fresh' \subseteq Sessions
    BY <1>f, <2>1, <2>5 DEF ShowSession, TypeOK
  <2>7. atts' \subseteq Files /\ queue' \in Seq(1..MaxItems) /\ paused' \in BOOLEAN /\ draining' \in BOOLEAN
        /\ held' \in BOOLEAN
    BY <1>g, <2>1 DEF ShowSession
  <2>8. composer' \in BOOLEAN /\ streaming' \in BOOLEAN /\ UNCHANGED <<sends, twin, deleting, items>>
    BY <1>10 DEF CreateSession
  <2>9. ops' \in [Slots -> Op \cup {Free}]
    BY <1>a, <1>b, <2>2, <2>4
  <2> QED BY <2>4, <2>5, <2>6, <2>7, <2>8, <2>9 DEF TypeOK
<1>11. ASSUME NEW k \in Slots, SendEvent(k) \/ ResumeEvent(k) PROVE Typed'
  <2>1. PICK i \in SUBSET Interrupt : Tell(k, i)
    <3>1. CASE OnInterrupted(k)
      <4>1. PICK i \in SUBSET ({ops[k].session} \X Cards) : i # {} /\ Tell(k, i)
        BY <3>1 DEF OnInterrupted
      <4>2. ops[k] \in Op /\ ops[k].session # NoSession
        BY <4>1, InFlightIsSound DEF Tell
      <4>3. ops[k].session \in Sessions
        BY <4>2 DEF Op, Routes
      <4> QED BY <4>1, <4>3 DEF Interrupt
    <3>2. CASE Tell(k, {})
      BY <3>2
    <3> QED BY <1>11, <3>1, <3>2 DEF SendEvent, ResumeEvent, OnFinal, OnError, OnResumeError
  <2>2. paused' \in BOOLEAN
    BY <1>11 DEF SendEvent, ResumeEvent, OnInterrupted, OnFinal, OnError, OnResumeError, TypeOK
  <2> QED BY <1>e, <2>1, <2>2 DEF Tell, TypeOK
<1>12. ASSUME NEW k \in Slots, NEW c \in [Sessions -> SUBSET Interrupt], NEW cards \in SUBSET Interrupt,
              Finish(k, c, cards)
       PROVE  /\ OpsOK' /\ streaming' \in BOOLEAN /\ pending' \subseteq Interrupt /\ draining' \in BOOLEAN
              /\ UNCHANGED <<route, fresh, sends, twin, deleting, items>>
  BY <1>12, <1>c, <1>f DEF Finish, TypeOK
<1>13. ASSUME NEW k \in Slots, StreamEnds(k) PROVE Typed'
  <2>1. Finish(k, cache, pending)
    BY <1>13 DEF StreamEnds
  <2>2. /\ OpsOK' /\ streaming' \in BOOLEAN /\ pending' \subseteq Interrupt /\ draining' \in BOOLEAN
        /\ UNCHANGED <<route, fresh, sends, twin, deleting, items>>
    BY <1>12, <2>1 DEF TypeOK
  <2> QED BY <1>13, <1>a, <1>b, <2>2 DEF StreamEnds, TypeOK
<1>14. ASSUME NEW k \in Slots, SendFails(k) PROVE Typed'
  <2>1. Finish(k, cache, pending) /\ ops[k] # Free /\ ops[k].kind # "resume" /\ cache' = cache
    BY <1>14 DEF SendFails
  <2>2. /\ OpsOK' /\ streaming' \in BOOLEAN /\ pending' \subseteq Interrupt /\ draining' \in BOOLEAN
        /\ UNCHANGED <<route, fresh, sends, twin, deleting, items>>
    BY <1>12, <2>1 DEF TypeOK
  <2>3. ops[k] \in SoundOps(items) /\ ops[k].files \subseteq Files
        /\ (ops[k].kind = "drain" => ops[k].item \in 1..MaxItems)
    BY <1>a, <2>1, InFlightIsSound DEF SoundOps, Op
  <2>4. CASE ops[k].kind = "send"
    BY <1>14, <1>a, <1>b, <2>1, <2>2, <2>3, <2>4 DEF SendFails, TypeOK
  <2>5. CASE ops[k].kind # "send"
    <3>1. ops[k].kind = "drain"
      BY <2>1, <2>3, <2>5 DEF SoundOps, Op
    <3>2. PutBack(ops[k].item) \in Seq(1..MaxItems)
      BY <2>3, <3>1, PutBackProperties DEF TypeOK
    <3> QED BY <1>14, <1>a, <1>b, <2>1, <2>2, <2>5, <3>2 DEF SendFails, TypeOK
  <2> QED BY <2>4, <2>5
<1>15. ASSUME NEW k \in Slots, ResumeFails(k) PROVE Typed'
  <2>1. ops[k] # Free /\ ops[k].kind = "resume"
    BY <1>15 DEF ResumeFails
  <2>2. ops[k].answer \in Interrupt /\ ops[k].session \in Sessions
    BY <2>1, InFlightIsSound DEF SoundOps
  <2>3. cache' \in [Sessions -> SUBSET Interrupt] /\ pending \cup {ops[k].answer} \in SUBSET Interrupt
    BY <1>15, <2>2 DEF ResumeFails, TypeOK
  <2>4. Finish(k, cache', pending \cup {ops[k].answer})
    BY <1>15 DEF ResumeFails
  <2>5. /\ OpsOK' /\ streaming' \in BOOLEAN /\ pending' \subseteq Interrupt /\ draining' \in BOOLEAN
        /\ UNCHANGED <<route, fresh, sends, twin, deleting, items>>
    BY <1>12, <2>3, <2>4
  <2> QED BY <1>15, <1>a, <1>b, <2>3, <2>5 DEF ResumeFails, TypeOK
<1>16. CASE PollDetail
  BY <1>16, <1>e DEF PollDetail, Interrupt, TypeOK, Routes
<1>17. CASE HandleDeleteMessages
  BY <1>17, <1>e DEF HandleDeleteMessages, TypeOK
<1>18. CASE DeleteMessagesDone
  BY <1>18, <1>e DEF DeleteMessagesDone, TypeOK
<1>19. CASE HandleSelectSession
  <2>1. PICK r \in Routes : ShowSession(r, cache)
    BY <1>19 DEF HandleSelectSession
  <2>2. pending' \subseteq Interrupt
    BY <1>f, <2>1 DEF ShowSession, TypeOK
  <2>3. /\ route' \in Routes /\ atts' \subseteq Files /\ queue' \in Seq(1..MaxItems)
        /\ paused' \in BOOLEAN /\ draining' \in BOOLEAN /\ held' \in BOOLEAN
    BY <1>g, <2>1 DEF ShowSession
  <2>4. UNCHANGED <<fresh, cache, composer, opVars, deleting, items>>
    BY <1>19 DEF HandleSelectSession
  <2> QED BY <1>e, <2>2, <2>3, <2>4 DEF TypeOK
<1>20. CASE UNCHANGED vars
  BY <1>20, <1>e DEF vars, TypeOK
<1> QED BY <1>1, <1>2, <1>3, <1>4, <1>5, <1>7, <1>8, <1>9, <1>10, <1>11, <1>13, <1>14, <1>15, <1>16,
           <1>17, <1>18, <1>19, <1>20 DEF Next

-----------------------------------------------------------------------------
(* The slots of the requests.                                              *)

(* A request that starts takes a free slot.                                *)
LEMMA StartTakesSlot ==
  ASSUME Typed, NEW o \in SoundOps(items), Start(o)
  PROVE  \E k \in Slots : /\ k \notin InFlight /\ ops' = [ops EXCEPT ![k] = o]
                          /\ InFlight' = InFlight \cup {k}
                          /\ Live' = IF o.session = NoSession THEN Live ELSE Live \cup {k}
                          /\ Drains' = IF o.kind = "drain" THEN Drains \cup {k} ELSE Drains
                          /\ twin' = (twin \/ InFlight # {})
<1>1. PICK k \in Slots : ops[k] = Free /\ ops' = [ops EXCEPT ![k] = o] /\ twin' = (twin \/ InFlight # {})
  BY DEF Start
<1>2. o # Free /\ ops \in [Slots -> SoundOps(items) \cup {Free}]
  BY SoundOpsProperties DEF Typed, TypeOK, OpsOK
<1>3. ops'[k] = o /\ \A j \in Slots : j # k => ops'[j] = ops[j]
  BY <1>1, <1>2
<1>4. k \notin InFlight /\ InFlight' = InFlight \cup {k}
  BY <1>1, <1>2, <1>3 DEF InFlight
<1>5. Live' = IF o.session = NoSession THEN Live ELSE Live \cup {k}
  BY <1>3, <1>4 DEF Live, InFlight
<1>6. Drains' = IF o.kind = "drain" THEN Drains \cup {k} ELSE Drains
  BY <1>3, <1>4 DEF Drains, InFlight
<1> QED BY <1>1, <1>4, <1>5, <1>6

(* A request whose session is created keeps its slot and what it is about. *)
LEMMA CreateFillsSession ==
  ASSUME Typed, NEW k \in Slots, NEW s \in Sessions, ops[k] # Free,
         ops' = [ops EXCEPT ![k] = Created(ops[k], s)]
  PROVE  /\ InFlight' = InFlight /\ Live' = Live \cup {k} /\ Drains' = Drains
         /\ \A j \in InFlight : /\ ops'[j].kind = ops[j].kind /\ ops'[j].item = ops[j].item
                                /\ ops'[j].answer = ops[j].answer
                                /\ j # k => ops'[j] = ops[j]
<1>1. ops[k] \in SoundOps(items) /\ items \in 0..MaxItems /\ items \in Nat
  BY InFlightIsSound, LimitAssumption
<1>2. ops \in [Slots -> SoundOps(items) \cup {Free}]
  BY DEF Typed, OpsOK
<1>3. ops'[k] = Created(ops[k], s) /\ \A j \in Slots : j # k => ops'[j] = ops[j]
  BY <1>2
<1>4. /\ ops'[k] \in SoundOps(items) /\ ops'[k].kind = ops[k].kind /\ ops'[k].session = s
      /\ ops'[k].item = ops[k].item /\ ops'[k].answer = ops[k].answer
  BY <1>1, <1>3, CreatedIsSound
<1>5. ops'[k] # Free
  BY <1>1, <1>4, SoundOpsProperties
<1>6. InFlight' = InFlight
  BY <1>3, <1>5 DEF InFlight
<1>7. Live' = Live \cup {k}
  BY <1>3, <1>4, <1>6, SessionsAssumption DEF Live, InFlight
<1>8. Drains' = Drains
  BY <1>3, <1>4, <1>6 DEF Drains, InFlight
<1>9. \A j \in InFlight : /\ ops'[j].kind = ops[j].kind /\ ops'[j].item = ops[j].item
                          /\ ops'[j].answer = ops[j].answer
                          /\ j # k => ops'[j] = ops[j]
  BY <1>3, <1>4 DEF InFlight
<1> QED BY <1>6, <1>7, <1>8, <1>9

(* A request that ends leaves its slot and touches no other.               *)
LEMMA EndFreesSlot ==
  ASSUME Typed, NEW k \in Slots, ops' = [ops EXCEPT ![k] = Free]
  PROVE  /\ InFlight' = InFlight \ {k} /\ Live' = Live \ {k} /\ Drains' = Drains \ {k}
         /\ \A j \in InFlight \ {k} : ops'[j] = ops[j]
<1>1. ops'[k] = Free /\ \A j \in Slots : j # k => ops'[j] = ops[j]
  BY DEF Typed, TypeOK
<1>2. InFlight' = InFlight \ {k} /\ \A j \in InFlight \ {k} : ops'[j] = ops[j]
  BY <1>1 DEF InFlight
<1> QED BY <1>2 DEF Live, Drains

-----------------------------------------------------------------------------
(* The lock of the page.                                                   *)
LEMMA LockedStep ==
  ASSUME Typed, Ordered, Locked, [Next]_vars PROVE Locked'
<1> USE SessionsAssumption, LimitAssumption
<1>a. items \in 0..MaxItems /\ items \in Nat /\ route \in Routes
  BY DEF Typed, TypeOK
<1>b. ASSUME UNCHANGED <<ops, streaming, twin>> PROVE Locked'
  <2>1. InFlight' = InFlight /\ Live' = Live
    BY <1>b DEF InFlight, Live
  <2> QED BY <1>b, <2>1 DEF Locked
<1>c. ASSUME NEW o \in SoundOps(items), Start(o), o.session = route,
             route = NoSession => (streaming' => streaming), route # NoSession => streaming' = TRUE
      PROVE  Locked'
  <2>1. PICK k \in Slots : /\ k \notin InFlight
                           /\ InFlight' = InFlight \cup {k}
                           /\ Live' = IF o.session = NoSession THEN Live ELSE Live \cup {k}
                           /\ twin' = (twin \/ InFlight # {})
    BY <1>c, StartTakesSlot
  <2>2. Live \subseteq InFlight
    BY DEF Live
  <2>3. CASE route = NoSession
    BY <1>c, <2>1, <2>2, <2>3 DEF Locked
  <2>4. CASE route # NoSession
    <3>1. streaming' = TRUE /\ Live' = Live \cup {k}
      BY <1>c, <2>1, <2>4
    <3> QED BY <2>1, <2>2, <3>1 DEF Locked
  <2> QED BY <2>3, <2>4
<1>1. CASE \/ TypeText \/ AppendComposerFiles \/ RemoveComposerAttachment
           \/ HandleQueueMessage \/ HandleRemoveQueuedMessage
           \/ PollDetail \/ HandleDeleteMessages \/ DeleteMessagesDone \/ HandleSelectSession
  BY <1>1, <1>b
     DEF TypeText, AppendComposerFiles, RemoveComposerAttachment, HandleQueueMessage,
         HandleRemoveQueuedMessage, PollDetail, HandleDeleteMessages, DeleteMessagesDone,
         HandleSelectSession, opVars
<1>2. CASE HandleSendMessage
  <2>1. Start(Sending(route, atts)) /\ atts \in SUBSET Files
    BY <1>2 DEF HandleSendMessage, Sending, Typed, TypeOK
  <2>2. Sending(route, atts) \in SoundOps(items) /\ Sending(route, atts).session = route
    BY <1>a, <2>1, StartedIsSound
  <2>3. route = NoSession => (streaming' => streaming)
    BY <1>2 DEF HandleSendMessage
  <2>4. route # NoSession => streaming' = TRUE
    BY <1>2 DEF HandleSendMessage
  <2> QED BY <1>c, <2>1, <2>2, <2>3, <2>4
<1>3. CASE DrainQueuedMessage
  <2>1. Start(Draining(route, Head(queue))) /\ Head(queue) \in 1..items
    BY <1>3, HeadIsKnown DEF DrainQueuedMessage, Draining
  <2>2. Draining(route, Head(queue)) \in SoundOps(items) /\ Draining(route, Head(queue)).session = route
    BY <1>a, <2>1, StartedIsSound
  <2> QED BY <1>3, <1>c, <2>1, <2>2 DEF DrainQueuedMessage
<1>4. CASE HandleResolveInterrupt
  <2>1. route \in Sessions /\ pending \subseteq Interrupt
    BY <1>4, <1>a DEF HandleResolveInterrupt, Typed, TypeOK, Routes
  <2>2. PICK i \in Interrupt : Start(Answering(route, i))
    BY <1>4, <2>1 DEF HandleResolveInterrupt, Answering
  <2>3. Answering(route, i) \in SoundOps(items) /\ Answering(route, i).session = route
    BY <1>a, <2>1, StartedIsSound
  <2> QED BY <1>4, <1>c, <2>1, <2>2, <2>3 DEF HandleResolveInterrupt
<1>5. ASSUME NEW k \in Slots, CreateSession(k) PROVE Locked'
  <2>1. PICK s \in Sessions : ops' = [ops EXCEPT ![k] = Created(ops[k], s)]
    BY <1>5 DEF CreateSession, Created, Typed, TypeOK
  <2>2. ops[k] # Free /\ streaming' = TRUE /\ twin' = twin
    BY <1>5 DEF CreateSession
  <2>3. InFlight' = InFlight /\ Live' = Live \cup {k}
    BY <2>1, <2>2, CreateFillsSession
  <2> QED BY <2>2, <2>3 DEF Locked
<1>6. ASSUME NEW k \in Slots, SendEvent(k) \/ ResumeEvent(k) PROVE Locked'
  BY <1>6, <1>b DEF SendEvent, ResumeEvent, OnInterrupted, OnFinal, OnError, OnResumeError, Tell, opVars
<1>7. ASSUME NEW k \in Slots, StreamEnds(k) \/ SendFails(k) \/ ResumeFails(k) PROVE Locked'
  <2>1. ops' = [ops EXCEPT ![k] = Free] /\ streaming' = FALSE /\ twin' = twin /\ k \in InFlight
    BY <1>7 DEF StreamEnds, SendFails, ResumeFails, Finish, InFlight
  <2>2. InFlight' = InFlight \ {k} /\ Live' = Live \ {k} /\ Live \subseteq InFlight
    BY <2>1, EndFreesSlot DEF Live
  <2> QED BY <2>1, <2>2 DEF Locked
<1>8. CASE UNCHANGED vars
  BY <1>8, <1>b DEF vars, opVars
<1> QED BY <1>1, <1>2, <1>3, <1>4, <1>5, <1>6, <1>7, <1>8 DEF Next

-----------------------------------------------------------------------------
(* The cards.                                                              *)

(* The requests of a step: one that starts is no answer of another         *)
(* session's card, one that gets its session is no answer.                 *)
LEMMA AnswersStayHome ==
  ASSUME Typed, AnswersHome
  PROVE  /\ ops' = ops => AnswersHome'
         /\ \A o \in SoundOps(items) :
              Start(o) /\ (o.kind = "resume" => o.answer[1] = o.session) => AnswersHome'
         /\ \A k \in Slots, s \in Sessions :
              ops[k] # Free /\ ops[k].session = NoSession /\ ops' = [ops EXCEPT ![k] = Created(ops[k], s)]
                => AnswersHome'
         /\ \A k \in Slots : ops' = [ops EXCEPT ![k] = Free] => AnswersHome'
<1>1. ASSUME ops' = ops PROVE AnswersHome'
  BY <1>1 DEF AnswersHome, InFlight
<1>2. ASSUME NEW o \in SoundOps(items), Start(o), o.kind = "resume" => o.answer[1] = o.session
      PROVE  AnswersHome'
  <2>1. PICK k \in Slots : k \notin InFlight /\ ops' = [ops EXCEPT ![k] = o] /\ InFlight' = InFlight \cup {k}
    BY <1>2, StartTakesSlot
  <2>2. ops'[k] = o /\ \A j \in InFlight : ops'[j] = ops[j]
    BY <2>1 DEF Typed, TypeOK, InFlight
  <2> QED BY <1>2, <2>1, <2>2 DEF AnswersHome
<1>3. ASSUME NEW k \in Slots, NEW s \in Sessions, ops[k] # Free, ops[k].session = NoSession,
             ops' = [ops EXCEPT ![k] = Created(ops[k], s)]
      PROVE  AnswersHome'
  <2>1. ops[k].kind # "resume" /\ k \in InFlight
    BY <1>3, InFlightIsSound, SessionsAssumption DEF SoundOps, InFlight
  <2>2. /\ InFlight' = InFlight
        /\ \A j \in InFlight : ops'[j].kind = ops[j].kind /\ (j # k => ops'[j] = ops[j])
    BY <1>3, CreateFillsSession
  <2> QED BY <2>1, <2>2 DEF AnswersHome
<1>4. ASSUME NEW k \in Slots, ops' = [ops EXCEPT ![k] = Free] PROVE AnswersHome'
  BY <1>4, EndFreesSlot DEF AnswersHome
<1> QED BY <1>1, <1>2, <1>3, <1>4

(* Every step keeps the cards, the cache and the answers at home.          *)
LEMMA CardsStep ==
  ASSUME Typed, Ordered, Locked, CardsAtHome, [Next]_vars PROVE CardsAtHome'
<1> USE SessionsAssumption
<1>a. /\ items \in 0..MaxItems /\ route \in Routes /\ pending \subseteq Interrupt
      /\ cache \in [Sessions -> SUBSET Interrupt]
  BY DEF Typed, TypeOK
<1>s. \A c, r : r \in Routes /\ CacheHome(c) => Synced(c, r) \subseteq {r} \X Cards
  BY DEF Synced, Routes, CacheHome
<1>u. ASSUME UNCHANGED <<ops, streaming, twin, cache, route>>, pending' \subseteq pending PROVE CardsAtHome'
  BY <1>u, AnswersStayHome DEF CardsAtHome, CardsHome, CacheHome
<1>1. CASE \/ TypeText \/ AppendComposerFiles \/ RemoveComposerAttachment
           \/ HandleQueueMessage \/ HandleRemoveQueuedMessage \/ HandleDeleteMessages \/ DeleteMessagesDone
  BY <1>1, <1>u
     DEF TypeText, AppendComposerFiles, RemoveComposerAttachment, HandleQueueMessage,
         HandleRemoveQueuedMessage, HandleDeleteMessages, DeleteMessagesDone, opVars, pageVars
<1>2. CASE HandleSendMessage
  <2>1. Start(Sending(route, atts)) /\ atts \in SUBSET Files /\ cache' = cache /\ route' = route
    BY <1>2 DEF HandleSendMessage, Sending, Typed, TypeOK
  <2>2. Sending(route, atts) \in SoundOps(items) /\ Sending(route, atts).kind = "send"
    BY <1>a, <2>1, StartedIsSound
  <2>3. AnswersHome => AnswersHome'
    BY <2>1, <2>2, AnswersStayHome
  <2>4. twin => twin'
    BY <2>1 DEF Start
  <2>5. CacheHome(cache) /\ CardsHome => CardsHome'
    BY <1>2 DEF HandleSendMessage, CardsHome
  <2> QED BY <2>1, <2>3, <2>4, <2>5 DEF CardsAtHome, CacheHome
<1>3. CASE DrainQueuedMessage
  <2>1. Start(Draining(route, Head(queue))) /\ Head(queue) \in 1..items /\ cache' = cache /\ route' = route
    BY <1>3, HeadIsKnown DEF DrainQueuedMessage, Draining
  <2>2. Draining(route, Head(queue)) \in SoundOps(items) /\ Draining(route, Head(queue)).kind = "drain"
    BY <1>a, <2>1, StartedIsSound
  <2>3. AnswersHome => AnswersHome'
    BY <2>1, <2>2, AnswersStayHome
  <2>4. twin => twin'
    BY <2>1 DEF Start
  <2>5. CacheHome(cache) => CardsHome'
    BY <1>3, <1>a, <1>s DEF DrainQueuedMessage, CardsHome
  <2> QED BY <2>1, <2>3, <2>4, <2>5 DEF CardsAtHome, CacheHome
<1>4. CASE HandleResolveInterrupt
  <2>1. route \in Sessions /\ ~streaming
    BY <1>4, <1>a DEF HandleResolveInterrupt, CardsDisabled, Routes
  <2>2. PICK i \in pending : /\ Start(Answering(route, i))
                             /\ cache' = [cache EXCEPT ![route] = pending \ {i}]
    BY <1>4 DEF HandleResolveInterrupt, Answering
  <2>3. /\ Answering(route, i) \in SoundOps(items) /\ Answering(route, i).kind = "resume"
        /\ Answering(route, i).session = route /\ Answering(route, i).answer = i
    BY <1>a, <2>1, <2>2, StartedIsSound
  <2>4. CASE twin
    BY <2>2, <2>4 DEF Start, CardsAtHome
  <2>5. CASE ~twin
    <3>1. CacheHome(cache) /\ AnswersHome /\ pending \subseteq {route} \X Cards
      BY <2>1, <2>5 DEF CardsAtHome, CardsHome
    <3>2. AnswersHome'
      <4>1. i[1] = route
        BY <3>1
      <4> QED BY <2>2, <2>3, <3>1, <4>1, AnswersStayHome
    <3>3. CacheHome(cache')
      BY <1>a, <2>1, <2>2, <3>1 DEF CacheHome
    <3>4. CardsHome'
      BY <1>4 DEF HandleResolveInterrupt, CardsHome
    <3> QED BY <3>2, <3>3, <3>4 DEF CardsAtHome, CacheHome
  <2> QED BY <2>4, <2>5
<1>5. ASSUME NEW k \in Slots, CreateSession(k) PROVE CardsAtHome'
  <2>1. PICK s \in Sessions : /\ ops' = [ops EXCEPT ![k] = Created(ops[k], s)]
                              /\ cache' = [cache EXCEPT ![s] = {}]
    BY <1>5 DEF CreateSession, Created, Typed, TypeOK
  <2>2. ops[k] # Free /\ ops[k].session = NoSession /\ streaming' = TRUE /\ twin' = twin
    BY <1>5 DEF CreateSession
  <2>3. AnswersHome => AnswersHome'
    BY <2>1, <2>2, AnswersStayHome
  <2>4. CacheHome(cache) => CacheHome(cache')
    BY <1>a, <2>1 DEF CacheHome
  <2>5. CardsHome'
    BY <2>2 DEF CardsHome
  <2> QED BY <2>2, <2>3, <2>4, <2>5 DEF CardsAtHome, CacheHome
<1>6. ASSUME NEW k \in Slots, SendEvent(k) \/ ResumeEvent(k) PROVE CardsAtHome'
  <2>1. PICK i : Tell(k, i) /\ i \subseteq {ops[k].session} \X Cards
    BY <1>6 DEF SendEvent, ResumeEvent, OnInterrupted, OnFinal, OnError, OnResumeError
  <2>2. k \in Live /\ UNCHANGED <<ops, streaming, twin>> /\ cache' = [cache EXCEPT ![ops[k].session] = i]
    BY <2>1 DEF Tell, Live, InFlight, opVars
  <2>3. CASE twin
    BY <2>2, <2>3 DEF CardsAtHome
  <2>4. CASE ~twin
    <3>1. streaming'
      BY <2>2, <2>4 DEF Locked
    <3>2. CacheHome(cache')
      BY <1>a, <2>1, <2>2, <2>4 DEF CardsAtHome, CacheHome
    <3>3. AnswersHome'
      BY <2>2, <2>4, AnswersStayHome DEF CardsAtHome
    <3> QED BY <3>1, <3>2, <3>3 DEF CardsAtHome, CacheHome, CardsHome
  <2> QED BY <2>3, <2>4
<1>7. ASSUME NEW k \in Slots, NEW cards, CacheHome(cache) => CacheHome(cache'), Finish(k, cache', cards),
             ~twin /\ ~streaming => cards \subseteq {route} \X Cards
      PROVE  CardsAtHome'
  <2>1. ops' = [ops EXCEPT ![k] = Free] /\ twin' = twin /\ route' = route
        /\ pending' \in {Synced(cache', route)} \cup (IF streaming THEN {} ELSE {cards})
    BY <1>7 DEF Finish
  <2>2. CASE ~twin
    <3>1. CacheHome(cache') /\ AnswersHome'
      BY <1>7, <2>1, <2>2, AnswersStayHome DEF CardsAtHome
    <3>2. Synced(cache', route) \subseteq {route} \X Cards
      BY <1>a, <1>s, <3>1
    <3>3. pending' \subseteq {route'} \X Cards
      BY <1>7, <2>1, <2>2, <3>2
    <3> QED BY <3>1, <3>3 DEF CardsAtHome, CardsHome, CacheHome
  <2> QED BY <2>1, <2>2 DEF CardsAtHome
<1>8. ASSUME NEW k \in Slots, StreamEnds(k) \/ SendFails(k) PROVE CardsAtHome'
  <2>1. Finish(k, cache', pending) /\ cache' = cache
    BY <1>8 DEF StreamEnds, SendFails
  <2> QED BY <1>7, <2>1 DEF CardsAtHome, CardsHome
<1>9. ASSUME NEW k \in Slots, ResumeFails(k) PROVE CardsAtHome'
  <2>1. /\ ops[k] # Free /\ ops[k].kind = "resume"
        /\ cache' = [cache EXCEPT ![ops[k].session] = @ \cup {ops[k].answer}]
        /\ Finish(k, cache', pending \cup {ops[k].answer}) /\ twin' = twin
    BY <1>9 DEF ResumeFails, Finish
  <2>2. ops[k].session \in Sessions /\ ops[k].answer \in Interrupt
    BY <2>1, InFlightIsSound DEF SoundOps
  <2>3. k \in Live
    BY <2>1, <2>2 DEF Live, InFlight
  <2>4. CASE twin
    BY <2>1, <2>4 DEF CardsAtHome
  <2>5. CASE ~twin
    <3>1. streaming /\ CacheHome(cache) /\ ops[k].answer[1] = ops[k].session
      BY <2>1, <2>3, <2>5 DEF Locked, CardsAtHome, AnswersHome, Live
    <3>2. ops[k].answer \in {ops[k].session} \X Cards
      BY <2>2, <3>1 DEF Interrupt
    <3>3. CacheHome(cache')
      BY <1>a, <2>1, <2>2, <3>1, <3>2 DEF CacheHome
    <3> QED BY <1>7, <2>1, <3>1, <3>3
  <2> QED BY <2>4, <2>5
<1>10. CASE PollDetail
  <2>1. PICK i \in SUBSET ({route} \X Cards) : cache' = [cache EXCEPT ![route] = i] /\ pending' = i
    BY <1>10 DEF PollDetail
  <2>2. UNCHANGED <<ops, streaming, twin, route>>
    BY <1>10 DEF PollDetail, opVars
  <2>3. CacheHome(cache) => CacheHome(cache')
    BY <1>a, <2>1 DEF CacheHome
  <2> QED BY <2>1, <2>2, <2>3, AnswersStayHome DEF CardsAtHome, CardsHome, CacheHome
<1>11. CASE HandleSelectSession
  <2>1. PICK r \in Routes : route' = r /\ pending' = Synced(cache, r)
    BY <1>11 DEF HandleSelectSession, ShowSession
  <2>2. UNCHANGED <<ops, streaming, twin, cache>>
    BY <1>11 DEF HandleSelectSession, opVars
  <2>3. CacheHome(cache) => CardsHome'
    BY <1>s, <2>1 DEF CardsHome
  <2> QED BY <2>2, <2>3, AnswersStayHome DEF CardsAtHome, CacheHome
<1>12. CASE UNCHANGED vars
  BY <1>12, <1>u DEF vars, opVars, pageVars
<1> QED BY <1>1, <1>2, <1>3, <1>4, <1>5, <1>6, <1>8, <1>9, <1>10, <1>11, <1>12 DEF Next

-----------------------------------------------------------------------------
(* After a failed drain.                                                   *)
LEMMA WaitingStep ==
  ASSUME Typed, Ordered, Locked, Waiting, [Next]_vars PROVE Waiting'
<1>a. items \in 0..MaxItems /\ route \in Routes
  BY DEF Typed, TypeOK
<1>b. ASSUME UNCHANGED <<ops, twin, held, paused>> PROVE Waiting'
  BY <1>b DEF Waiting, InFlight
<1>c. ASSUME held' = FALSE PROVE Waiting'
  BY <1>c DEF Waiting
<1>1. CASE \/ TypeText \/ AppendComposerFiles \/ RemoveComposerAttachment
           \/ PollDetail \/ HandleDeleteMessages \/ DeleteMessagesDone
  BY <1>1, <1>b
     DEF TypeText, AppendComposerFiles, RemoveComposerAttachment, PollDetail, HandleDeleteMessages,
         DeleteMessagesDone, opVars, queueVars
<1>2. CASE \/ HandleQueueMessage \/ HandleRemoveQueuedMessage \/ HandleSendMessage
           \/ HandleResolveInterrupt \/ HandleSelectSession \/ \E k \in Slots : CreateSession(k)
  BY <1>2, <1>c
     DEF HandleQueueMessage, HandleRemoveQueuedMessage, HandleSendMessage, HandleResolveInterrupt,
         HandleSelectSession, CreateSession, ShowSession
<1>3. CASE DrainQueuedMessage
  <2>1. ~paused /\ held' = held /\ (twin => twin')
    BY <1>3 DEF DrainQueuedMessage, Start
  <2> QED BY <2>1 DEF Waiting
<1>4. ASSUME NEW k \in Slots, SendEvent(k) \/ ResumeEvent(k) PROVE Waiting'
  <2>1. k \in InFlight /\ UNCHANGED <<ops, twin, held>>
    BY <1>4 DEF SendEvent, ResumeEvent, OnInterrupted, OnFinal, OnError, OnResumeError, Tell, InFlight, opVars
  <2> QED BY <2>1 DEF Waiting
<1>5. ASSUME NEW k \in Slots, StreamEnds(k) \/ SendFails(k) \/ ResumeFails(k) PROVE Waiting'
  <2>1. ops' = [ops EXCEPT ![k] = Free] /\ twin' = twin /\ k \in InFlight
    BY <1>5 DEF StreamEnds, SendFails, ResumeFails, Finish, InFlight
  <2>2. InFlight' = InFlight \ {k}
    BY <2>1, EndFreesSlot
  <2>3. held' = held \/ paused' = TRUE
    BY <1>5 DEF StreamEnds, SendFails, ResumeFails
  <2> QED BY <2>1, <2>2, <2>3 DEF Waiting, Locked
<1>6. CASE UNCHANGED vars
  BY <1>6, <1>b DEF vars, opVars, queueVars
<1> QED BY <1>1, <1>2, <1>3, <1>4, <1>5, <1>6 DEF Next

-----------------------------------------------------------------------------
(* The order of the queue.                                                 *)

(* A step that keeps the queue keeps the order, when the drains after it   *)
(* are some of those before it with the items they had.                    *)
LEMMA SameQueueIsOrdered ==
  ASSUME Ordered, UNCHANGED <<queue, items>>, twin => twin', Drains' \subseteq Drains,
         \A k \in Drains' : ops'[k].item = ops[k].item
  PROVE  Ordered'
BY DEF Ordered

(* So does one that empties the queue.                                     *)
LEMMA EmptyQueueIsOrdered ==
  ASSUME Ordered, queue' = <<>>, Drains' \subseteq Drains, \A k \in Drains' : ops'[k].item = ops[k].item
  PROVE  Ordered'
<1>1. Len(queue') = 0 /\ 1..Len(queue') = {}
  OBVIOUS
<1> QED BY <1>1, LimitAssumption DEF Ordered

(* Every step keeps the size and the order of the queue and its messages   *)
(* apart from those being drained.                                         *)
LEMMA OrderedStep ==
  ASSUME Typed, Ordered, [Next]_vars, Locked PROVE Ordered'
<1> USE LimitAssumption
<1>a. /\ items \in 0..MaxItems /\ items \in Nat /\ route \in Routes /\ queue \in Seq(1..MaxItems)
      /\ Len(queue) \in Nat /\ DOMAIN queue = 1..Len(queue)
      /\ \A n \in 1..Len(queue) : queue[n] \in Nat
  <2>1. /\ items \in 0..MaxItems /\ route \in Routes /\ queue \in Seq(1..MaxItems)
        /\ Len(queue) \in Nat /\ DOMAIN queue = 1..Len(queue)
    BY DEF Typed, TypeOK
  <2>2. \A n \in 1..Len(queue) : queue[n] \in 1..MaxItems
    BY <2>1, ElementOfSeq
  <2> QED BY <2>1, <2>2
<1>b. ASSUME UNCHANGED <<queue, ops, items, twin>> PROVE Ordered'
  BY <1>b, SameQueueIsOrdered DEF Drains, InFlight
<1>c. ASSUME NEW o \in SoundOps(items), Start(o), o.kind # "drain", UNCHANGED <<queue, items>> PROVE Ordered'
  <2>1. PICK k \in Slots : /\ k \notin InFlight /\ ops' = [ops EXCEPT ![k] = o] /\ Drains' = Drains
                           /\ twin' = (twin \/ InFlight # {})
    BY <1>c, StartTakesSlot
  <2>2. \A j \in Drains : ops'[j] = ops[j]
    BY <2>1 DEF Drains, InFlight, Typed, TypeOK
  <2> QED BY <1>c, <2>1, <2>2, SameQueueIsOrdered
<1>d. \A k \in Drains : ops[k].item \in 1..items
  BY InFlightIsSound DEF Drains, InFlight, SoundOps
<1>1. CASE \/ TypeText \/ AppendComposerFiles \/ RemoveComposerAttachment
           \/ PollDetail \/ HandleDeleteMessages \/ DeleteMessagesDone
  BY <1>1, <1>b
     DEF TypeText, AppendComposerFiles, RemoveComposerAttachment, PollDetail, HandleDeleteMessages,
         DeleteMessagesDone, opVars, queueVars
<1>2. CASE HandleQueueMessage
  <2>1. /\ queue' = Append(queue, items + 1) /\ items' = items + 1 /\ items < MaxItems
        /\ Len(queue) < QueueLimit /\ UNCHANGED <<ops, twin>>
    BY <1>2, <1>a DEF HandleQueueMessage, QueueButtonDisabled, opVars
  <2>2. /\ Len(queue') = Len(queue) + 1 /\ queue'[Len(queue) + 1] = items + 1
        /\ \A n \in 1..Len(queue) : queue'[n] = queue[n]
    BY <1>a, <2>1, AppendProperties
  <2>3. Drains' = Drains
    BY <2>1 DEF Drains, InFlight
  <2>4. \A n \in 1..Len(queue') : n \in 1..Len(queue) \/ n = Len(queue) + 1
    BY <1>a, <2>2
  <2>5. \A n \in 1..Len(queue) : queue[n] <= items /\ queue[n] # items + 1
    BY <1>a DEF Ordered
  <2>6. \A k \in Drains : ops[k].item \in Nat /\ ops[k].item < items + 1
    BY <1>a, <1>d
  <2> QED BY <1>a, <2>1, <2>2, <2>3, <2>4, <2>5, <2>6 DEF Ordered
<1>3. CASE HandleRemoveQueuedMessage
  <2>1. PICK k \in 1..Len(queue) : queue' = RemoveAt(queue, k)
    BY <1>3, <1>a DEF HandleRemoveQueuedMessage
  <2>2. /\ Len(queue') = Len(queue) - 1
        /\ \A n \in 1..Len(queue) - 1 : queue'[n] = IF n < k THEN queue[n] ELSE queue[n + 1]
    BY <1>a, <2>1, RemoveAtProperties
  <2>3. UNCHANGED <<ops, items, twin>> /\ Drains' = Drains
    BY <1>3 DEF HandleRemoveQueuedMessage, opVars, Drains, InFlight
  <2> DEFINE from(n) == IF n < k THEN n ELSE n + 1
  <2>4. ASSUME NEW n \in 1..Len(queue') PROVE from(n) \in 1..Len(queue) /\ queue'[n] = queue[from(n)]
    BY <1>a, <2>1, <2>2, <2>4
  <2>5. ASSUME NEW m \in 1..Len(queue'), NEW n \in 1..Len(queue') PROVE m < n => from(m) < from(n)
    BY <1>a, <2>2
  <2>6. ASSUME NEW m \in 1..Len(queue'), NEW n \in 1..Len(queue') PROVE m # n => from(m) # from(n)
    BY <1>a, <2>2
  <2> HIDE DEF from
  <2>7. Len(queue') <= QueueLimit
    BY <1>a, <2>2 DEF Ordered
  <2>8. \A n \in 1..Len(queue') : queue'[n] <= items'
    BY <2>3, <2>4 DEF Ordered
  <2>9. ASSUME NEW m \in 1..Len(queue'), NEW n \in 1..Len(queue'), m # n PROVE queue'[m] # queue'[n]
    BY <2>4, <2>6, <2>9 DEF Ordered
  <2>10. \A j \in Drains' : \A n \in 1..Len(queue') : queue'[n] # ops'[j].item
    BY <2>3, <2>4 DEF Ordered
  <2>11. \A i, j \in Drains' : i # j => ops'[i].item # ops'[j].item
    BY <2>3 DEF Ordered
  <2>12. ASSUME ~twin', NEW m \in 1..Len(queue'), NEW n \in 1..Len(queue'), m < n PROVE queue'[m] < queue'[n]
    BY <2>3, <2>4, <2>5, <2>12 DEF Ordered
  <2>13. ~twin' => \A j \in Drains' : \A n \in 1..Len(queue') : ops'[j].item < queue'[n]
    BY <2>3, <2>4 DEF Ordered
  <2> QED BY <2>7, <2>8, <2>9, <2>10, <2>11, <2>12, <2>13 DEF Ordered
<1>4. CASE HandleSendMessage
  <2>1. Start(Sending(route, atts)) /\ atts \in SUBSET Files /\ UNCHANGED <<queue, items>>
    BY <1>4 DEF HandleSendMessage, Sending, Typed, TypeOK
  <2> QED BY <1>a, <1>c, <2>1, StartedIsSound
<1>5. CASE HandleResolveInterrupt
  <2>1. route \in Sessions /\ pending \subseteq Interrupt
    BY <1>5, <1>a DEF HandleResolveInterrupt, Typed, TypeOK, Routes
  <2>2. PICK i \in Interrupt : Start(Answering(route, i))
    BY <1>5, <2>1 DEF HandleResolveInterrupt, Answering
  <2>3. UNCHANGED <<queue, items>>
    BY <1>5 DEF HandleResolveInterrupt
  <2> QED BY <1>a, <1>c, <2>1, <2>2, <2>3, StartedIsSound
<1>6. CASE DrainQueuedMessage
  <2> DEFINE o == Draining(route, Head(queue))
  <2>1. Start(o) /\ queue # <<>> /\ queue' = Tail(queue) /\ items' = items
    BY <1>6 DEF DrainQueuedMessage, Draining
  <2>2. Head(queue) \in 1..items /\ Head(queue) = queue[1] /\ Len(queue) \in Nat \ {0}
    BY <2>1, HeadIsKnown
  <2>3. o \in SoundOps(items) /\ o.kind = "drain" /\ o.item = queue[1]
    BY <1>a, <2>2, StartedIsSound
  <2> HIDE DEF o
  <2>4. PICK k \in Slots : /\ k \notin InFlight /\ ops' = [ops EXCEPT ![k] = o] /\ Drains' = Drains \cup {k}
                           /\ twin' = (twin \/ InFlight # {})
    BY <2>1, <2>3, StartTakesSlot
  <2>5. ops'[k] = o /\ \A j \in Drains : ops'[j] = ops[j] /\ j # k
    BY <2>4 DEF Drains, InFlight, Typed, TypeOK
  <2>6. /\ Len(queue') = Len(queue) - 1
        /\ \A n \in 1..Len(queue') : queue'[n] = queue[n + 1]
    BY <1>a, <2>1, HeadTailProperties
  <2>7. \A n \in 1..Len(queue') : n + 1 \in 1..Len(queue) /\ n + 1 # 1 /\ 1 < n + 1
    BY <2>2, <2>6
  <2>8. 1 \in 1..Len(queue)
    BY <2>2
  <2>9. \A j \in Drains : ops[j].item # queue[1]
    BY <2>8 DEF Ordered
  <2>10. ~twin' => ~twin /\ Drains = {}
    BY <2>4 DEF Drains
  <2>11. /\ Len(queue') <= QueueLimit
         /\ \A n \in 1..Len(queue') : queue'[n] <= items'
         /\ \A m, n \in 1..Len(queue') : m # n => queue'[m] # queue'[n]
    BY <1>a, <2>1, <2>2, <2>6, <2>7 DEF Ordered
  <2>12. \A j \in Drains' : \A n \in 1..Len(queue') : queue'[n] # ops'[j].item
    BY <2>3, <2>4, <2>5, <2>6, <2>7, <2>8 DEF Ordered
  <2>13. \A i, j \in Drains' : i # j => ops'[i].item # ops'[j].item
    BY <2>3, <2>4, <2>5, <2>9 DEF Ordered
  <2>14. ~twin' => /\ \A m, n \in 1..Len(queue') : m < n => queue'[m] < queue'[n]
                   /\ \A j \in Drains' : \A n \in 1..Len(queue') : ops'[j].item < queue'[n]
    <3>1. ASSUME ~twin', NEW m \in 1..Len(queue'), NEW n \in 1..Len(queue'), m < n PROVE queue'[m] < queue'[n]
      <4>1. m + 1 < n + 1 /\ ~twin
        BY <2>2, <2>6, <2>10, <3>1
      <4> QED BY <2>6, <2>7, <4>1 DEF Ordered
    <3>2. ASSUME ~twin', NEW j \in Drains', NEW n \in 1..Len(queue') PROVE ops'[j].item < queue'[n]
      <4>1. j = k /\ ops'[j].item = queue[1] /\ ~twin
        BY <2>3, <2>4, <2>5, <2>10, <3>2
      <4> QED BY <2>6, <2>7, <2>8, <4>1 DEF Ordered
    <3> QED BY <3>1, <3>2
  <2> QED BY <2>11, <2>12, <2>13, <2>14 DEF Ordered
<1>7. ASSUME NEW k \in Slots, CreateSession(k) PROVE Ordered'
  <2>1. PICK s \in Sessions : ops' = [ops EXCEPT ![k] = Created(ops[k], s)] /\ queue' = <<>>
    BY <1>7 DEF CreateSession, Created, ShowSession, Typed, TypeOK
  <2>2. ops[k] # Free
    BY <1>7 DEF CreateSession
  <2>3. Drains' = Drains /\ \A j \in Drains : ops'[j].item = ops[j].item
    BY <2>1, <2>2, CreateFillsSession DEF Drains
  <2> QED BY <2>1, <2>3, EmptyQueueIsOrdered
<1>8. ASSUME NEW k \in Slots, SendEvent(k) \/ ResumeEvent(k) PROVE Ordered'
  BY <1>8, <1>b DEF SendEvent, ResumeEvent, OnInterrupted, OnFinal, OnError, OnResumeError, Tell, opVars
<1>9. ASSUME NEW k \in Slots, StreamEnds(k) \/ ResumeFails(k) \/ (SendFails(k) /\ ops[k].kind = "send")
      PROVE  Ordered'
  <2>1. ops' = [ops EXCEPT ![k] = Free] /\ UNCHANGED <<queue, items, twin>>
    BY <1>9 DEF StreamEnds, SendFails, ResumeFails, Finish
  <2>2. Drains' = Drains \ {k} /\ \A j \in Drains' : ops'[j] = ops[j]
    BY <2>1, EndFreesSlot DEF Drains
  <2> QED BY <2>1, <2>2, SameQueueIsOrdered
<1>10. ASSUME NEW k \in Slots, SendFails(k), ops[k].kind # "send" PROVE Ordered'
  <2>1. /\ ops' = [ops EXCEPT ![k] = Free] /\ UNCHANGED <<items, twin>>
        /\ queue' = PutBack(ops[k].item) /\ ops[k] # Free /\ ops[k].kind # "resume"
    BY <1>10 DEF SendFails, Finish
  <2>2. k \in Drains
    BY <1>10, <2>1, InFlightIsSound DEF SoundOps, Op, Drains, InFlight
  <2>3. Drains' = Drains \ {k} /\ \A j \in Drains' : ops'[j] = ops[j]
    BY <2>1, EndFreesSlot DEF Drains
  <2>4. ops[k].item \in 1..items /\ ops[k].item \in 1..MaxItems
    BY <1>a, <1>d, <2>2
  <2>5. /\ Len(queue') \in Nat /\ Len(queue') <= QueueLimit /\ Len(queue') <= Len(queue) + 1
        /\ \A n \in 1..Len(queue') : queue'[n] = IF n = 1 THEN ops[k].item ELSE queue[n - 1]
    <3> DEFINE i == ops[k].item
               q == PutBack(i)
    <3>1. i \in 1..MaxItems /\ queue' = q
      BY <2>1, <2>4
    <3> HIDE DEF i
    <3>2. /\ q \in Seq(1..MaxItems) /\ Len(q) <= QueueLimit /\ Len(q) <= Len(queue) + 1
          /\ \A n \in 1..Len(q) : q[n] = IF n = 1 THEN i ELSE queue[n - 1]
      BY <1>a, <3>1, PutBackProperties
    <3> HIDE DEF q
    <3>3. Len(q) \in Nat
      BY <3>2
    <3> QED BY <3>1, <3>2, <3>3 DEF i
  <2>6. \A n \in 1..Len(queue') : n # 1 => n - 1 \in 1..Len(queue)
    BY <1>a, <2>5
  <2>7. \A n \in 1..Len(queue') : queue'[n] <= items'
    BY <1>a, <2>1, <2>4, <2>5, <2>6 DEF Ordered
  <2>8. ASSUME NEW m \in 1..Len(queue'), NEW n \in 1..Len(queue'), m # n PROVE queue'[m] # queue'[n]
    <3>1. \A j \in 1..Len(queue) : queue[j] # ops[k].item
      BY <2>2 DEF Ordered
    <3>2. CASE m = 1
      BY <2>5, <2>6, <2>8, <3>1, <3>2
    <3>3. CASE n = 1
      BY <2>5, <2>6, <2>8, <3>1, <3>3
    <3>4. CASE m # 1 /\ n # 1
      <4>1. m - 1 # n - 1
        BY <2>5, <2>8
      <4> QED BY <2>5, <2>6, <3>4, <4>1 DEF Ordered
    <3> QED BY <3>2, <3>3, <3>4
  <2>9. \A j \in Drains' : \A n \in 1..Len(queue') : queue'[n] # ops'[j].item
    BY <2>2, <2>3, <2>5, <2>6 DEF Ordered
  <2>10. \A i, j \in Drains' : i # j => ops'[i].item # ops'[j].item
    BY <2>3 DEF Ordered
  <2>11. ASSUME ~twin', NEW m \in 1..Len(queue'), NEW n \in 1..Len(queue'), m < n PROVE queue'[m] < queue'[n]
    <3>1. n # 1 /\ (m = 1 \/ m - 1 < n - 1) /\ ~twin
      BY <2>1, <2>5, <2>11
    <3> QED BY <2>2, <2>5, <2>6, <2>11, <3>1 DEF Ordered
  <2>12. ~twin' => Drains' = {}
    BY <2>1, <2>2, <2>3 DEF Drains, Locked
  <2> QED BY <2>5, <2>7, <2>8, <2>9, <2>10, <2>11, <2>12 DEF Ordered
<1>11. CASE HandleSelectSession
  <2>1. queue' = <<>> /\ UNCHANGED ops
    BY <1>11 DEF HandleSelectSession, ShowSession, opVars
  <2>2. Drains' = Drains
    BY <2>1 DEF Drains, InFlight
  <2> QED BY <2>1, <2>2, EmptyQueueIsOrdered
<1>12. CASE UNCHANGED vars
  BY <1>12, <1>b DEF vars, opVars, queueVars
<1> QED BY <1>1, <1>2, <1>3, <1>4, <1>5, <1>6, <1>7, <1>8, <1>9, <1>10, <1>11, <1>12 DEF Next

-----------------------------------------------------------------------------
(* The theorems.                                                           *)

(* The invariant holds at the start and after every step.                  *)
LEMMA InitIInv == Init => IInv
<1> SUFFICES ASSUME Init PROVE IInv
  OBVIOUS
<1> USE SessionsAssumption, LimitAssumption
<1>1. ops = [k \in Slots |-> Free] /\ InFlight = {} /\ Live = {} /\ Drains = {}
  BY DEF Init, InFlight, Live, Drains
<1>2. queue = <<>> /\ Len(queue) = 0 /\ 1..Len(queue) = {} /\ queue \in Seq(1..MaxItems)
  BY DEF Init
<1>3. Typed
  <2>1. ops \in [Slots -> SoundOps(items) \cup {Free}] /\ ops \in [Slots -> Op \cup {Free}]
    BY <1>1
  <2>2. cache \in [Sessions -> SUBSET Interrupt] /\ fresh \subseteq Sessions /\ route \in Routes
    BY DEF Init, Routes
  <2>3. items \in 0..MaxItems /\ sends \in 0..MaxSends
    BY DEF Init
  <2> QED BY <1>2, <2>1, <2>2, <2>3 DEF Init, Typed, TypeOK, OpsOK
<1>4. Locked /\ CardsAtHome /\ Waiting
  BY <1>1 DEF Init, Locked, CardsAtHome, CacheHome, CardsHome, AnswersHome, Waiting
<1>5. Ordered
  BY <1>1, <1>2 DEF Ordered
<1> QED BY <1>3, <1>4, <1>5 DEF IInv

(* Every reachable state of the page satisfies the inductive invariant.    *)
THEOREM ComposerInvariance == Spec => []IInv
<1>1. IInv /\ [Next]_vars => IInv'
  BY TypedStep, LockedStep, CardsStep, WaitingStep, OrderedStep DEF IInv
<1> QED BY <1>1, InitIInv, PTL DEF Spec

(* The variables keep their types.                                         *)
THEOREM TypeCorrect == Spec => []TypeOK
<1>1. IInv => TypeOK
  BY DEF IInv, Typed
<1> QED BY <1>1, ComposerInvariance, PTL

(* The page is never left locked, and unless a request was started while   *)
(* another was creating its session there is one request at a time.        *)
THEOREM LockIsExclusive == Spec => []StreamingIsExclusive
<1>1. IInv => StreamingIsExclusive
  <2> SUFFICES ASSUME IInv PROVE StreamingIsExclusive
    OBVIOUS
  <2>1. Locked /\ streaming \in BOOLEAN
    BY DEF IInv, Typed, TypeOK
  <2>2. ASSUME ~twin PROVE Cardinality(InFlight) <= 1
    <3>1. CASE InFlight = {}
      BY <3>1, FS_EmptySet
    <3>2. CASE InFlight # {}
      <4>1. PICK k \in InFlight : TRUE
        BY <3>2
      <4>2. InFlight = {k}
        BY <2>1, <2>2, <4>1 DEF Locked
      <4> QED BY <4>2, FS_Singleton
    <3> QED BY <3>1, <3>2
  <2>3. streaming => Live # {}
    BY <2>1 DEF Locked
  <2>4. ~twin => (streaming <=> (Live # {}))
    BY <2>1 DEF Locked
  <2> QED BY <2>2, <2>3, <2>4 DEF StreamingIsExclusive
<1> QED BY <1>1, ComposerInvariance, PTL

(* The queue keeps its size and its order, and a message being drained is  *)
(* not in it, whatever fails and is put back.                              *)
THEOREM QueueKeepsOrder == Spec => []QueueInOrder
<1>1. IInv => QueueInOrder
  <2> SUFFICES ASSUME IInv PROVE QueueInOrder
    OBVIOUS
  <2>1. Ordered /\ DOMAIN queue = 1..Len(queue)
    BY DEF IInv, Typed, TypeOK
  <2> QED BY <2>1 DEF Ordered, QueueInOrder, Drains
<1> QED BY <1>1, ComposerInvariance, PTL

(* An answer goes to the session whose card it answers.                    *)
THEOREM AnswersAreHome == Spec => []AnswersGoHome
<1>1. IInv => AnswersGoHome
  BY DEF IInv, CardsAtHome, AnswersHome, AnswersGoHome
<1> QED BY <1>1, ComposerInvariance, PTL

(* A message that failed is not drained again before the user acted.       *)
THEOREM NoRetryByItself == Spec => HeldMessageWaits
<1>1. IInv /\ [Next]_vars => [DrainQueuedMessage => (~held \/ twin)]_vars
  BY DEF IInv, Waiting, DrainQueuedMessage
<1> QED BY <1>1, ComposerInvariance, PTL DEF Spec, HeldMessageWaits
=============================================================================
