---------------------------- MODULE SessionProofs ----------------------------
(***************************************************************************)
(* Proofs about dev::network::Session for any number of requests, of       *)
(* answers to the peer and of timeouts: a message in the write queue of a  *)
(* live session has a writer, and no request is forgotten when the session *)
(* is dropped.                                                             *)
(***************************************************************************)
EXTENDS Session, TLAPS

SendState == {"unasked", "asked", "idle", "register", "send", "write", "done"}

LEMMA MessageCases ==
  ASSUME NEW m \in Message
  PROVE  \/ \E r \in Request : m = Asking(r)
         \/ \E q \in PeerSeq : m = Answering(q)
BY DEF Message

LEMMA NoneIsNoMessage == None \notin Message
BY DEF Message, None, Asking, Answering

-----------------------------------------------------------------------------
(* The writer *)

(* m_writing may stay set without a writer only when asyncWrite is called     *)
(* with a closed socket, and drop closes the socket of no live session.       *)
ClosedByDrop ==
    /\ dropper \in [Thread -> {"idle", "begin", "erase", "close"}]
    /\ \A t \in Thread : dropper[t] \in {"erase", "close"} => ~actived
    /\ ~connected => ~actived

QueueTyped == writeQueue \in Seq(Message) /\ sending \in [Message -> SendState]

WriterInv == QueueTyped /\ ClosedByDrop /\ WriterExists

\* write takes the first message unless somebody writes already.
LEMMA WriteKeeps ==
  ASSUME QueueTyped, ClosedByDrop, Write, Live,
         writing => writer # None
  PROVE  /\ writeQueue' \in Seq(Message)
         /\ writing' => writer' # None
         /\ writeQueue' # <<>> => writing'
<1>1. CASE writing \/ writeQueue = <<>>
  <2>1. UNCHANGED <<writeQueue, writing, writer>>
    BY <1>1, Zenon DEF Write
  <2> QED BY <1>1, <2>1, Zenon DEF QueueTyped
<1>2. CASE ~(writing \/ writeQueue = <<>>)
  <2>1. connected
    BY Zenon DEF ClosedByDrop, Live, Actived
  <2>2. writing' = TRUE /\ writeQueue' = Tail(writeQueue) /\ writer' = Head(writeQueue)
    BY <1>2, <2>1, Zenon DEF Write, Live
  <2>3. Head(writeQueue) \in Message /\ Tail(writeQueue) \in Seq(Message)
    BY <1>2 DEF QueueTyped
  <2> QED BY <2>2, <2>3, NoneIsNoMessage, Zenon
<1> QED BY <1>1, <1>2

\* After drop has begun there is nothing to show about the writer.
LEMMA DroppedNeedsNoWriter == ASSUME ~Live' PROVE WriterExists'
BY DEF WriterExists

LEMMA WriteQueueTyped ==
  ASSUME QueueTyped, Write
  PROVE  writeQueue' \in Seq(Message)
<1>1. CASE writeQueue = <<>>
  BY <1>1, Zenon DEF Write, QueueTyped
<1>2. CASE writeQueue # <<>>
  <2>1. Tail(writeQueue) \in Seq(Message)
    BY <1>2 DEF QueueTyped
  <2>2. writeQueue' = writeQueue \/ writeQueue' = Tail(writeQueue)
    BY Zenon DEF Write
  <2> QED BY <2>1, <2>2, Zenon DEF QueueTyped
<1> QED BY <1>1, <1>2

LEMMA SendStepWriter ==
  ASSUME WriterInv, NEW m \in Message, SendStep(m)
  PROVE  WriterInv'
<1>1. CASE Begin(m)
  <2>1. \/ sending' = [sending EXCEPT ![m] = "register"]
        \/ sending' = [sending EXCEPT ![m] = "done"]
    BY <1>1, Zenon DEF Begin
  <2>2. sending[m] # "write"
    BY <1>1 DEF Begin
  <2>3. /\ sending' \in [Message -> SendState]
        /\ \A n \in Message : sending[n] = "write" => sending'[n] = "write"
    BY <2>1, <2>2 DEF WriterInv, QueueTyped, SendState
  <2>4. UNCHANGED <<haveNetwork, actived, connected, dropper, writeQueue, writing, writer, ioWrite>>
    BY <1>1 DEF Begin
  <2> QED BY <2>3, <2>4, Zenon DEF WriterInv, QueueTyped, ClosedByDrop, WriterExists, Live, Actived
<1>2. CASE AddSeqCallback(m)
  <2>1. sending' = [sending EXCEPT ![m] = "send"] /\ sending[m] # "write"
    BY <1>2 DEF AddSeqCallback
  <2>2. /\ sending' \in [Message -> SendState]
        /\ \A n \in Message : sending[n] = "write" => sending'[n] = "write"
    BY <2>1 DEF WriterInv, QueueTyped, SendState
  <2>3. UNCHANGED <<haveNetwork, actived, connected, dropper, writeQueue, writing, writer, ioWrite>>
    BY <1>2 DEF AddSeqCallback
  <2> QED BY <2>2, <2>3, Zenon DEF WriterInv, QueueTyped, ClosedByDrop, WriterExists, Live, Actived
<1>3. CASE Send(m)
  <2>1. UNCHANGED <<haveNetwork, actived, connected, dropper, writing, writer, ioWrite>>
    BY <1>3 DEF Send
  <2>2. CASE Actived /\ connected
    <3>1. /\ sending' = [sending EXCEPT ![m] = "write"]
          /\ writeQueue' = Append(writeQueue, m)
      BY <1>3, <2>2, Zenon DEF Send
    <3>2. /\ sending' \in [Message -> SendState] /\ sending'[m] = "write"
          /\ writeQueue' \in Seq(Message)
      BY <3>1 DEF WriterInv, QueueTyped, SendState
    <3> QED BY <2>1, <3>2, Zenon DEF WriterInv, QueueTyped, ClosedByDrop, WriterExists, Live, Actived
  <2>3. CASE ~(Actived /\ connected)
    <3>1. sending' = [sending EXCEPT ![m] = "done"] /\ writeQueue' = writeQueue
      BY <1>3, <2>3, Zenon DEF Send
    <3>2. sending' \in [Message -> SendState]
      BY <3>1 DEF WriterInv, QueueTyped, SendState
    <3>3. ~Live'
      BY <2>1, <2>3, Zenon DEF WriterInv, ClosedByDrop, Live, Actived
    <3> QED BY <2>1, <3>1, <3>2, <3>3, DroppedNeedsNoWriter, Zenon
            DEF WriterInv, QueueTyped, ClosedByDrop
  <2> QED BY <2>2, <2>3
<1>4. CASE WriteAfterSend(m)
  <2>1. /\ UNCHANGED <<haveNetwork, actived, connected, dropper, ioWrite>> /\ Write
        /\ sending' = [sending EXCEPT ![m] = "done"]
    BY <1>4 DEF WriteAfterSend
  <2>2. sending' \in [Message -> SendState] /\ writeQueue' \in Seq(Message)
    BY <2>1, WriteQueueTyped DEF WriterInv, QueueTyped, SendState
  <2>3. ClosedByDrop'
    BY <2>1, Zenon DEF WriterInv, ClosedByDrop
  <2>4. CASE Live
    <3>1. (writing' => writer' # None) /\ (writeQueue' # <<>> => writing')
      BY <2>1, <2>4, WriteKeeps, Zenon DEF WriterInv, WriterExists
    <3> QED BY <2>2, <2>3, <3>1, Zenon DEF WriterInv, QueueTyped, WriterExists
  <2>5. CASE ~Live
    BY <2>1, <2>2, <2>3, <2>5, DroppedNeedsNoWriter, Zenon
      DEF WriterInv, QueueTyped, Live, Actived
  <2> QED BY <2>4, <2>5
<1> QED BY <1>1, <1>2, <1>3, <1>4 DEF SendStep

LEMMA WriteAgainWriter ==
  ASSUME WriterInv, WriteAgain
  PROVE  WriterInv'
<1>1. UNCHANGED <<haveNetwork, actived, connected, dropper, sending>> /\ Write
  BY DEF WriteAgain
<1>2. writeQueue' \in Seq(Message)
  BY <1>1, WriteQueueTyped DEF WriterInv
<1>3. ClosedByDrop'
  BY <1>1, Zenon DEF WriterInv, ClosedByDrop
<1>4. CASE Live
  <2>1. (writing' => writer' # None) /\ (writeQueue' # <<>> => writing')
    BY <1>1, <1>4, WriteKeeps, Zenon DEF WriterInv, WriterExists
  <2> QED BY <1>1, <1>2, <1>3, <2>1, Zenon DEF WriterInv, QueueTyped, WriterExists
<1>5. CASE ~Live
  BY <1>1, <1>2, <1>3, <1>5, DroppedNeedsNoWriter, Zenon
      DEF WriterInv, QueueTyped, Live, Actived
<1> QED BY <1>4, <1>5

\* A session that a thread has begun to drop is not live.
LEMMA DropWriter ==
  ASSUME WriterInv, NEW t \in Thread, actived, Drop(t), UNCHANGED <<connected, sending, writeQueue, actived>>
  PROVE  WriterInv'
<1>1. dropper' = [dropper EXCEPT ![t] = "begin"]
  BY Zenon DEF Drop
<1>2. /\ dropper' \in [Thread -> {"idle", "begin", "erase", "close"}] /\ dropper'[t] = "begin"
      /\ \A u \in Thread : dropper'[u] \in {"erase", "close"} => dropper[u] \in {"erase", "close"}
  BY <1>1 DEF WriterInv, ClosedByDrop
<1>3. ~Live'
  BY <1>2 DEF Live
<1> QED BY <1>2, <1>3, DroppedNeedsNoWriter, Zenon DEF WriterInv, QueueTyped, ClosedByDrop

LEMMA DropStepWriter ==
  ASSUME WriterInv, NEW t \in Thread, DropStep(t)
  PROVE  WriterInv'
<1>1. /\ UNCHANGED <<sending, writeQueue>>
      /\ \E s \in {"erase", "close", "idle"} : dropper' = [dropper EXCEPT ![t] = s]
  BY DEF DropStep, ClearActived, EraseCallbacks, CloseSocket
<1>2. dropper' \in [Thread -> {"idle", "begin", "erase", "close"}]
  BY <1>1 DEF WriterInv, ClosedByDrop
<1>3. ~actived'
  <2>1. CASE ClearActived(t)
    BY <2>1 DEF ClearActived
  <2>2. CASE EraseCallbacks(t) \/ CloseSocket(t)
    <3>1. dropper[t] \in {"erase", "close"} /\ actived' = actived
      BY <2>2 DEF EraseCallbacks, CloseSocket
    <3> QED BY <3>1, Zenon DEF WriterInv, ClosedByDrop
  <2> QED BY <2>1, <2>2 DEF DropStep
<1> QED BY <1>1, <1>2, <1>3, DroppedNeedsNoWriter, Zenon
        DEF WriterInv, QueueTyped, ClosedByDrop, Live, Actived

LEMMA OnWriteWriter ==
  ASSUME WriterInv, OnWrite
  PROVE  WriterInv'
<1>1. UNCHANGED <<haveNetwork, actived, connected, sending, writeQueue>> /\ dropper["io"] = "idle"
  BY DEF OnWrite
<1>2. CASE Actived /\ Drop("io")
  BY <1>1, <1>2, DropWriter DEF Thread, Actived
<1>3. CASE UNCHANGED dropper /\ ioWrite' = (Actived /\ connected)
           /\ writing' = (writing /\ ~(Actived /\ connected))
  <2>1. ClosedByDrop' /\ QueueTyped'
    BY <1>1, <1>3, Zenon DEF WriterInv, ClosedByDrop, QueueTyped
  <2>2. Actived => connected
    BY Zenon DEF WriterInv, ClosedByDrop, Actived
  <2>3. WriterExists'
    BY <1>1, <1>3, <2>2, Zenon DEF WriterExists, Live, Actived
  <2> QED BY <2>1, <2>3 DEF WriterInv
<1> QED BY <1>2, <1>3, Zenon DEF OnWrite

LEMMA WriterStep ==
  ASSUME WriterInv, [Next]_vars
  PROVE  WriterInv'
<1>0. ASSUME UNCHANGED <<haveNetwork, actived, connected, dropper, sending, writeQueue, writing,
                       writer, ioWrite>>
      PROVE  WriterInv'
  BY <1>0, Zenon DEF WriterInv, QueueTyped, ClosedByDrop, WriterExists, Live, Actived
<1>1. CASE UNCHANGED vars
  BY <1>0, <1>1 DEF vars
<1>2. ASSUME NEW m \in Message, SendStep(m)  PROVE WriterInv'
  BY <1>2, SendStepWriter
<1>3. ASSUME NEW t \in Thread, Disconnect(t)  PROVE WriterInv'
  BY <1>3, DropWriter DEF Disconnect
<1>4. ASSUME NEW t \in Thread, DropStep(t)  PROVE WriterInv'
  BY <1>4, DropStepWriter
<1>5. CASE WriteAgain
  BY <1>5, WriteAgainWriter
<1>6. CASE OnWrite
  BY <1>6, OnWriteWriter
<1>7. ASSUME NEW r \in Request, PeerAnswers(r) \/ OnAnswer(r) \/ Expire(r) \/ OnTimeout(r)
      PROVE  WriterInv'
  BY <1>0, <1>7 DEF PeerAnswers, OnAnswer, Expire, OnTimeout
<1>8. ASSUME NEW q \in PeerSeq, OnRequest(q)  PROVE WriterInv'
  <2>1. /\ sending' = [sending EXCEPT ![Answering(q)] = "asked"]
        /\ sending[Answering(q)] # "write"
    BY <1>8 DEF OnRequest
  <2>2. /\ sending' \in [Message -> SendState]
        /\ \A n \in Message : sending[n] = "write" => sending'[n] = "write"
    BY <2>1 DEF WriterInv, QueueTyped, SendState
  <2>3. UNCHANGED <<haveNetwork, actived, connected, dropper, writeQueue, writing, writer, ioWrite>>
    BY <1>8 DEF OnRequest
  <2> QED BY <2>2, <2>3, Zenon DEF WriterInv, QueueTyped, ClosedByDrop, WriterExists, Live, Actived
<1>9. ASSUME NEW k \in pool, RunTask(k)  PROVE WriterInv'
  BY <1>0, <1>9 DEF RunTask
<1>10. CASE StopHost
  <2>1. ~Live'
    BY <1>10 DEF StopHost, Live, Actived
  <2> QED BY <1>10, <2>1, DroppedNeedsNoWriter, Zenon
          DEF StopHost, WriterInv, QueueTyped, ClosedByDrop
<1> QED BY <1>1, <1>2, <1>3, <1>4, <1>5, <1>6, <1>7, <1>8, <1>9, <1>10 DEF Next

\* However many threads send and write at once, a message in m_writeQueue of a live
\* session has a write under way or a thread about to call write, and m_writing is set
\* only while asyncWrite has a message.
THEOREM NoMessageStuck == Spec => []WriterExists
<1>1. Init => WriterInv
  <2> SUFFICES ASSUME Init PROVE WriterInv
    OBVIOUS
  <2>1. writeQueue = <<>> /\ sending \in [Message -> SendState]
    BY DEF Init, SendState
  <2>2. dropper \in [Thread -> {"idle", "begin", "erase", "close"}] /\ \A t \in Thread : dropper[t] = "idle"
    BY DEF Init
  <2>3. <<>> \in Seq(Message)
    OBVIOUS
  <2>4. connected /\ ~writing
    BY Zenon DEF Init
  <2> QED BY <2>1, <2>2, <2>3, <2>4, Zenon DEF WriterInv, QueueTyped, ClosedByDrop, WriterExists, Live, Actived
<1>2. WriterInv => WriterExists
  BY DEF WriterInv
<1> QED BY <1>1, <1>2, WriterStep, PTL DEF Spec
-----------------------------------------------------------------------------
(* The requests *)

(* What keeps track of a request whose callback has been registered: a result *)
(* that was given, a task that will give one, or its handler in the map, with *)
(* a timer for a timed request.                                               *)
Tracked(r) ==
    \/ called[r] # {}
    \/ \E k \in pool : k.seq = r /\ k.kind \in Kinds
    \/ seq2Callback[r] = "func" /\ (r \in Timed => timer[r] # "off")

CallbacksTyped ==
    /\ seq2Callback \in [Seq2 -> {"none", "func", "empty"}]
    /\ timer \in [Request -> {"off", "armed", "queued"}]
    /\ sending \in [Message -> SendState]

(* Before it is registered a request has no handler of its own, and its timer *)
(* runs.  An empty handler is the one of an answer under the same seq.        *)
RequestInv(r) ==
    /\ sending[Asking(r)] \in {"idle", "register"} => seq2Callback[r] # "func"
    /\ sending[Asking(r)] = "register" /\ r \in Timed => timer[r] = "armed"
    /\ sending[Asking(r)] \in {"send", "write", "done"} => Tracked(r) \/ r \in ignored
    /\ seq2Callback[r] = "empty" \/ r \in ignored => Collides(r)

(* DropSettles is not inductive: drop can only settle the requests that the   *)
(* map knows, so each request must be tracked from its registration on,       *)
(* through answers and timeouts that race with drop.                          *)
SettleInv ==
    /\ CallbacksTyped
    /\ \A r \in Request : sending[Asking(r)] \in {"idle", "register", "send", "write", "done"}
    /\ \A r \in Request : RequestInv(r)

LEMMA AskingDiffers ==
  /\ \A r \in Request : Asking(r) \in Message /\ Asking(r)[1] = "request" /\ Asking(r)[2] = r
  /\ \A q \in PeerSeq : Answering(q) \in Message /\ Answering(q)[1] = "answer" /\ Answering(q)[2] = q
  /\ \A r, s \in Request : Asking(r) = Asking(s) => r = s
  /\ \A r \in Request, q \in PeerSeq : Asking(r) # Answering(q)
BY DEF Message, Asking, Answering

\* Nothing that a request depends on has changed, but there may be more tasks and results.
LEMMA RequestKept ==
  ASSUME NEW r \in Request, RequestInv(r),
         seq2Callback'[r] = seq2Callback[r], timer'[r] = timer[r],
         sending'[Asking(r)] = sending[Asking(r)], Collides(r) => Collides(r)',
         called' = called, ignored' = ignored, pool \subseteq pool'
  PROVE  RequestInv(r)'
BY Zenon DEF RequestInv, Tracked

\* Once an answer has begun it never is as if the peer had not asked.
LEMMA CollidesKept ==
  ASSUME NEW r \in Request, SettleInv, NEW m \in Message, NEW s \in SendState,
         sending' = [sending EXCEPT ![m] = s],
         s \notin {"unasked", "asked"} \/ sending[m] = "unasked", Collides(r)
  PROVE  Collides(r)'
BY AskingDiffers DEF SettleInv, CallbacksTyped, Collides

\* asyncSendMessage of a request: the timer is armed before the callback is registered,
\* and without a session the pool gives the result.
LEMMA BeginSettles ==
  ASSUME SettleInv, NEW m \in Message, Begin(m)
  PROVE  SettleInv'
<1>1. UNCHANGED <<seq2Callback, called, ignored>> /\ sending[m] \in {"idle", "asked"}
  BY DEF Begin
<1>0. ASSUME NEW r \in Request, Collides(r)  PROVE Collides(r)'
  <2>1. \E s \in {"register", "done"} : sending' = [sending EXCEPT ![m] = s]
    BY DEF Begin
  <2> QED BY <1>0, <2>1, CollidesKept DEF SendState
<1>2. CASE Actived
  <2>1. /\ sending' = [sending EXCEPT ![m] = "register"] /\ pool' = pool
        /\ timer' = [r \in Request |-> IF m = Asking(r) /\ r \in Timed THEN "armed" ELSE timer[r]]
    BY <1>2, Zenon DEF Begin
  <2>2. CallbacksTyped'
    BY <1>1, <2>1 DEF SettleInv, CallbacksTyped, SendState
  <2>3. ASSUME NEW r \in Request
        PROVE  /\ sending'[Asking(r)] \in {"idle", "register", "send", "write", "done"}
               /\ RequestInv(r)'
    <3>1. CASE m = Asking(r)
      <4>1. sending'[Asking(r)] = "register" /\ (r \in Timed => timer'[r] = "armed")
        BY <2>1, <3>1 DEF SettleInv, CallbacksTyped
      <4>2. seq2Callback[r] # "func" /\ (seq2Callback[r] = "empty" \/ r \in ignored => Collides(r))
        BY <1>1, <3>1 DEF SettleInv, RequestInv
      <4> QED BY <1>0, <1>1, <4>1, <4>2 DEF RequestInv
    <3>2. CASE m # Asking(r)
      <4>1. sending'[Asking(r)] = sending[Asking(r)] /\ timer'[r] = timer[r]
        BY <2>1, <3>2, AskingDiffers DEF SettleInv, CallbacksTyped
      <4> QED BY <1>0, <1>1, <2>1, <4>1, RequestKept DEF SettleInv
    <3> QED BY <3>1, <3>2
  <2> QED BY <2>2, <2>3 DEF SettleInv
<1>3. CASE ~Actived
  <2>1. /\ sending' = [sending EXCEPT ![m] = "done"] /\ timer' = timer
        /\ pool' = pool \cup {Task(IF m[1] = "request" THEN "inactive" ELSE "empty", m[2])}
    BY <1>3, Zenon DEF Begin
  <2>2. CallbacksTyped'
    BY <1>1, <2>1 DEF SettleInv, CallbacksTyped, SendState
  <2>3. ASSUME NEW r \in Request
        PROVE  /\ sending'[Asking(r)] \in {"idle", "register", "send", "write", "done"}
               /\ RequestInv(r)'
    <3>1. CASE m = Asking(r)
      <4>1. sending'[Asking(r)] = "done" /\ Task("inactive", r) \in pool'
        BY <2>1, <3>1, AskingDiffers DEF SettleInv, CallbacksTyped
      <4>2. Tracked(r)'
        BY <4>1 DEF Tracked, Task, Kinds
      <4>3. seq2Callback[r] = "empty" \/ r \in ignored => Collides(r)
        BY DEF SettleInv, RequestInv
      <4> QED BY <1>0, <1>1, <4>1, <4>2, <4>3 DEF RequestInv
    <3>2. CASE m # Asking(r)
      <4>1. sending'[Asking(r)] = sending[Asking(r)] /\ pool \subseteq pool'
        BY <2>1, <3>2, AskingDiffers DEF SettleInv, CallbacksTyped
      <4> QED BY <1>0, <1>1, <2>1, <4>1, RequestKept DEF SettleInv
    <3> QED BY <3>1, <3>2
  <2> QED BY <2>2, <2>3 DEF SettleInv
<1> QED BY <1>2, <1>3

\* A request whose seq is taken is ignored, and the seq was taken by an answer; an answer
\* takes a seq only from a request that is tracked by something else than its handler.
LEMMA AddSeqCallbackSettles ==
  ASSUME SettleInv, NEW m \in Message, AddSeqCallback(m)
  PROVE  SettleInv'
<1>1. /\ sending[m] = "register" /\ sending' = [sending EXCEPT ![m] = "send"]
      /\ seq2Callback' = [seq2Callback EXCEPT ![m[2]] = IF @ = "none" THEN Handler(m) ELSE @]
      /\ ignored' = ignored \cup {r \in Request : m = Asking(r) /\ seq2Callback[r] # "none"}
      /\ UNCHANGED <<timer, pool, called>>
  BY DEF AddSeqCallback
<1>2. m[2] \in Seq2 /\ Handler(m) \in {"func", "empty"}
  BY MessageCases, AskingDiffers DEF Seq2, Handler
<1>3. CallbacksTyped'
  BY <1>1, <1>2 DEF SettleInv, CallbacksTyped, SendState
<1>4. ASSUME NEW r \in Request
      PROVE  /\ sending'[Asking(r)] \in {"idle", "register", "send", "write", "done"}
             /\ RequestInv(r)'
  <2>0. Collides(r) => Collides(r)'
    BY <1>1, CollidesKept DEF SendState
  <2>1. CASE m = Asking(r)
    <3>1. m[2] = r /\ Handler(m) = "func" /\ r \in Seq2
      BY <2>1, AskingDiffers DEF Handler, Seq2
    <3>2. /\ seq2Callback[r] # "func" /\ (r \in Timed => timer[r] = "armed")
          /\ seq2Callback[r] = "empty" \/ r \in ignored => Collides(r)
      BY <1>1, <2>1 DEF SettleInv, RequestInv
    <3>3. sending'[Asking(r)] = "send"
      BY <1>1, <2>1 DEF SettleInv, CallbacksTyped
    <3>4. CASE seq2Callback[r] = "none"
      <4>1. seq2Callback'[r] = "func" /\ (r \in ignored' => r \in ignored)
        BY <1>1, <2>1, <3>1, <3>4, AskingDiffers DEF SettleInv, CallbacksTyped
      <4> QED BY <1>1, <2>0, <3>2, <3>3, <4>1 DEF RequestInv, Tracked
    <3>5. CASE seq2Callback[r] = "empty"
      <4>1. seq2Callback'[r] = "empty" /\ r \in ignored' /\ Collides(r)'
        BY <1>1, <2>0, <2>1, <3>1, <3>2, <3>5 DEF SettleInv, CallbacksTyped
      <4> QED BY <3>3, <4>1 DEF RequestInv
    <3> QED BY <3>1, <3>2, <3>4, <3>5 DEF SettleInv, CallbacksTyped
  <2>2. CASE m # Asking(r)
    <3>1. sending'[Asking(r)] = sending[Asking(r)] /\ (r \in ignored' <=> r \in ignored)
      BY <1>1, <2>2, AskingDiffers DEF SettleInv, CallbacksTyped
    <3>2. CASE m[2] # r
      <4>1. seq2Callback'[r] = seq2Callback[r]
        BY <1>1, <1>2, <3>2 DEF SettleInv, CallbacksTyped, Seq2
      <4> QED BY <1>1, <2>0, <3>1, <4>1 DEF SettleInv, RequestInv, Tracked
    <3>3. CASE m[2] = r
      <4>1. r \in PeerSeq /\ m = Answering(r) /\ Handler(m) = "empty"
        BY <2>2, <3>3, MessageCases, AskingDiffers DEF Handler
      <4>2. sending'[Answering(r)] = "send"
        BY <1>1, <4>1 DEF SettleInv, CallbacksTyped
      <4>3. Collides(r)'
        BY <4>1, <4>2 DEF Collides
      <4>4. /\ seq2Callback[r] = "func" => seq2Callback'[r] = "func"
            /\ seq2Callback[r] # "func" => seq2Callback'[r] # "func"
        BY <1>1, <1>2, <3>3, <4>1 DEF SettleInv, CallbacksTyped
      <4> QED BY <1>1, <3>1, <4>3, <4>4 DEF SettleInv, RequestInv, Tracked
    <3> QED BY <3>1, <3>2, <3>3 DEF SettleInv
  <2> QED BY <2>1, <2>2
<1> QED BY <1>3, <1>4 DEF SettleInv

\* A registered request that moves on stays registered.
LEMMA MovesOnSettles ==
  ASSUME SettleInv, NEW m \in Message, NEW s \in {"write", "done"},
         sending[m] \in {"send", "write"}, sending' = [sending EXCEPT ![m] = s],
         UNCHANGED <<seq2Callback, timer, pool, called, ignored>>
  PROVE  SettleInv'
<1>1. CallbacksTyped'
  BY DEF SettleInv, CallbacksTyped, SendState
<1>2. ASSUME NEW r \in Request
      PROVE  /\ sending'[Asking(r)] \in {"idle", "register", "send", "write", "done"}
             /\ RequestInv(r)'
  <2>0. Collides(r) => Collides(r)'
    BY CollidesKept DEF SendState
  <2>1. CASE m = Asking(r)
    <3>1. /\ sending'[Asking(r)] = s /\ (Tracked(r) \/ r \in ignored)
          /\ seq2Callback[r] = "empty" \/ r \in ignored => Collides(r)
      BY <2>1 DEF SettleInv, CallbacksTyped, RequestInv
    <3> QED BY <2>0, <3>1 DEF RequestInv, Tracked
  <2>2. CASE m # Asking(r)
    <3>1. sending'[Asking(r)] = sending[Asking(r)]
      BY <2>2, AskingDiffers DEF SettleInv, CallbacksTyped
    <3> QED BY <2>0, <3>1, RequestKept DEF SettleInv
  <2> QED BY <2>1, <2>2
<1> QED BY <1>1, <1>2 DEF SettleInv

LEMMA SendStepSettles ==
  ASSUME SettleInv, NEW m \in Message, SendStep(m)
  PROVE  SettleInv'
<1>1. CASE Begin(m)
  BY <1>1, BeginSettles
<1>2. CASE AddSeqCallback(m)
  BY <1>2, AddSeqCallbackSettles
<1>3. CASE Send(m)
  <2>1. /\ sending[m] = "send" /\ UNCHANGED <<seq2Callback, timer, pool, called, ignored>>
        /\ \E s \in {"write", "done"} : sending' = [sending EXCEPT ![m] = s]
    BY <1>3, Zenon DEF Send
  <2> QED BY <2>1, MovesOnSettles
<1>4. CASE WriteAfterSend(m)
  BY <1>4, MovesOnSettles DEF WriteAfterSend
<1> QED BY <1>1, <1>2, <1>3, <1>4 DEF SendStep

\* drop gives every handler of a request to the pool.
LEMMA EraseCallbacksSettles ==
  ASSUME SettleInv, NEW t \in Thread, EraseCallbacks(t)
  PROVE  SettleInv'
<1>1. /\ timer' = [r \in Request |-> IF seq2Callback[r] = "func" /\ timer[r] = "armed" THEN "off"
                                     ELSE timer[r]]
      /\ pool' = pool \cup {Task("disconnect", r) : r \in {s \in Request : seq2Callback[s] = "func"}}
      /\ seq2Callback' = [s \in Seq2 |-> "none"]
      /\ UNCHANGED <<sending, called, ignored>>
  BY DEF EraseCallbacks
<1>2. CallbacksTyped'
  BY <1>1 DEF SettleInv, CallbacksTyped
<1>3. ASSUME NEW r \in Request
      PROVE  RequestInv(r)'
  <2>1. seq2Callback'[r] = "none"
    BY <1>1 DEF Seq2
  <2>2. sending[Asking(r)] = "register" /\ r \in Timed => timer'[r] = "armed"
    BY <1>1 DEF SettleInv, RequestInv
  <2>3. ASSUME Tracked(r) PROVE Tracked(r)'
    <3>1. CASE seq2Callback[r] = "func"
      <4>1. Task("disconnect", r) \in pool'
        BY <1>1, <3>1
      <4> QED BY <4>1 DEF Tracked, Task, Kinds
    <3>2. CASE seq2Callback[r] # "func"
      BY <1>1, <2>3, <3>2, Zenon DEF Tracked
    <3> QED BY <3>1, <3>2
  <2> QED BY <1>1, <2>1, <2>2, <2>3 DEF SettleInv, RequestInv, Collides
<1> QED BY <1>1, <1>2, <1>3 DEF SettleInv

LEMMA OnAnswerSettles ==
  ASSUME SettleInv, NEW r \in Request, OnAnswer(r)
  PROVE  SettleInv'
<1>1. UNCHANGED <<seq2Callback, sending, called, ignored>>
  BY DEF OnAnswer
<1>2. CASE UNCHANGED <<timer, pool>>
  BY <1>1, <1>2, RequestKept DEF SettleInv, CallbacksTyped, Collides
<1>3. CASE /\ seq2Callback[r] = "func"
           /\ timer' = [timer EXCEPT ![r] = IF @ = "armed" THEN "off" ELSE @]
           /\ pool' = pool \cup {Task("ok", r)}
  <2>1. CallbacksTyped'
    BY <1>1, <1>3 DEF SettleInv, CallbacksTyped
  <2>2. Tracked(r)'
    <3>1. Task("ok", r) \in pool'
      BY <1>3
    <3> QED BY <3>1 DEF Tracked, Task, Kinds
  <2>3. RequestInv(r)'
    BY <1>1, <1>3, <2>2 DEF SettleInv, RequestInv, Collides
  <2>4. ASSUME NEW s \in Request, s # r PROVE RequestInv(s)'
    <3>1. timer'[s] = timer[s] /\ pool \subseteq pool'
      BY <1>3, <2>4 DEF SettleInv, CallbacksTyped
    <3> QED BY <1>1, <3>1, RequestKept DEF SettleInv, Collides
  <2> QED BY <1>1, <2>1, <2>3, <2>4 DEF SettleInv
<1> QED BY <1>2, <1>3, Zenon DEF OnAnswer

\* The handler of a timer that fires late finds no callback, and changes nothing.
LEMMA TimerSettles ==
  ASSUME SettleInv, NEW r \in Request, Expire(r) \/ OnTimeout(r)
  PROVE  SettleInv'
<1>1. UNCHANGED <<seq2Callback, sending, called, ignored>>
  BY DEF Expire, OnTimeout
<1>2. \E s \in {"off", "queued"} : timer' = [timer EXCEPT ![r] = s]
  BY DEF Expire, OnTimeout
<1>3. CallbacksTyped'
  BY <1>1, <1>2 DEF SettleInv, CallbacksTyped
<1>4. pool \subseteq pool'
  BY DEF Expire, OnTimeout
<1>5. ASSUME NEW s \in Request, s # r PROVE RequestInv(s)'
  <2>1. timer'[s] = timer[s]
    BY <1>2, <1>5 DEF SettleInv, CallbacksTyped
  <2> QED BY <1>1, <1>4, <2>1, RequestKept DEF SettleInv, Collides
<1>6. RequestInv(r)'
  <2>1. sending[Asking(r)] = "register" /\ r \in Timed => timer'[r] = "armed"
    BY DEF SettleInv, RequestInv, Expire, OnTimeout
  <2>2. ASSUME Tracked(r) PROVE Tracked(r)'
    <3>1. CASE seq2Callback[r] = "func"
      <4>1. CASE Expire(r)
        <5>1. timer'[r] = "queued"
          BY <4>1 DEF Expire, SettleInv, CallbacksTyped
        <5> QED BY <1>1, <3>1, <5>1 DEF Tracked
      <4>2. CASE OnTimeout(r)
        <5>1. Task("timeout", r) \in pool'
          BY <3>1, <4>2 DEF OnTimeout
        <5> QED BY <5>1 DEF Tracked, Task, Kinds
      <4> QED BY <4>1, <4>2
    <3>2. CASE seq2Callback[r] # "func"
      BY <1>1, <1>4, <2>2, <3>2, Zenon DEF Tracked
    <3> QED BY <3>1, <3>2
  <2> QED BY <1>1, <2>1, <2>2 DEF SettleInv, RequestInv, Collides
<1> QED BY <1>1, <1>3, <1>5, <1>6 DEF SettleInv

\* A task that is run gives its result; only then may the handler go.
LEMMA RunTaskSettles ==
  ASSUME SettleInv, NEW k \in pool, RunTask(k)
  PROVE  SettleInv'
<1>1. /\ pool' = pool \ {k} /\ UNCHANGED <<timer, sending, ignored>>
      /\ called' = [r \in Request |-> IF k.seq = r /\ k.kind \notin {"empty", "gone"}
                                      THEN called[r] \cup {k.kind} ELSE called[r]]
      /\ seq2Callback' = [s \in Seq2 |-> IF s = k.seq /\ k.kind \in {"ok", "timeout"} THEN "none"
                                         ELSE seq2Callback[s]]
  BY DEF RunTask
<1>2. CallbacksTyped'
  BY <1>1 DEF SettleInv, CallbacksTyped
<1>3. ASSUME NEW r \in Request PROVE RequestInv(r)'
  <2>1. r \in Seq2
    BY DEF Seq2
  <2>2. CASE k.seq = r /\ k.kind \in Kinds
    <3>1. called'[r] # {}
      BY <1>1, <2>2 DEF Kinds
    <3>2. seq2Callback'[r] \in {"none", seq2Callback[r]}
      BY <1>1, <2>1
    <3> QED BY <1>1, <3>1, <3>2 DEF SettleInv, RequestInv, Tracked, Collides
  <2>3. CASE ~(k.seq = r /\ k.kind \in Kinds)
    <3>1. seq2Callback'[r] = seq2Callback[r]
      BY <1>1, <2>1, <2>3 DEF Kinds
    <3>2. called[r] # {} => called'[r] # {}
      BY <1>1
    <3>3. ASSUME Tracked(r) PROVE Tracked(r)'
      <4>1. CASE \E l \in pool : l.seq = r /\ l.kind \in Kinds
        <5>1. \E l \in pool' : l.seq = r /\ l.kind \in Kinds
          BY <1>1, <2>3, <4>1
        <5> QED BY <5>1, Zenon DEF Tracked
      <4>2. CASE ~\E l \in pool : l.seq = r /\ l.kind \in Kinds
        BY <1>1, <3>1, <3>2, <3>3, <4>2, Zenon DEF Tracked
      <4> QED BY <4>1, <4>2
    <3> QED BY <1>1, <3>1, <3>3 DEF SettleInv, RequestInv, Collides
  <2> QED BY <2>2, <2>3
<1> QED BY <1>1, <1>2, <1>3 DEF SettleInv

LEMMA SettleStep ==
  ASSUME SettleInv, [Next]_vars
  PROVE  SettleInv'
<1>0. ASSUME UNCHANGED <<seq2Callback, timer, sending, called, ignored>>, pool \subseteq pool'
      PROVE  SettleInv'
  BY <1>0, RequestKept DEF SettleInv, CallbacksTyped, Collides
<1>1. CASE UNCHANGED vars
  BY <1>0, <1>1 DEF vars
<1>2. ASSUME NEW m \in Message, SendStep(m)  PROVE SettleInv'
  BY <1>2, SendStepSettles
<1>3. ASSUME NEW t \in Thread, Disconnect(t)  PROVE SettleInv'
  BY <1>0, <1>3 DEF Disconnect
<1>4. ASSUME NEW t \in Thread, DropStep(t)  PROVE SettleInv'
  <2>1. CASE ClearActived(t) \/ CloseSocket(t)
    BY <1>0, <2>1 DEF ClearActived, CloseSocket
  <2> QED BY <1>4, <2>1, EraseCallbacksSettles DEF DropStep
<1>5. CASE WriteAgain \/ OnWrite \/ StopHost
  BY <1>0, <1>5 DEF WriteAgain, OnWrite, StopHost
<1>6. ASSUME NEW r \in Request, PeerAnswers(r)  PROVE SettleInv'
  BY <1>0, <1>6 DEF PeerAnswers
<1>7. ASSUME NEW r \in Request, OnAnswer(r)  PROVE SettleInv'
  BY <1>7, OnAnswerSettles
<1>8. ASSUME NEW r \in Request, Expire(r) \/ OnTimeout(r)  PROVE SettleInv'
  BY <1>8, TimerSettles
<1>9. ASSUME NEW q \in PeerSeq, OnRequest(q)  PROVE SettleInv'
  <2>1. /\ sending' = [sending EXCEPT ![Answering(q)] = "asked"]
        /\ UNCHANGED <<seq2Callback, timer, pool, called, ignored>>
        /\ sending[Answering(q)] = "unasked"
    BY <1>9 DEF OnRequest
  <2>2. CallbacksTyped'
    BY <2>1 DEF SettleInv, CallbacksTyped, SendState
  <2>3. \A r \in Request : sending'[Asking(r)] = sending[Asking(r)]
    BY <2>1, AskingDiffers DEF SettleInv, CallbacksTyped
  <2>4. \A r \in Request : Collides(r) => Collides(r)'
    BY <2>1, CollidesKept, AskingDiffers DEF SendState
  <2> QED BY <2>1, <2>2, <2>3, <2>4, RequestKept DEF SettleInv
<1>10. ASSUME NEW k \in pool, RunTask(k)  PROVE SettleInv'
  BY <1>10, RunTaskSettles
<1> QED BY <1>1, <1>2, <1>3, <1>4, <1>5, <1>6, <1>7, <1>8, <1>9, <1>10 DEF Next

\* drop forgets no request whose handler was inserted, whatever comes at the same time: the
\* callback has been called or is in the pool, or its handler was registered after drop had
\* emptied the map, and a timed one is still to time out.  addSeqCallback fails to insert
\* the handler of a request only when the peer has asked under the same seq.
THEOREM DropForgetsNothing == Spec => [](DropSettles /\ IgnoredCollide)
<1>1. Init => SettleInv
  <2> SUFFICES ASSUME Init PROVE SettleInv
    OBVIOUS
  <2>1. CallbacksTyped /\ ignored = {}
    BY DEF Init, CallbacksTyped, SendState
  <2>2. \A r \in Request : sending[Asking(r)] = "idle" /\ seq2Callback[r] = "none"
    BY AskingDiffers DEF Init, Seq2
  <2> QED BY <2>1, <2>2 DEF SettleInv, RequestInv
<1>2. SettleInv => DropSettles /\ IgnoredCollide
  <2> SUFFICES ASSUME SettleInv PROVE DropSettles /\ IgnoredCollide
    OBVIOUS
  <2>1. DropSettles
    BY ZenonT(40) DEF SettleInv, RequestInv, Tracked, DropSettles
  <2>2. IgnoredCollide
    BY DEF SettleInv, RequestInv, IgnoredCollide
  <2> QED BY <2>1, <2>2
<1>3. SettleInv /\ [Next]_vars => SettleInv'
  BY SettleStep
<1> QED BY <1>1, <1>2, <1>3, PTL DEF Spec
=============================================================================
