------------------------- MODULE DirectServiceProofs -------------------------
(***************************************************************************)
(* Theorems about the native service and its queue, for queues, messages   *)
(* and drains of any size, any number of cycles, and any faults: the chat  *)
(* shows the queue in its order, the status is true, and no message        *)
(* vanishes without being counted.                                         *)
(***************************************************************************)
EXTENDS DirectService, FiniteSetTheorems, SequenceTheorems, TLAPS

Message == [id : Nat, chunks : Nat \ {0}, next : Nat]

Piece == [id : Nat, chunk : Nat, part : Nat, late : BOOLEAN]

Drain == [reason : {"start", "cycle", "wait"}, current : Nat \cup {None}, sent : Nat, part : Nat \ {0}]

TypeOK ==
  /\ outbox \in Seq(Message)
  /\ dropped \in Nat
  /\ chat \in Seq(Piece)
  /\ pc \in {"starting", "draining", "ready", "measuring", "waiting"}
  /\ drain \in Drain
  /\ failed \in BOOLEAN /\ overflowed \in BOOLEAN
  /\ cycles \in Nat
  /\ sizes \in [DOMAIN sizes -> Nat \ {0}] /\ DOMAIN sizes \subseteq 1 .. cycles

\* What waits was queued by the cycle whose number it has, in their order, and
\* a cycle that still measures has queued nothing.
QueueInv ==
  /\ \A i \in DOMAIN outbox : outbox[i].id \in DOMAIN sizes /\ outbox[i].chunks = sizes[outbox[i].id]
  /\ \A i \in DOMAIN outbox : outbox[i].next < outbox[i].chunks
  /\ \A i, j \in DOMAIN outbox : i < j => outbox[i].id < outbox[j].id
  /\ pc = "measuring" => cycles \notin DOMAIN sizes

\* The cycle that measures has begun.
MeasuringInv == pc = "measuring" => cycles # 0

Copies == {chat[i] : i \in DOMAIN chat}

Copy(id, c, p, l) == [id |-> id, chunk |-> c, part |-> p, late |-> l]

\* Whatever was acknowledged was shown whole.
AcknowledgedInv ==
  \A i \in DOMAIN outbox : \A c \in 0 .. outbox[i].next - 1 : ShownWhole(outbox[i].id, c)

\* Of the chunk it is at a drain has shown the parts before the next one.
ShownInv ==
  /\ AcknowledgedInv
  /\ pc = "draining" /\ outbox # <<>> =>
       \A p \in 1 .. drain.part - 1 : Copy(outbox[1].id, outbox[1].next, p, Late) \in Copies

\* The chat never runs ahead of the queue.
BehindQueue ==
  chat # <<>> =>
    LET l == chat[Len(chat)] IN
    /\ l.id \in DOMAIN sizes
    /\ \A i \in DOMAIN outbox :
         l.id < outbox[i].id \/ (l.id = outbox[i].id /\ l.chunk <= outbox[i].next)

\* The message of this cycle was queued, and waits or has been shown.
CycleDelivered == cycles \in DOMAIN sizes /\ ShownMessage(cycles) /\ outbox = <<>>

\* Between the queueing of a message and the verdict on its cycle.
VerdictInv ==
  /\ pc = "draining" /\ drain.reason = "cycle" /\ ~overflowed =>
       cycles \in DOMAIN sizes /\ (cycles \in Waiting \/ ShownMessage(cycles))
  /\ pc = "draining" /\ drain.reason = "wait" /\ accepted = TRUE => CycleDelivered

Vanished == {id \in DOMAIN sizes : id \notin Waiting /\ ~ShownMessage(id)}

IInv ==
  /\ TypeOK /\ QueueInv /\ MeasuringInv /\ ShownInv /\ BehindQueue /\ VerdictInv
  /\ ChatInOrder /\ StatusIsTrue /\ NothingVanishes

-----------------------------------------------------------------------------
(* The chat.                                                               *)

\* What the chat has shown it has shown.
LEMMA ShownStays ==
  ASSUME TypeOK, NEW m \in Piece, chat' \in {chat, Append(chat, m)}
  PROVE  /\ Copies \subseteq Copies'
         /\ \A id, c : ShownWhole(id, c) => ShownWhole(id, c)'
         /\ \A id : sizes'[id] = sizes[id] /\ ShownMessage(id) => ShownMessage(id)'
<1>1. Copies \subseteq Copies'
  BY AppendProperties DEF TypeOK, Copies
<1>2. \A id, c : ShownWhole(id, c) => ShownWhole(id, c)'
  BY <1>1 DEF ShownWhole, Copies
<1>3. \A id : sizes'[id] = sizes[id] /\ ShownMessage(id) => ShownMessage(id)'
  BY <1>2 DEF ShownMessage
<1> QED BY <1>1, <1>2, <1>3

\* Vanished messages are counted as long as no step adds more of them than it
\* adds to the count.
LEMMA VanishedBounded ==
  ASSUME TypeOK, dropped' \in Nat, NothingVanishes, NEW S, IsFiniteSet(S),
         Vanished' \subseteq Vanished \cup S, dropped' >= dropped + Cardinality(S)
  PROVE  NothingVanishes'
<1>1. IsFiniteSet(Vanished) /\ Cardinality(Vanished) <= dropped
  <2>1. IsFiniteSet(1 .. cycles)
    <3>1. 1 \in Int /\ cycles \in Int
      BY DEF TypeOK
    <3> QED BY <3>1, FS_Interval
  <2>2. Vanished \subseteq 1 .. cycles
    BY DEF TypeOK, Vanished
  <2> QED BY <2>1, <2>2, FS_Subset DEF NothingVanishes, Vanished
<1>2. /\ IsFiniteSet(Vanished \cup S)
      /\ Cardinality(Vanished \cup S) = Cardinality(Vanished) + Cardinality(S) - Cardinality(Vanished \cap S)
  BY <1>1, FS_Union
<1>3. IsFiniteSet(Vanished \cap S)
  BY FS_Subset
<1>4. /\ Cardinality(Vanished') <= Cardinality(Vanished \cup S)
      /\ IsFiniteSet(Vanished')
  BY <1>2, FS_Subset
<1>5. /\ Cardinality(Vanished) \in Nat /\ Cardinality(S) \in Nat /\ Cardinality(Vanished') \in Nat
      /\ Cardinality(Vanished \cap S) \in Nat
  BY <1>1, <1>3, <1>4, FS_CardinalityType
<1>6. Cardinality(Vanished') <= dropped'
  BY <1>1, <1>2, <1>4, <1>5 DEF TypeOK
<1> QED BY <1>6 DEF NothingVanishes, Vanished

\* A step that leaves the queue alone, or shows more, loses nothing.
LEMMA NoneVanish ==
  ASSUME TypeOK, NothingVanishes, Vanished' \subseteq Vanished, dropped' = dropped
  PROVE  NothingVanishes'
<1>1. IsFiniteSet({}) /\ Cardinality({}) = 0
  BY FS_EmptySet
<1> QED BY <1>1, VanishedBounded DEF TypeOK

-----------------------------------------------------------------------------
(* A drain.                                                                *)

\* What a drain is about to send, and why it may.
LEMMA Head1 ==
  ASSUME IInv, outbox # <<>>
  PROVE  /\ Head(outbox) = outbox[1] /\ 1 \in DOMAIN outbox /\ outbox[1] \in Message
         /\ Len(outbox) \in Nat /\ DOMAIN outbox = 1 .. Len(outbox)
BY EmptySeq, LenProperties, HeadTailProperties DEF IInv, TypeOK

\* Showing a part of the head's next chunk.
LEMMA ShowKeeps ==
  ASSUME IInv, Sending, ~AllSent, Show, UNCHANGED queue
  PROVE  /\ chat' \in Seq(Piece)
         /\ Copy(outbox[1].id, outbox[1].next, drain.part, Late) \in Copies'
         /\ Copies \subseteq Copies'
         /\ \A id, c : ShownWhole(id, c) => ShownWhole(id, c)'
         /\ \A id : ShownMessage(id) => ShownMessage(id)'
         /\ BehindQueue' /\ ChatInOrder'
<1> DEFINE m == Copy(outbox[1].id, outbox[1].next, drain.part, Late)
<1>1. outbox # <<>> /\ chat \in Seq(Piece) /\ UNCHANGED <<outbox, sizes>>
  BY DEF Sending, IInv, TypeOK, queue
<1>2. /\ Head(outbox) = outbox[1] /\ 1 \in DOMAIN outbox /\ outbox[1] \in Message
      /\ Len(outbox) \in Nat /\ DOMAIN outbox = 1 .. Len(outbox)
  BY <1>1, Head1
<1>3. Late \in BOOLEAN
  BY DEF Late
<1>4. m \in Piece /\ chat' = Append(chat, m)
  BY <1>2, <1>3 DEF Show, Copy, Piece, Message, IInv, TypeOK, Drain
<1>5. /\ m.id = outbox[1].id /\ m.chunk = outbox[1].next
  BY DEF Copy
<1> HIDE DEF m
<1>6. /\ chat' \in Seq(Piece) /\ Len(chat') = Len(chat) + 1 /\ Len(chat) \in Nat
      /\ chat'[Len(chat')] = m /\ \A i \in 1 .. Len(chat) : chat'[i] = chat[i]
      /\ DOMAIN chat' = 1 .. Len(chat')
  BY <1>1, <1>4, AppendProperties, LenProperties
<1>7. m \in Copies'
  BY <1>6 DEF Copies
<1>8. BehindQueue'
  <2> SUFFICES m.id \in DOMAIN sizes /\ \A i \in DOMAIN outbox :
                 m.id < outbox[i].id \/ (m.id = outbox[i].id /\ m.chunk <= outbox[i].next)
    BY <1>1, <1>6 DEF BehindQueue
  <2>1. m.id \in DOMAIN sizes
    BY <1>2, <1>5 DEF IInv, QueueInv
  <2>2. ASSUME NEW i \in DOMAIN outbox, i # 1
        PROVE  m.id < outbox[i].id
    BY <1>2, <1>5, <2>2 DEF IInv, QueueInv
  <2>3. m.chunk <= outbox[1].next
    BY <1>2, <1>5 DEF Message
  <2> QED BY <1>5, <2>1, <2>2, <2>3
<1>9. ChatInOrder'
  <2> SUFFICES ASSUME NEW i \in 1 .. Len(chat') - 1
               PROVE  \/ chat'[i].id < chat'[i + 1].id
                      \/ chat'[i].id = chat'[i + 1].id /\ chat'[i].chunk <= chat'[i + 1].chunk
    BY DEF ChatInOrder
  <2>1. CASE i < Len(chat)
    BY <1>6, <2>1 DEF IInv, ChatInOrder
  <2>2. CASE i = Len(chat)
    <3>1. chat # <<>> /\ chat'[i] = chat[Len(chat)] /\ chat'[i + 1] = m
      BY <1>6, <2>2, EmptySeq
    <3> QED BY <1>2, <1>5, <3>1 DEF IInv, BehindQueue
  <2> QED BY <1>6, <2>1, <2>2
<1>10. \A id : ShownMessage(id) => ShownMessage(id)'
  BY <1>1, <1>4, ShownStays DEF IInv
<1> QED BY <1>4, <1>6, <1>7, <1>8, <1>9, <1>10, ShownStays DEF m, IInv

\* The head's next chunk is acknowledged after all of its parts were shown.
LEMMA HeadShownWhole ==
  ASSUME IInv, pc = "draining", Sending, AllSent
  PROVE  ShownWhole(outbox[1].id, outbox[1].next)
<1>1. \A p \in 1 .. drain.part - 1 : Copy(outbox[1].id, outbox[1].next, p, Late) \in Copies
  BY DEF IInv, ShownInv, AcknowledgedInv, Sending
<1>2. drain.part \in Nat /\ LateParts \in Nat \ {0}
  BY DirectAssumption DEF IInv, TypeOK, Drain
<1>3. CASE Late
  <2>1. \A p \in 1 .. LateParts : p \in 1 .. drain.part - 1
    BY <1>2, <1>3 DEF AllSent, Parts
  <2> QED BY <1>1, <1>3, <2>1 DEF ShownWhole, Copies, Copy
<1>4. CASE ~Late
  <2>1. 1 \in 1 .. drain.part - 1
    BY <1>2, <1>4 DEF AllSent, Parts
  <2>2. Late = FALSE
    BY <1>4 DEF Late
  <2> QED BY <1>1, <2>1, <2>2 DEF ShownWhole, Copies, Copy
<1> QED BY <1>3, <1>4

\* The verdict of a drain's caller.
LEMMA EndDrainKeeps ==
  ASSUME IInv, pc = "draining", NEW ok \in BOOLEAN, EndDrain(ok),
         UNCHANGED <<queue, drain, overflowed, cycles>>,
         \A id : ShownMessage(id) => ShownMessage(id)'
  PROVE  /\ VerdictInv' /\ StatusIsTrue'
         /\ pc' \in {"ready", "waiting"} /\ failed' \in BOOLEAN
<1>1. /\ pc' \in {"ready", "waiting"} /\ failed' \in BOOLEAN
      /\ UNCHANGED <<outbox, sizes, cycles>>
  BY DEF EndDrain, EndCycle, queue
<1>2. VerdictInv'
  BY <1>1 DEF VerdictInv
<1>3. None # "telegram-delivery-failed" /\ None # "outbox-overflow"
  BY DirectAssumption
<1>4. CASE drain.reason = "cycle"
  <2>1. accepted' = (~overflowed /\ outbox = <<>> /\ ok \in BOOLEAN)
    BY <1>4 DEF EndDrain, EndCycle, CurrentAccepted
  <2>2. error' = None => ~failed'
    BY <1>3, <1>4 DEF EndDrain, EndCycle, ErrorAfter
  <2>3. ASSUME accepted' = TRUE
        PROVE  cycles \in DOMAIN sizes /\ ShownMessage(cycles)
    <3>1. outbox = <<>> /\ ~overflowed
      BY <2>1, <2>3
    <3>2. cycles \notin Waiting
      BY <3>1, EmptySeq DEF Waiting
    <3> QED BY <1>4, <3>1, <3>2 DEF IInv, VerdictInv
  <2> QED BY <1>1, <1>2, <2>1, <2>2, <2>3 DEF StatusIsTrue
<1>5. CASE drain.reason # "cycle"
  <2>1. accepted' = accepted /\ (error' = None => ~failed')
    BY <1>3, <1>5 DEF EndDrain, ErrorAfter
  <2>2. pc' = "waiting" => drain.reason = "wait"
    BY <1>5 DEF EndDrain, IInv, TypeOK, Drain
  <2>3. pc' = "waiting" /\ accepted = TRUE => CycleDelivered
    BY <2>2 DEF IInv, VerdictInv
  <2> QED BY <1>1, <1>2, <2>1, <2>3 DEF StatusIsTrue, CycleDelivered
<1> QED BY <1>4, <1>5

\* A step that leaves queue and chat alone.
LEMMA QueueStays ==
  ASSUME IInv, UNCHANGED <<queue, chat>>, pc' = "measuring" => cycles' \notin DOMAIN sizes
  PROVE  /\ QueueInv' /\ BehindQueue' /\ ChatInOrder' /\ NothingVanishes'
         /\ AcknowledgedInv'
         /\ \A id : ShownMessage(id)' <=> ShownMessage(id)
<1>1. UNCHANGED <<outbox, dropped, sizes, chat>>
  BY DEF queue
<1>2. \A id, c : ShownWhole(id, c)' <=> ShownWhole(id, c)
  BY <1>1 DEF ShownWhole
<1>3. \A id : ShownMessage(id)' <=> ShownMessage(id)
  BY <1>1, <1>2 DEF ShownMessage
<1>4. QueueInv' /\ BehindQueue' /\ ChatInOrder'
  BY <1>1 DEF IInv, QueueInv, BehindQueue, ChatInOrder
<1>5. NothingVanishes'
  BY <1>1, <1>3, NoneVanish DEF IInv, Vanished, Waiting
<1>6. AcknowledgedInv'
  BY <1>1, <1>2 DEF IInv, ShownInv, AcknowledgedInv
<1> QED BY <1>3, <1>4, <1>5, <1>6

-----------------------------------------------------------------------------
(* The steps of a drain.                                                   *)

LEMMA SendKeeps ==
  ASSUME IInv, SendPart \/ AnswerLost
  PROVE  IInv'
<1>1. /\ Sending /\ ~AllSent /\ Show /\ UNCHANGED queue /\ pc = "draining"
      /\ UNCHANGED <<pc, failed, overflowed, accepted, error, cycles>>
      /\ drain' \in {drain, [drain EXCEPT !.part = @ + 1]}
  BY DEF SendPart, AnswerLost, Sending, service
<1>2. /\ chat' \in Seq(Piece)
      /\ Copy(outbox[1].id, outbox[1].next, drain.part, Late) \in Copies'
      /\ Copies \subseteq Copies'
      /\ \A id, c : ShownWhole(id, c) => ShownWhole(id, c)'
      /\ \A id : ShownMessage(id) => ShownMessage(id)'
      /\ BehindQueue' /\ ChatInOrder'
  BY <1>1, ShowKeeps
<1>3. UNCHANGED <<outbox, sizes, dropped>> /\ outbox # <<>>
  BY <1>1 DEF queue, Sending
<1>4. drain' \in Drain /\ drain'.reason = drain.reason /\ drain'.current = drain.current
      /\ drain'.part \in {drain.part, drain.part + 1} /\ drain.part \in Nat
  BY <1>1 DEF IInv, TypeOK, Drain
<1>5. TypeOK'
  BY <1>1, <1>2, <1>3, <1>4 DEF IInv, TypeOK
<1>6. QueueInv'
  BY <1>1, <1>3 DEF IInv, QueueInv
<1>7. ShownInv'
  <2>1. Late' = Late
    BY <1>3, <1>4 DEF Late
  <2>2. \A p \in 1 .. drain'.part - 1 : p \in 1 .. drain.part - 1 \/ p = drain.part
    BY <1>4
  <2>3. \A p \in 1 .. drain'.part - 1 : Copy(outbox[1].id, outbox[1].next, p, Late) \in Copies'
    BY <1>1, <1>2, <1>3, <2>2 DEF IInv, ShownInv, AcknowledgedInv
  <2> QED BY <1>2, <1>3, <2>1, <2>3 DEF IInv, ShownInv, AcknowledgedInv
<1>8. VerdictInv' /\ StatusIsTrue'
  BY <1>1, <1>2, <1>3, <1>4 DEF IInv, VerdictInv, StatusIsTrue, CycleDelivered, Waiting
<1>9. NothingVanishes'
  BY <1>2, <1>3, NoneVanish DEF IInv, Vanished, Waiting
<1> QED BY <1>1, <1>2, <1>5, <1>6, <1>7, <1>8, <1>9 DEF IInv, MeasuringInv

LEMMA DrainOverKeeps ==
  ASSUME IInv, DrainEnds \/ DrainFails
  PROVE  IInv'
<1>1. PICK ok \in BOOLEAN : EndDrain(ok)
  BY DEF DrainEnds, DrainFails
<1>2. pc = "draining" /\ UNCHANGED queue /\ UNCHANGED <<drain, overflowed, cycles>>
  BY DEF DrainEnds, DrainFails
<1>3. UNCHANGED <<outbox, sizes, dropped>>
  BY <1>2 DEF queue
<1>4. chat' = chat \/ (Sending /\ ~AllSent /\ Show)
  BY DEF DrainEnds, DrainFails
<1>5. /\ chat' \in Seq(Piece)
      /\ \A id, c : ShownWhole(id, c) => ShownWhole(id, c)'
      /\ \A id : ShownMessage(id) => ShownMessage(id)'
      /\ BehindQueue' /\ ChatInOrder'
  <2>1. CASE chat' = chat
    BY <1>3, <2>1 DEF IInv, TypeOK, ShownWhole, ShownMessage, BehindQueue, ChatInOrder
  <2>2. CASE Sending /\ ~AllSent /\ Show
    BY <1>2, <2>2, ShowKeeps
  <2> QED BY <1>4, <2>1, <2>2
<1>6. /\ VerdictInv' /\ StatusIsTrue'
      /\ pc' \in {"ready", "waiting"} /\ failed' \in BOOLEAN
  BY <1>1, <1>2, <1>5, EndDrainKeeps
<1>7. TypeOK'
  BY <1>2, <1>3, <1>5, <1>6 DEF IInv, TypeOK
<1>8. QueueInv' /\ ShownInv'
  BY <1>3, <1>5, <1>6 DEF IInv, QueueInv, ShownInv, AcknowledgedInv
<1>9. NothingVanishes'
  BY <1>3, <1>5, NoneVanish DEF IInv, Vanished, Waiting
<1> QED BY <1>5, <1>6, <1>7, <1>8, <1>9 DEF IInv, MeasuringInv

LEMMA AcknowledgeKeeps ==
  ASSUME IInv, Acknowledge
  PROVE  IInv'
<1>1. /\ pc = "draining" /\ Sending /\ AllSent /\ outbox # <<>> /\ outbox' = Acknowledged
      /\ drain' = [drain EXCEPT !.sent = @ + 1, !.part = 1]
      /\ UNCHANGED <<dropped, sizes, pc, failed, overflowed, accepted, error, cycles, chat>>
  BY DEF Acknowledge, Sending
<1>2. /\ Head(outbox) = outbox[1] /\ 1 \in DOMAIN outbox /\ outbox[1] \in Message
      /\ Len(outbox) \in Nat /\ DOMAIN outbox = 1 .. Len(outbox)
  BY <1>1, Head1
<1>3. ShownWhole(outbox[1].id, outbox[1].next)
  BY <1>1, HeadShownWhole
<1>4. drain' \in Drain /\ drain'.reason = drain.reason /\ drain'.part = 1
  <2>1. drain \in Drain
    BY DEF IInv, TypeOK
  <2>2. 1 \in Nat \ {0} /\ drain.sent + 1 \in Nat
    BY <2>1 DEF Drain
  <2> QED BY <1>1, <2>1, <2>2 DEF Drain
<1>5. \A id : ShownMessage(id)' <=> ShownMessage(id)
  BY <1>1 DEF ShownMessage, ShownWhole
<1>6. \A id, c : ShownWhole(id, c)' <=> ShownWhole(id, c)
  BY <1>1 DEF ShownWhole
<1>7. CASE Finished(Head(outbox))
  <2>1. /\ outbox' \in Seq(Message) /\ Len(outbox') = Len(outbox) - 1
        /\ \A i \in 1 .. Len(outbox') : outbox'[i] = outbox[i + 1]
        /\ DOMAIN outbox' = 1 .. Len(outbox')
    BY <1>1, <1>7, HeadTailProperties, LenProperties DEF Acknowledged, IInv, TypeOK
  <2>2. TypeOK'
    BY <1>1, <1>4, <2>1 DEF IInv, TypeOK
  <2>3. QueueInv'
    <3>1. \A i \in DOMAIN outbox' : i \in Int /\ i + 1 \in DOMAIN outbox /\ outbox'[i] = outbox[i + 1]
      BY <1>2, <2>1
    <3>2. \A i, j \in DOMAIN outbox' : i < j => i + 1 < j + 1
      BY <3>1
    <3> QED BY <1>1, <3>1, <3>2 DEF IInv, QueueInv
  <2>4. ShownInv'
    BY <1>2, <1>4, <1>6, <2>1 DEF IInv, ShownInv, AcknowledgedInv
  <2>5. BehindQueue' /\ ChatInOrder'
    BY <1>1, <1>2, <2>1 DEF IInv, BehindQueue, ChatInOrder
  <2>6. ShownMessage(outbox[1].id)
    <3>1. sizes[outbox[1].id] = outbox[1].next + 1 /\ outbox[1].next \in Nat
      BY <1>2, <1>7 DEF IInv, QueueInv, Finished, Message
    <3>2. \A c \in 0 .. outbox[1].next - 1 : ShownWhole(outbox[1].id, c)
      BY <1>2 DEF IInv, ShownInv, AcknowledgedInv
    <3> QED BY <1>3, <3>1, <3>2 DEF ShownMessage
  <2>7. Waiting \subseteq Waiting' \cup {outbox[1].id}
    <3> SUFFICES ASSUME NEW i \in 1 .. Len(outbox), i # 1
                 PROVE  outbox[i].id \in Waiting'
      BY <1>2 DEF Waiting
    <3>1. i - 1 \in DOMAIN outbox' /\ outbox'[i - 1] = outbox[i]
      BY <1>2, <2>1
    <3> QED BY <3>1 DEF Waiting
  <2>8. NothingVanishes'
    BY <1>1, <1>5, <2>6, <2>7, NoneVanish DEF IInv, Vanished
  <2>9. VerdictInv' /\ StatusIsTrue'
    <3>1. drain.reason = "wait" /\ accepted = TRUE => FALSE
      BY <1>1 DEF IInv, VerdictInv, CycleDelivered
    <3> QED BY <1>1, <1>4, <1>5, <2>6, <2>7, <3>1 DEF IInv, VerdictInv, StatusIsTrue
  <2> QED BY <1>1, <2>2, <2>3, <2>4, <2>5, <2>8, <2>9 DEF IInv, MeasuringInv
<1>8. CASE ~Finished(Head(outbox))
  <2> DEFINE m == [outbox[1] EXCEPT !.next = @ + 1]
  <2>1. m \in Message /\ m.id = outbox[1].id /\ m.chunks = outbox[1].chunks /\ m.next = outbox[1].next + 1
    BY <1>2 DEF Message
  <2>2. outbox' = [outbox EXCEPT ![1] = m]
    BY <1>1, <1>2, <1>8 DEF Acknowledged
  <2>3. outbox[1].next + 1 < outbox[1].chunks
    BY <1>2, <1>8 DEF IInv, QueueInv, Finished, Message
  <2> HIDE DEF m
  <2>4. /\ outbox' \in Seq(Message) /\ Len(outbox') = Len(outbox) /\ DOMAIN outbox' = DOMAIN outbox
        /\ \A i \in DOMAIN outbox : outbox'[i] = IF i = 1 THEN m ELSE outbox[i]
    BY <1>2, <2>1, <2>2, ExceptSeq, LenProperties DEF IInv, TypeOK
  <2>5. TypeOK'
    BY <1>1, <1>4, <2>4 DEF IInv, TypeOK
  <2>6. QueueInv'
    BY <1>1, <1>2, <2>1, <2>3, <2>4 DEF IInv, QueueInv
  <2>7. ShownInv'
    <3>1. \A c \in 0 .. m.next - 1 : ShownWhole(m.id, c)
      BY <1>2, <1>3, <2>1 DEF IInv, ShownInv, AcknowledgedInv, Message
    <3> QED BY <1>4, <1>6, <2>4, <3>1 DEF IInv, ShownInv, AcknowledgedInv
  <2>8. BehindQueue' /\ ChatInOrder'
    <3>1. \A i \in DOMAIN outbox : outbox'[i].id = outbox[i].id /\ outbox'[i].next \in {outbox[i].next, outbox[i].next + 1}
      BY <2>1, <2>4
    <3>2. \A i \in DOMAIN outbox : outbox[i].next \in Nat
      <4>1. outbox \in Seq(Message)
        BY DEF IInv, TypeOK
      <4>2. \A i \in 1 .. Len(outbox) : outbox[i] \in Message
        BY <4>1, ElementOfSeq
      <4> QED BY <1>2, <4>2 DEF Message
    <3>3. chat # <<>> => chat[Len(chat)].chunk \in Nat
      <4>1. chat \in Seq(Piece)
        BY DEF IInv, TypeOK
      <4>2. chat # <<>> => Len(chat) \in 1 .. Len(chat)
        BY <4>1, EmptySeq
      <4>3. chat # <<>> => chat[Len(chat)] \in Piece
        BY <4>1, <4>2, ElementOfSeq
      <4> QED BY <4>3 DEF Piece
    <3> QED BY <1>1, <2>4, <3>1, <3>2, <3>3 DEF IInv, BehindQueue, ChatInOrder
  <2>9. Waiting' = Waiting
    BY <2>1, <2>4 DEF Waiting
  <2>10. NothingVanishes'
    BY <1>1, <1>5, <2>9, NoneVanish DEF IInv, Vanished
  <2>11. VerdictInv' /\ StatusIsTrue'
    <3>1. drain.reason = "wait" /\ accepted = TRUE => FALSE
      BY <1>1 DEF IInv, VerdictInv, CycleDelivered
    <3> QED BY <1>1, <1>4, <1>5, <2>9, <3>1 DEF IInv, VerdictInv, StatusIsTrue
  <2> QED BY <1>1, <2>5, <2>6, <2>7, <2>8, <2>10, <2>11 DEF IInv, MeasuringInv
<1> QED BY <1>7, <1>8

-----------------------------------------------------------------------------
(* The queue takes a message.                                              *)

\* A new message goes last; n messages are dropped from the front, and counted.
LEMMA EnqueueKeeps ==
  ASSUME IInv, pc = "measuring", NEW size \in 1 .. MaxChunks, Enqueue(size),
         UNCHANGED <<chat, cycles>>, pc' # "measuring", cycles \in 1 .. cycles
  PROVE  /\ outbox' \in Seq(Message) /\ dropped' \in Nat
         /\ sizes' \in [DOMAIN sizes' -> Nat \ {0}] /\ DOMAIN sizes' \subseteq 1 .. cycles
         /\ QueueInv' /\ BehindQueue' /\ ChatInOrder' /\ NothingVanishes'
         /\ AcknowledgedInv'
         /\ cycles \in DOMAIN sizes'
         /\ ~(dropped' > dropped) => cycles \in Waiting'
         /\ Waiting' \subseteq Waiting \cup {cycles}
         /\ \A i \in Waiting \ Waiting', j \in Waiting' : i < j
<1> DEFINE m == [id |-> cycles, chunks |-> size, next |-> 0]
           q == Queued(m)
<1>1. m \in Message /\ m.id = cycles /\ m.chunks = size /\ m.next = 0 /\ size \in Nat \ {0}
  BY DirectAssumption DEF Message, IInv, TypeOK
<1>2. PICK n \in 0 .. Len(q) : outbox' = SubSeq(q, n + 1, Len(q)) /\ dropped' = dropped + n
  BY DEF Enqueue
<1>3. sizes' = [i \in DOMAIN sizes \cup {cycles} |-> IF i = cycles THEN size ELSE sizes[i]]
  BY DEF Enqueue
<1> HIDE DEF m
<1>4. /\ q \in Seq(Message) /\ Len(q) = Len(outbox) + 1 /\ Len(outbox) \in Nat
      /\ \A i \in 1 .. Len(outbox) : q[i] = outbox[i]
      /\ q[Len(q)] = m
      /\ DOMAIN outbox = 1 .. Len(outbox)
  BY <1>1, AppendProperties, LenProperties DEF Queued, IInv, TypeOK
<1> HIDE DEF q
<1>5. \A i \in 1 .. Len(q) : q[i] \in Message
  BY <1>4, ElementOfSeq
<1>6. n \in Nat /\ n <= Len(q) /\ Len(q) \in Nat
  BY <1>2, <1>4
<1>7. /\ outbox' \in Seq(Message) /\ Len(outbox') = Len(q) - n
      /\ \A i \in 1 .. Len(q) - n : outbox'[i] = q[i + n]
      /\ DOMAIN outbox' = 1 .. Len(q) - n
  <2>1. n + 1 \in Int /\ Len(q) \in Int /\ \A i \in n + 1 .. Len(q) : q[i] \in Message
    BY <1>5, <1>6
  <2>2. /\ outbox' \in Seq(Message)
        /\ Len(outbox') = IF n + 1 <= Len(q) THEN Len(q) - (n + 1) + 1 ELSE 0
        /\ \A i \in 1 .. Len(q) - (n + 1) + 1 : outbox'[i] = q[n + 1 + i - 1]
    BY <1>2, <2>1, SubSeqProperties
  <2>3. Len(outbox') = Len(q) - n
    BY <1>6, <2>2
  <2>4. ASSUME NEW i \in 1 .. Len(q) - n
        PROVE  outbox'[i] = q[i + n]
    <3>1. i \in 1 .. Len(q) - (n + 1) + 1 /\ n + 1 + i - 1 = i + n
      BY <1>6
    <3> QED BY <2>2, <3>1
  <2> QED BY <2>2, <2>3, <2>4, LenProperties
<1>8. cycles \notin DOMAIN sizes
  BY DEF IInv, QueueInv
<1>9. DOMAIN sizes' = DOMAIN sizes \cup {cycles} /\ sizes'[cycles] = size
      /\ \A id \in DOMAIN sizes : sizes'[id] = sizes[id]
  BY <1>3, <1>8
<1>10. sizes' \in [DOMAIN sizes' -> Nat \ {0}] /\ DOMAIN sizes' \subseteq 1 .. cycles
  BY <1>1, <1>3, <1>9 DEF IInv, TypeOK
<1>11. \A i \in DOMAIN q : q[i].id \in DOMAIN sizes' /\ q[i].chunks = sizes'[q[i].id] /\ q[i].next < q[i].chunks
  BY <1>1, <1>4, <1>9, LenProperties DEF IInv, QueueInv
<1>12. \A id \in DOMAIN sizes : id < cycles /\ id \in Nat
  BY <1>8 DEF IInv, TypeOK
<1>13. \A i, j \in 1 .. Len(q) : i < j => q[i].id < q[j].id
  BY <1>1, <1>4, <1>12 DEF IInv, QueueInv
<1>14. QueueInv'
  <2>1. \A i \in DOMAIN outbox' : i \in Int /\ i + n \in 1 .. Len(q) /\ outbox'[i] = q[i + n]
    BY <1>6, <1>7
  <2>2. DOMAIN q = 1 .. Len(q)
    BY <1>4, LenProperties
  <2>3. \A i, j \in DOMAIN outbox' : i < j => i + n < j + n
    BY <1>6, <2>1
  <2> QED BY <1>11, <1>13, <2>1, <2>2, <2>3 DEF QueueInv
<1>15. \A id, c : ShownWhole(id, c)' <=> ShownWhole(id, c)
  BY DEF ShownWhole
<1>16. \A i \in 1 .. Len(q) : \A c \in 0 .. q[i].next - 1 : ShownWhole(q[i].id, c)
  BY <1>1, <1>4 DEF IInv, ShownInv, AcknowledgedInv
<1>17. AcknowledgedInv'
  <2>1. \A i \in DOMAIN outbox' : i + n \in 1 .. Len(q) /\ outbox'[i] = q[i + n]
    BY <1>6, <1>7
  <2> QED BY <1>15, <1>16, <2>1 DEF AcknowledgedInv
<1>18. BehindQueue'
  <2> DEFINE l == chat[Len(chat)]
  <2>1. chat # <<>> => l.id \in DOMAIN sizes /\ l.id < cycles
    BY <1>12 DEF IInv, BehindQueue
  <2>2. \A i \in DOMAIN outbox' : i + n \in 1 .. Len(q) /\ outbox'[i] = q[i + n]
    BY <1>6, <1>7
  <2>3. ASSUME chat # <<>>, NEW i \in 1 .. Len(q)
        PROVE  l.id < q[i].id \/ (l.id = q[i].id /\ l.chunk <= q[i].next)
    <3>1. CASE i = Len(q)
      BY <1>1, <1>4, <2>1, <2>3, <3>1
    <3>2. CASE i # Len(q)
      <4>1. i \in DOMAIN outbox /\ q[i] = outbox[i]
        BY <1>4, <2>3, <3>2
      <4> QED BY <2>3, <4>1 DEF IInv, BehindQueue
    <3> QED BY <3>1, <3>2
  <2> HIDE DEF l
  <2>4. chat # <<>> => \A i \in DOMAIN outbox' :
          l.id < outbox'[i].id \/ (l.id = outbox'[i].id /\ l.chunk <= outbox'[i].next)
    BY <2>2, <2>3
  <2>5. chat # <<>> => l.id \in DOMAIN sizes'
    BY <1>9, <2>1
  <2> QED BY <2>4, <2>5 DEF BehindQueue, l
<1>19. ChatInOrder'
  BY DEF IInv, ChatInOrder
<1>20. ~(dropped' > dropped) => cycles \in Waiting'
  <2> SUFFICES ASSUME n = 0
               PROVE  cycles \in Waiting'
    BY <1>2, <1>6 DEF IInv, TypeOK
  <2>1. Len(q) \in DOMAIN outbox' /\ outbox'[Len(q)].id = cycles
    BY <1>1, <1>4, <1>6, <1>7
  <2> QED BY <2>1 DEF Waiting
<1>21. NothingVanishes'
  <2> DEFINE D == {q[k].id : k \in 1 .. n}
             f == [k \in 1 .. n |-> q[k].id]
  <2>1. f \in Surjection(1 .. n, D)
    BY DEF Surjection
  <2>2. IsFiniteSet(1 .. n) /\ Cardinality(1 .. n) = n
    BY <1>6, FS_Interval
  <2>3. IsFiniteSet(D) /\ Cardinality(D) <= n
    BY <2>1, <2>2, FS_Surjection
  <2>4. \A id \in DOMAIN sizes : ShownMessage(id) => ShownMessage(id)'
    BY <1>9, <1>15 DEF ShownMessage
  <2>5. Waiting \cup {cycles} \subseteq Waiting' \cup D
    <3> SUFFICES ASSUME NEW i \in 1 .. Len(q), i > n
                 PROVE  q[i].id \in Waiting'
      BY <1>1, <1>4, <1>6 DEF Waiting
    <3>1. i - n \in DOMAIN outbox' /\ outbox'[i - n] = q[i]
      BY <1>6, <1>7
    <3> QED BY <3>1 DEF Waiting
  <2>6. Vanished' \subseteq Vanished \cup D
    BY <1>9, <2>4, <2>5 DEF Vanished
  <2>7. dropped' \in Nat /\ dropped' >= dropped + Cardinality(D)
    BY <1>2, <1>6, <2>3, FS_CardinalityType DEF IInv, TypeOK
  <2> HIDE DEF D
  <2> QED BY <2>3, <2>6, <2>7, VanishedBounded DEF IInv
<1>22. dropped' \in Nat
  BY <1>2, <1>6 DEF IInv, TypeOK
<1>23. \A i \in DOMAIN outbox' : i + n \in 1 .. Len(q) /\ i + n > n /\ outbox'[i] = q[i + n]
  BY <1>6, <1>7
<1>24. Waiting' \subseteq Waiting \cup {cycles}
  <2>1. \A i \in 1 .. Len(q) : i \in DOMAIN outbox \/ i = Len(q)
    BY <1>4
  <2> QED BY <1>1, <1>4, <1>23, <2>1 DEF Waiting
<1>25. ASSUME NEW i \in DOMAIN outbox, outbox[i].id \notin Waiting', NEW j \in DOMAIN outbox'
       PROVE  outbox[i].id < outbox'[j].id
  <2>1. i \in 1 .. Len(q) /\ q[i] = outbox[i]
    BY <1>4
  <2>2. i <= n
    <3> SUFFICES ASSUME i > n
                 PROVE  FALSE
      BY <1>6, <2>1
    <3>1. i - n \in DOMAIN outbox' /\ outbox'[i - n] = q[i]
      BY <1>6, <1>7, <2>1
    <3> QED BY <1>25, <2>1, <3>1 DEF Waiting
  <2>3. j + n \in 1 .. Len(q) /\ i < j + n /\ outbox'[j] = q[j + n]
    BY <1>6, <1>23, <2>1, <2>2
  <2> QED BY <1>13, <2>1, <2>3
<1>26. \A i \in Waiting \ Waiting', j \in Waiting' : i < j
  BY <1>25 DEF Waiting
<1> QED BY <1>7, <1>9, <1>10, <1>14, <1>17, <1>18, <1>19, <1>20, <1>21, <1>22, <1>24, <1>26

\* A drain begins with nothing shown of its first chunk.
LEMMA DrainBegins ==
  ASSUME IInv, NEW reason \in {"start", "cycle", "wait"}, BeginDrain(reason), cycles \in Nat
  PROVE  drain' \in Drain /\ drain'.reason = reason /\ drain'.part = 1 /\ pc' = "draining"
<1>1. CurrentOf(reason) \in Nat \cup {None} /\ SentAtFirst \in Nat /\ 1 \in Nat \ {0}
  BY DEF CurrentOf, SentAtFirst
<1> QED BY <1>1 DEF BeginDrain, Drain

LEMMA FirstPart ==
  ASSUME drain'.part = 1 \/ pc' # "draining", AcknowledgedInv'
  PROVE  ShownInv'
BY DEF ShownInv

\* The measurement is over: its message is queued, or could not be.
LEMMA QueueingKeeps ==
  ASSUME IInv, MessageQueued \/ QueueingFails
  PROVE  IInv'
<1>1. /\ pc = "measuring" /\ UNCHANGED <<cycles, chat>> /\ pc' \in {"waiting", "draining"}
      /\ failed' \in BOOLEAN
  BY DEF MessageQueued, QueueingFails, BeginDrain, IInv, TypeOK
<1>2. CASE UNCHANGED queue /\ QueueingFails
  <2>1. UNCHANGED <<outbox, dropped, sizes>>
    BY <1>2 DEF queue
  <2>2. /\ QueueInv' /\ BehindQueue' /\ ChatInOrder' /\ NothingVanishes' /\ AcknowledgedInv'
    BY <1>1, <1>2, QueueStays
  <2>3. pc' = "waiting" /\ overflowed' = FALSE /\ drain' = drain /\ accepted' = FALSE
        /\ error' = "state-write-failed"
    BY <1>2 DEF QueueingFails
  <2>4. TypeOK'
    BY <1>1, <2>1, <2>3 DEF IInv, TypeOK
  <2>5. ShownInv' /\ VerdictInv'
    BY <2>2, <2>3, FirstPart DEF VerdictInv
  <2>6. StatusIsTrue'
    BY <2>3, DirectAssumption DEF StatusIsTrue
  <2> QED BY <2>2, <2>3, <2>4, <2>5, <2>6 DEF IInv, MeasuringInv
<1>3. CASE \E size \in 1 .. MaxChunks : Enqueue(size)
  <2>1. PICK size \in 1 .. MaxChunks : Enqueue(size)
    BY <1>3
  <2>2. CASE cycles = 0
    <3>1. FALSE
      BY <1>1, <2>2 DEF IInv, MeasuringInv
    <3> QED BY <3>1
  <2>3. CASE cycles # 0
    <3>1. cycles \in 1 .. cycles
      BY <2>3 DEF IInv, TypeOK
    <3>2. /\ outbox' \in Seq(Message) /\ dropped' \in Nat
          /\ sizes' \in [DOMAIN sizes' -> Nat \ {0}] /\ DOMAIN sizes' \subseteq 1 .. cycles
          /\ QueueInv' /\ BehindQueue' /\ ChatInOrder' /\ NothingVanishes' /\ AcknowledgedInv'
          /\ cycles \in DOMAIN sizes'
          /\ ~(dropped' > dropped) => cycles \in Waiting'
      BY <1>1, <2>1, <3>1, EnqueueKeeps
    <3>3. /\ overflowed' \in BOOLEAN /\ drain' \in Drain
          /\ pc' = "draining" => /\ drain'.part = 1 /\ drain'.reason = "cycle"
                                /\ overflowed' = (dropped' > dropped)
          /\ pc' = "waiting" => accepted' = FALSE /\ error' # None
      <4>1. CASE pc' = "draining"
        <5>1. BeginDrain("cycle") /\ overflowed' = (dropped' > dropped)
          BY <4>1 DEF MessageQueued, QueueingFails
        <5> QED BY <4>1, <5>1, DrainBegins DEF IInv, TypeOK
      <4>2. CASE pc' = "waiting"
        <5>1. ASSUME MessageQueued
              PROVE  /\ drain' = drain /\ accepted' = FALSE /\ overflowed' \in BOOLEAN
                     /\ error' \in {"outbox-overflow", "telegram-delivery-failed"}
          <6>1. /\ drain' = drain /\ accepted' = FALSE /\ overflowed' = (dropped' > dropped)
                /\ error' = IF overflowed' THEN "outbox-overflow" ELSE "telegram-delivery-failed"
            BY <4>2, <5>1 DEF MessageQueued, BeginDrain
          <6> QED BY <6>1
        <5>2. ASSUME QueueingFails
              PROVE  /\ drain' = drain /\ accepted' = FALSE /\ overflowed' \in BOOLEAN
                     /\ error' = "state-write-failed"
          BY <5>2 DEF QueueingFails
        <5> QED BY <4>2, <5>1, <5>2, DirectAssumption DEF IInv, TypeOK
      <4> QED BY <1>1, <4>1, <4>2
    <3>4. TypeOK'
      BY <1>1, <3>2, <3>3 DEF IInv, TypeOK
    <3>5. ShownInv' /\ VerdictInv' /\ StatusIsTrue' /\ MeasuringInv'
      BY <1>1, <3>2, <3>3, FirstPart DEF VerdictInv, StatusIsTrue, MeasuringInv
    <3> QED BY <3>2, <3>4, <3>5 DEF IInv
  <2> QED BY <2>2, <2>3
<1> QED BY <1>2, <1>3 DEF MessageQueued, QueueingFails

\* The other steps of the service leave queue and chat alone.
LEMMA ServiceKeeps ==
  ASSUME IInv, Start \/ BeginCycle \/ Wait \/ Crash
  PROVE  IInv'
<1>1. UNCHANGED <<queue, chat>>
  BY DEF Start, BeginCycle, Wait, Crash
<1>2. UNCHANGED <<outbox, dropped, sizes>>
  BY <1>1 DEF queue
<1>3. cycles' \in {cycles, cycles + 1} /\ cycles \in Nat /\ (pc' = "measuring" => cycles' = cycles + 1)
  BY DEF Start, BeginCycle, Wait, Crash, BeginDrain, IInv, TypeOK
<1>4. pc' = "measuring" => cycles' \notin DOMAIN sizes
  BY <1>3 DEF IInv, TypeOK
<1>5. /\ QueueInv' /\ BehindQueue' /\ ChatInOrder' /\ NothingVanishes' /\ AcknowledgedInv'
      /\ \A id : ShownMessage(id)' <=> ShownMessage(id)
  BY <1>1, <1>4, QueueStays
<1>6. MeasuringInv'
  BY <1>3 DEF MeasuringInv
<1>7. CASE BeginDrain("start") \/ BeginDrain("wait")
  <2>1. drain' \in Drain /\ drain'.reason \in {"start", "wait"} /\ drain'.part = 1 /\ pc' = "draining"
    BY <1>3, <1>7, DrainBegins
  <2>2. /\ drain'.reason = "wait" => pc = "waiting" /\ outbox # <<>>
        /\ UNCHANGED <<failed, overflowed, accepted, cycles>>
    BY <1>7, <2>1 DEF Start, BeginCycle, Wait, Crash, BeginDrain, Backlog
  <2>3. TypeOK'
    BY <1>1, <1>2, <2>1, <2>2 DEF IInv, TypeOK
  <2>4. ShownInv' /\ StatusIsTrue'
    BY <1>5, <2>1, FirstPart DEF StatusIsTrue
  <2>5. VerdictInv'
    BY <2>1, <2>2 DEF VerdictInv, IInv, StatusIsTrue
  <2> QED BY <1>5, <1>6, <2>3, <2>4, <2>5 DEF IInv
<1>8. CASE drain' = drain /\ pc' # "draining"
  <2>1. /\ pc' \in {"starting", "ready", "measuring", "waiting"}
        /\ failed' \in BOOLEAN /\ overflowed' \in BOOLEAN
        /\ pc' = "waiting" => pc = "waiting" /\ UNCHANGED <<cycles, accepted, error, failed>>
    BY <1>8 DEF Start, BeginCycle, Wait, Crash, BeginDrain, IInv, TypeOK
  <2>2. TypeOK'
    <3>1. cycles' \in Nat /\ DOMAIN sizes \subseteq 1 .. cycles'
      BY <1>3 DEF IInv, TypeOK
    <3> QED BY <1>1, <1>2, <1>8, <2>1, <3>1 DEF IInv, TypeOK
  <2>3. ShownInv' /\ VerdictInv'
    BY <1>5, <1>8, FirstPart DEF VerdictInv
  <2>4. StatusIsTrue'
    BY <1>2, <1>5, <2>1 DEF IInv, StatusIsTrue
  <2> QED BY <1>5, <1>6, <2>2, <2>3, <2>4 DEF IInv
<1> QED BY <1>7, <1>8 DEF Start, BeginCycle, Wait, Crash, BeginDrain, IInv, TypeOK

-----------------------------------------------------------------------------
(* The theorems.                                                           *)

LEMMA InitInv == Init => IInv
<1> SUFFICES ASSUME Init PROVE IInv
  OBVIOUS
<1> USE DEF Init
<1>1. <<>> \in Seq(Message) /\ <<>> \in Seq(Piece) /\ Len(<<>>) = 0 /\ DOMAIN <<>> = {}
  BY EmptySeq
<1>2. drain \in Drain
  BY DEF Drain
<1>3. TypeOK
  <2>1. sizes \in [DOMAIN sizes -> Nat \ {0}] /\ DOMAIN sizes \subseteq 1 .. cycles
    BY <1>1
  <2> QED BY <1>1, <1>2, <2>1 DEF TypeOK
<1>4. QueueInv /\ AcknowledgedInv /\ ShownInv /\ BehindQueue /\ MeasuringInv
  BY <1>1 DEF QueueInv, AcknowledgedInv, ShownInv, BehindQueue, MeasuringInv
<1>5. ChatInOrder
  BY <1>1 DEF ChatInOrder
<1>6. VerdictInv /\ StatusIsTrue
  BY DEF VerdictInv, StatusIsTrue
<1>7. NothingVanishes
  <2>1. Vanished = {}
    BY <1>1 DEF Vanished
  <2> QED BY <2>1, FS_EmptySet DEF NothingVanishes, Vanished
<1> QED BY <1>3, <1>4, <1>5, <1>6, <1>7 DEF IInv

LEMMA InvInductive ==
  ASSUME IInv, [Next]_vars
  PROVE  IInv'
<1>1. CASE UNCHANGED vars
  <2>1. UNCHANGED <<queue, service, chat>>
    BY <1>1 DEF vars
  <2>2. /\ QueueInv' /\ BehindQueue' /\ ChatInOrder' /\ NothingVanishes' /\ AcknowledgedInv'
        /\ \A id : ShownMessage(id)' <=> ShownMessage(id)
    BY <2>1, QueueStays DEF service, IInv, QueueInv
  <2>3. TypeOK' /\ ShownInv' /\ MeasuringInv'
    BY <2>1, <2>2 DEF service, queue, IInv, TypeOK, ShownInv, MeasuringInv, Late, Copies
  <2>4. VerdictInv' /\ StatusIsTrue'
    BY <2>1, <2>2 DEF service, queue, IInv, VerdictInv, StatusIsTrue, CycleDelivered, Waiting
  <2> QED BY <2>2, <2>3, <2>4 DEF IInv
<1>2. CASE Next
  BY <1>2, SendKeeps, AcknowledgeKeeps, DrainOverKeeps, QueueingKeeps, ServiceKeeps
     DEF Next, Draining, Cycling
<1> QED BY <1>1, <1>2

\* The invariant holds in every reachable state.
THEOREM InvHolds == Spec => []IInv
BY InitInv, InvInductive, PTL DEF Spec

\* Nothing disappears silently, whatever the sizes of the queue and of its
\* messages: what no longer waits was shown whole or is counted as dropped.
THEOREM NoSilentLoss == Spec => []NothingVanishes
<1>1. IInv => NothingVanishes
  BY DEF IInv
<1> QED BY <1>1, InvHolds, PTL

\* The chat shows messages and chunks in the order of the queue.
THEOREM ChatFollowsQueue == Spec => []ChatInOrder
<1>1. IInv => ChatInOrder
  BY DEF IInv
<1> QED BY <1>1, InvHolds, PTL

\* What the status says between cycles is so.
THEOREM StatusHolds == Spec => []StatusIsTrue
<1>1. IInv => StatusIsTrue
  BY DEF IInv
<1> QED BY <1>1, InvHolds, PTL

-----------------------------------------------------------------------------
(* The queue and its drains are an ordered outbox.                         *)

\* What OrderedOutbox sees of the queue and the chat.
Seen == <<DOMAIN sizes, [id \in Waiting |-> sizes[id]], Vanished, ShownChunks>>

\* The chat shows only what was queued.
ChatKnown == \A m \in Copies : m.id \in DOMAIN sizes

LEMMA ShownPairs ==
  /\ \A p : p \in ShownChunks <=>
       \E id \in DOMAIN sizes : \E c \in 0 .. sizes[id] - 1 : p = <<id, c>> /\ ShownWhole(id, c)
  /\ \A p : p \in ShownChunks' <=>
       \E id \in DOMAIN sizes' : \E c \in 0 .. sizes'[id] - 1 : p = <<id, c>> /\ ShownWhole(id, c)'
BY DEF ShownChunks

LEMMA MessageShown ==
  ASSUME NEW id \in DOMAIN sizes
  PROVE  ShownMessage(id) <=> \A c \in 0 .. sizes[id] - 1 : <<id, c>> \in ShownChunks
<1>1. \A c : <<id, c>> \in ShownChunks <=> c \in 0 .. sizes[id] - 1 /\ ShownWhole(id, c)
  <2> TAKE c
  <2>1. ASSUME <<id, c>> \in ShownChunks
        PROVE  c \in 0 .. sizes[id] - 1 /\ ShownWhole(id, c)
    <3>1. PICK i \in DOMAIN sizes : \E b \in 0 .. sizes[i] - 1 :
                 <<id, c>> = <<i, b>> /\ ShownWhole(i, b)
      BY <2>1, ShownPairs
    <3>2. PICK b \in 0 .. sizes[i] - 1 : <<id, c>> = <<i, b>> /\ ShownWhole(i, b)
      BY <3>1
    <3>3. i = id /\ b = c
      BY <3>2
    <3> QED BY <3>2, <3>3
  <2>2. ASSUME c \in 0 .. sizes[id] - 1, ShownWhole(id, c)
        PROVE  <<id, c>> \in ShownChunks
    BY <2>2, ShownPairs
  <2> QED BY <2>1, <2>2
<1> QED BY <1>1 DEF ShownMessage

\* A step that the reader of the chat does not notice.
LEMMA UnseenStep ==
  ASSUME UNCHANGED <<sizes, chat>>, Waiting' = Waiting
  PROVE  UNCHANGED Seen
<1>1. \A id, c : ShownWhole(id, c)' <=> ShownWhole(id, c)
  BY DEF ShownWhole
<1>2. \A id : ShownMessage(id)' <=> ShownMessage(id)
  BY <1>1 DEF ShownMessage
<1>3. Vanished' = Vanished
  BY <1>2 DEF Vanished
<1>4. ShownChunks' = ShownChunks
  BY <1>1 DEF ShownChunks
<1> QED BY <1>3, <1>4 DEF Seen

\* A part that is sent completes the head's next chunk or none.
LEMMA SendingIsShowing ==
  ASSUME IInv, Sending, ~AllSent, Show, UNCHANGED queue
  PROVE  [Delivery!Next]_Seen
<1> PICK i, c : i = outbox[1].id /\ c = outbox[1].next
  OBVIOUS
<1> DEFINE m == Copy(i, c, drain.part, Late)
<1>1. outbox # <<>> /\ chat \in Seq(Piece) /\ UNCHANGED <<outbox, sizes>>
  BY DEF Sending, IInv, TypeOK, queue
<1>2. /\ Head(outbox) = outbox[1] /\ 1 \in DOMAIN outbox /\ outbox[1] \in Message
      /\ DOMAIN outbox = 1 .. Len(outbox)
  BY <1>1, Head1
<1>3. /\ i \in Waiting /\ i \in DOMAIN sizes /\ c \in 0 .. sizes[i] - 1
      /\ \A j \in Waiting : ~(j < i)
      /\ \A b \in 0 .. c - 1 : ShownWhole(i, b)
  <2>1. i \in Waiting /\ i \in DOMAIN sizes /\ c \in Nat /\ c < sizes[i] /\ sizes[i] \in Nat
    BY <1>2 DEF IInv, TypeOK, QueueInv, Waiting, Message
  <2>2. \A k \in DOMAIN outbox : ~(outbox[k].id < i)
    <3> SUFFICES ASSUME NEW k \in DOMAIN outbox
                 PROVE  ~(outbox[k].id < i)
      OBVIOUS
    <3>1. outbox[k] \in Message /\ k \in 1 .. Len(outbox) /\ Len(outbox) \in Nat
      BY <1>2 DEF IInv, TypeOK
    <3>2. k = 1 \/ 1 < k
      BY <3>1
    <3>3. 1 < k => outbox[1].id < outbox[k].id
      BY <1>2 DEF IInv, QueueInv
    <3>4. outbox[k].id \in Nat /\ i \in Nat
      BY <1>2, <3>1 DEF Message
    <3> QED BY <3>2, <3>3, <3>4
  <2>3. \A b \in 0 .. c - 1 : ShownWhole(i, b)
    BY <1>2 DEF IInv, ShownInv, AcknowledgedInv
  <2>4. \A j \in Waiting : ~(j < i)
    BY <2>2 DEF Waiting
  <2> QED BY <2>1, <2>3, <2>4
<1>4. Copies' = Copies \cup {m}
  <2>1. m \in Piece /\ chat' = Append(chat, m)
    BY <1>2 DEF Late, Show, Copy, Piece, Message, IInv, TypeOK, Drain
  <2> HIDE DEF m
  <2>2. /\ Len(chat') = Len(chat) + 1 /\ Len(chat) \in Nat /\ DOMAIN chat' = 1 .. Len(chat')
        /\ DOMAIN chat = 1 .. Len(chat)
        /\ chat'[Len(chat')] = m /\ \A k \in 1 .. Len(chat) : chat'[k] = chat[k]
    BY <1>1, <2>1, AppendProperties, LenProperties
  <2>3. DOMAIN chat' = DOMAIN chat \cup {Len(chat')}
    BY <2>2
  <2> QED BY <2>2, <2>3 DEF Copies
<1>5. \A id, b : /\ ShownWhole(id, b) => ShownWhole(id, b)'
                 /\ ShownWhole(id, b)' => ShownWhole(id, b) \/ (id = i /\ b = c)
  BY <1>4 DEF ShownWhole, Copies, Copy
<1>6. Waiting' = Waiting /\ Vanished' = Vanished
  <2>1. Waiting' = Waiting
    BY <1>1 DEF Waiting
  <2>2. \A id \in DOMAIN sizes : id # i => (ShownMessage(id)' <=> ShownMessage(id))
    BY <1>1, <1>5 DEF ShownMessage
  <2> QED BY <1>1, <1>3, <2>1, <2>2 DEF Vanished
<1>7. CASE ShownWhole(i, c)' <=> ShownWhole(i, c)
  <2>1. \A id, b : ShownWhole(id, b)' <=> ShownWhole(id, b)
    BY <1>5, <1>7
  <2>2. ShownChunks' = ShownChunks
    BY <1>1, <2>1 DEF ShownChunks
  <2> QED BY <1>1, <1>6, <2>2 DEF Seen
<1>8. CASE ShownWhole(i, c)' /\ ~ShownWhole(i, c)
  <2>1. ShownChunks' = ShownChunks \cup {<<i, c>>}
    <3>1. \A p \in ShownChunks' : p \in ShownChunks \/ p = <<i, c>>
      BY <1>1, <1>5, ShownPairs
    <3>2. \A p \in ShownChunks : p \in ShownChunks'
      BY <1>1, <1>5, ShownPairs
    <3>3. <<i, c>> \in ShownChunks'
      BY <1>1, <1>3, <1>8, ShownPairs
    <3> QED BY <3>1, <3>2, <3>3
  <2>2. <<i, c>> \notin ShownChunks
    BY <1>8, ShownPairs
  <2>3. \A b \in 0 .. c - 1 : <<i, b>> \in ShownChunks
    <3>1. sizes[i] \in Nat
      BY <1>3 DEF IInv, TypeOK
    <3>2. \A b \in 0 .. c - 1 : b \in 0 .. sizes[i] - 1
      BY <1>3, <3>1
    <3> QED BY <1>3, <3>2, ShownPairs
  <2>4. Delivery!Show(i, c)
    BY <1>1, <1>3, <1>6, <2>1, <2>2, <2>3 DEF Delivery!Show, Vanished
  <2> QED BY <1>3, <2>4 DEF Delivery!Next
<1> QED BY <1>5, <1>7, <1>8

\* A message leaves when its last chunk is acknowledged.
LEMMA AcknowledgedIds ==
  ASSUME IInv, Acknowledge
  PROVE  Waiting' = IF Finished(Head(outbox)) THEN Waiting \ {outbox[1].id} ELSE Waiting
<1>1. /\ outbox # <<>> /\ outbox' = Acknowledged
  BY DEF Acknowledge, Sending
<1>2. /\ Head(outbox) = outbox[1] /\ 1 \in DOMAIN outbox /\ outbox[1] \in Message
      /\ Len(outbox) \in Nat /\ DOMAIN outbox = 1 .. Len(outbox)
  BY <1>1, Head1
<1>3. CASE Finished(Head(outbox))
  <2>1. /\ Len(outbox') = Len(outbox) - 1 /\ DOMAIN outbox' = 1 .. Len(outbox')
        /\ \A i \in 1 .. Len(outbox') : outbox'[i] = outbox[i + 1]
    BY <1>1, <1>3, HeadTailProperties, LenProperties DEF Acknowledged, IInv, TypeOK
  <2>2. \A i \in DOMAIN outbox' : i + 1 \in DOMAIN outbox /\ i + 1 # 1
    BY <1>2, <2>1
  <2>3. \A i \in DOMAIN outbox : i # 1 => i - 1 \in DOMAIN outbox' /\ outbox'[i - 1] = outbox[i]
    BY <1>2, <2>1
  <2>4. \A i \in DOMAIN outbox : i # 1 => outbox[i].id # outbox[1].id
    BY <1>2 DEF IInv, QueueInv, TypeOK
  <2>5. ASSUME NEW w \in Waiting'
        PROVE  w \in Waiting \ {outbox[1].id}
    <3>1. PICK i \in DOMAIN outbox' : w = outbox'[i].id
      BY DEF Waiting
    <3>2. i + 1 \in DOMAIN outbox /\ i + 1 # 1 /\ outbox'[i] = outbox[i + 1]
      BY <2>1, <2>2
    <3> QED BY <2>4, <3>1, <3>2 DEF Waiting
  <2>6. ASSUME NEW w \in Waiting, w # outbox[1].id
        PROVE  w \in Waiting'
    <3>1. PICK i \in DOMAIN outbox : w = outbox[i].id
      BY DEF Waiting
    <3> QED BY <2>3, <2>6, <3>1 DEF Waiting
  <2> QED BY <1>3, <2>5, <2>6
<1>4. CASE ~Finished(Head(outbox))
  <2> DEFINE m == [outbox[1] EXCEPT !.next = @ + 1]
  <2>1. m \in Message /\ m.id = outbox[1].id
    BY <1>2 DEF Message
  <2>2. outbox' = [outbox EXCEPT ![1] = m]
    BY <1>1, <1>2, <1>4 DEF Acknowledged
  <2> HIDE DEF m
  <2>3. DOMAIN outbox' = DOMAIN outbox /\ \A i \in DOMAIN outbox : outbox'[i].id = outbox[i].id
    BY <1>2, <2>1, <2>2
  <2>4. Waiting' = Waiting
    BY <2>3 DEF Waiting
  <2> QED BY <1>4, <2>4
<1> QED BY <1>3, <1>4

LEMMA AcknowledgingIsDelivering ==
  ASSUME IInv, Acknowledge
  PROVE  [Delivery!Next]_Seen
<1> PICK i : i = outbox[1].id
  OBVIOUS
<1>1. /\ pc = "draining" /\ Sending /\ AllSent /\ outbox # <<>> /\ UNCHANGED <<sizes, chat>>
  BY DEF Acknowledge, Sending
<1>2. /\ Head(outbox) = outbox[1] /\ 1 \in DOMAIN outbox /\ outbox[1] \in Message
  BY <1>1, Head1
<1>3. CASE ~Finished(Head(outbox))
  BY <1>1, <1>3, AcknowledgedIds, UnseenStep
<1>4. CASE Finished(Head(outbox))
  <2>1. Waiting' = Waiting \ {i} /\ i \in Waiting /\ i \in DOMAIN sizes
    BY <1>2, <1>4, AcknowledgedIds DEF Waiting, IInv, QueueInv
  <2>2. ShownMessage(i)
    <3>1. sizes[i] = outbox[1].next + 1 /\ outbox[1].next \in Nat
      BY <1>2, <1>4 DEF IInv, QueueInv, Finished, Message
    <3>2. \A c \in 0 .. outbox[1].next - 1 : ShownWhole(i, c)
      BY <1>2 DEF IInv, ShownInv, AcknowledgedInv
    <3>3. ShownWhole(i, outbox[1].next)
      BY <1>1, HeadShownWhole
    <3> QED BY <3>1, <3>2, <3>3 DEF ShownMessage
  <2>3. \A id, c : ShownWhole(id, c)' <=> ShownWhole(id, c)
    BY <1>1 DEF ShownWhole
  <2>4. Vanished' = Vanished
    BY <1>1, <2>1, <2>2, <2>3 DEF Vanished, ShownMessage
  <2>5. ShownChunks' = ShownChunks
    BY <1>1, <2>3 DEF ShownChunks
  <2>6. \A c \in 0 .. sizes[i] - 1 : <<i, c>> \in ShownChunks
    BY <2>1, <2>2, MessageShown
  <2>7. Delivery!Deliver(i)
    BY <1>1, <2>1, <2>4, <2>5, <2>6
       DEF Delivery!Deliver, Delivery!ShownWhole, Delivery!Without, Vanished
  <2> QED BY <2>1, <2>7 DEF Delivery!Next
<1> QED BY <1>3, <1>4

\* A message that is queued has the highest number so far, and pushes out only the
\* oldest ones.
LEMMA QueueingIsTakingIn ==
  ASSUME IInv, ChatKnown, pc = "measuring", NEW size \in 1 .. MaxChunks, Enqueue(size),
         UNCHANGED <<chat, cycles>>, pc' # "measuring"
  PROVE  [Delivery!Next]_Seen /\ ChatKnown'
<1>1. cycles \in 1 .. cycles /\ cycles \notin DOMAIN sizes /\ size \in Nat \ {0}
  BY DirectAssumption DEF IInv, TypeOK, MeasuringInv, QueueInv
<1>2. /\ Waiting' \subseteq Waiting \cup {cycles}
      /\ \A i \in Waiting \ Waiting', j \in Waiting' : i < j
  BY <1>1, EnqueueKeeps
<1>3. /\ DOMAIN sizes' = DOMAIN sizes \cup {cycles} /\ sizes'[cycles] = size
      /\ \A id \in DOMAIN sizes : sizes'[id] = sizes[id]
  BY <1>1 DEF Enqueue
<1>4. /\ \A id, c : ShownWhole(id, c)' <=> ShownWhole(id, c)
      /\ \A c : ~ShownWhole(cycles, c)
  <2>1. \A m \in Copies : m.id # cycles
    BY <1>1 DEF ChatKnown
  <2>2. 1 \in 1 .. LateParts
    BY DirectAssumption
  <2>3. \A c : ~ShownWhole(cycles, c)
    BY <2>1, <2>2 DEF ShownWhole, Copies
  <2> QED BY <2>3 DEF ShownWhole
<1>5. ShownChunks' = ShownChunks
  BY <1>3, <1>4, ShownPairs
<1>6. Waiting \subseteq DOMAIN sizes
  BY DEF IInv, QueueInv, Waiting
<1>7. /\ \A id \in DOMAIN sizes : ShownMessage(id)' <=> ShownMessage(id)
      /\ ~ShownMessage(cycles)'
  BY <1>1, <1>3, <1>4 DEF ShownMessage
<1>8. /\ Vanished \subseteq Vanished'
      /\ Vanished' \ Vanished \subseteq (Waiting \ Waiting') \cup {cycles}
      /\ \A id \in Waiting \ Waiting' : ShownMessage(id) \/ id \in Vanished'
      /\ cycles \notin Waiting' => cycles \in Vanished'
  BY <1>1, <1>2, <1>3, <1>6, <1>7 DEF Vanished
<1>9. \A id \in DOMAIN sizes : id < cycles
  BY <1>1 DEF IInv, TypeOK
<1>10. Delivery!New = {cycles} /\ Delivery!Entered \subseteq {cycles}
       /\ {cycles} \ Delivery!Entered \subseteq Vanished'
  BY <1>1, <1>2, <1>3, <1>6, <1>8 DEF Delivery!New, Delivery!Entered
<1>11. Delivery!Left = Waiting \ Waiting' /\ Delivery!SameChunks
  BY <1>3, <1>6 DEF Delivery!Left, Delivery!SameChunks
<1>12. \A i \in Waiting \ Waiting' : Delivery!ShownWhole(i) \/ i \in Vanished'
  BY <1>6, <1>8, MessageShown DEF Delivery!ShownWhole
<1>13. Delivery!TakeIn
  BY <1>2, <1>3, <1>5, <1>8, <1>9, <1>10, <1>11, <1>12 DEF Delivery!TakeIn, Vanished
<1>14. ChatKnown'
  BY <1>3 DEF ChatKnown, Copies
<1> QED BY <1>13, <1>14 DEF Delivery!Next

\* Every step of the service.
LEMMA NextIsDelivery ==
  ASSUME IInv, ChatKnown, [Next]_vars
  PROVE  [Delivery!Next]_Seen /\ ChatKnown'
<1>1. CASE UNCHANGED <<queue, chat>>
  <2>1. UNCHANGED <<outbox, sizes, chat>>
    BY <1>1 DEF queue
  <2> QED BY <2>1, UnseenStep DEF Waiting, ChatKnown, Copies
<1>2. CASE Sending /\ ~AllSent /\ Show /\ UNCHANGED queue
  <2>1. outbox # <<>> /\ sizes' = sizes
    BY <1>2 DEF Sending, queue
  <2>2. outbox[1].id \in DOMAIN sizes /\ Head(outbox) = outbox[1]
    BY <2>1, Head1 DEF IInv, QueueInv
  <2>3. \A m \in Copies' : m \in Copies \/ m.id = outbox[1].id
    BY <1>2, <2>2, AppendProperties DEF Copies, Show, IInv, TypeOK
  <2> QED BY <1>2, <2>1, <2>2, <2>3, SendingIsShowing DEF ChatKnown
<1>3. CASE Acknowledge
  <2>1. UNCHANGED <<sizes, chat>>
    BY <1>3 DEF Acknowledge
  <2> QED BY <1>3, <2>1, AcknowledgingIsDelivering DEF ChatKnown, Copies
<1>4. CASE /\ pc = "measuring" /\ pc' # "measuring" /\ UNCHANGED <<chat, cycles>>
           /\ \E size \in 1 .. MaxChunks : Enqueue(size)
  BY <1>4, QueueingIsTakingIn
<1>5. Next => \/ UNCHANGED <<queue, chat>>
              \/ Sending /\ ~AllSent /\ Show /\ UNCHANGED queue
              \/ Acknowledge
              \/ /\ pc = "measuring" /\ pc' # "measuring" /\ UNCHANGED <<chat, cycles>>
                 /\ \E size \in 1 .. MaxChunks : Enqueue(size)
  BY DEF Next, Draining, Cycling, SendPart, AnswerLost, DrainEnds, DrainFails, Start, BeginCycle,
     MessageQueued, QueueingFails, Wait, Crash, BeginDrain
<1> QED BY <1>1, <1>2, <1>3, <1>4, <1>5 DEF vars

\* The queue and its drains implement OrderedOutbox: seen through the waiting
\* messages, the dropped ones and the chunks the chat shows whole, every step takes
\* a message in, shows the next chunk of the oldest, delivers it, or is not seen at
\* all, for queues and messages of any size and any faults.
THEOREM ServiceDelivers == Spec => DeliversInOrder
<1>1. Init => Delivery!Init /\ ChatKnown
  <2> SUFFICES ASSUME Init
               PROVE  Delivery!Init /\ ChatKnown
    OBVIOUS
  <2>1. DOMAIN sizes = {} /\ DOMAIN outbox = {} /\ DOMAIN chat = {}
    BY EmptySeq DEF Init
  <2>2. Waiting = {} /\ Vanished = {} /\ Copies = {}
    BY <2>1 DEF Waiting, Vanished, Copies
  <2>3. ShownChunks = {}
    BY <2>1, ShownPairs
  <2> QED BY <2>1, <2>2, <2>3 DEF Delivery!Init, ChatKnown, Vanished
<1>2. IInv /\ ChatKnown /\ [Next]_vars => [Delivery!Next]_Seen /\ ChatKnown'
  BY NextIsDelivery
<1> QED BY <1>1, <1>2, InvHolds, PTL DEF Spec, DeliversInOrder, Delivery!Spec, Seen, Vanished

=============================================================================
