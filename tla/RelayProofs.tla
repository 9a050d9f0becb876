---------------------------- MODULE RelayProofs ----------------------------
(***************************************************************************)
(* The safety of the relay for every number of users, connections and      *)
(* messages, every fault and every bound.                                  *)
(***************************************************************************)
EXTENDS RelayProperties, FiniteSetTheorems, TLAPS

USE RelayConstants

-----------------------------------------------------------------------------
(* Frames.                                                                 *)

\* A letter is a frame about a message.
LEMMA LetterMsg == \A f \in Letter : f[2] \in Msg /\ f \in Frame /\ f # NoFrame
  BY DEF Letter, Frame, NoFrame

\* A receipt is a frame about a message.
LEMMA ReceiptMsg == \A f \in Receipt : f[2] \in Msg /\ f \in Frame /\ f # NoFrame
  BY DEF Receipt, Kind, Frame, NoFrame

\* The tick of a message is a receipt about it, whatever kinds peers send.
LEMMA TickIsReceipt == \A m \in Msg : Tick(m) \in Receipt /\ Tick(m)[2] = m
  BY DEF Tick, Receipt, Kind

\* Letters, ticks, the other receipts and no frame at all are different things.
LEMMA FramesDiffer ==
    /\ Letter \cap Receipt = {}
    /\ NoFrame \notin Letter \cup Receipt
    /\ \A k \in PeerKind, m, n \in Msg : <<k, m>> # Tick(n) /\ <<k, m>> \in Receipt
    /\ \A m, n \in Msg : Tick(m) = Tick(n) => m = n
  BY DEF Letter, Receipt, Kind, NoFrame, Tick

-----------------------------------------------------------------------------
(* Types, and what a coroutine has in hand.                                *)

\* A push that starts leaves the coroutine's variables in their types.
LEMMA StartPushType ==
    ASSUME TypeOK, NEW s \in Sock, NEW u, NEW l \in PushPc, StartPush(s, u, l)
    PROVE  /\ todo' \in [Sock -> SUBSET Sock]
           /\ failed' \in [Sock -> SUBSET Sock]
           /\ sent' \in [Sock -> BOOLEAN]
           /\ pc' \in [Sock -> Point]
  <1>1. Conns(u) \subseteq Sock
    BY DEF Conns, TypeOK
  <1>2. todo' \in [Sock -> SUBSET Sock] /\ failed' \in [Sock -> SUBSET Sock]
    BY <1>1 DEF TypeOK, StartPush
  <1>3. sent' \in [Sock -> BOOLEAN]
    BY DEF TypeOK, StartPush
  <1> QED
    BY <1>2, <1>3 DEF TypeOK, StartPush, Goto, PushPc, Point

\* The initial state is well typed, with every coroutine off.
LEMMA InitType == Init => TypeOK /\ Working
  BY DEF Init, TypeOK, Working, Frame, Point

\* Every step keeps every variable in its type.
LEMMA NextType == TypeOK /\ Working /\ [Next]_vars => TypeOK'
  <1> SUFFICES ASSUME TypeOK, Working, [Next]_vars PROVE TypeOK'
    OBVIOUS
  <1> USE DEF TypeOK, Working, Point, pushing, memory, db, ids, clients
  <1>1. ASSUME NEW s \in Sock, Connect(s) PROVE TypeOK'
    BY <1>1 DEF Connect, At, Goto
  <1>2. ASSUME NEW s \in Sock, FlushSelect(s) PROVE TypeOK'
    BY <1>2 DEF FlushSelect, At, Goto, Listing, Letter
  <1>3. ASSUME NEW s \in Sock, NEW f \in Letter, FlushMessage(s, f) PROVE TypeOK'
    <2> USE <1>3 DEF FlushMessage, FlushRow, At
    <2>1. CASE Conns(Owner[s]) = {}
      BY <2>1
    <2>2. CASE Conns(Owner[s]) # {}
      <3>1. f \in Frame
        BY LetterMsg, ReceiptMsg
      <3>2. StartPush(s, Owner[s], "push_flush")
        BY <2>2
      <3>3. cur' \in [Sock -> Frame] /\ batch' \in [Sock -> SUBSET (Letter \cup Receipt)]
        BY <2>2, <3>1 DEF Work
      <3> HIDE DEF FlushRow, FlushMessage
      <3>4. UNCHANGED <<link, memory, db, ids, clients>>
        BY DEF FlushRow, FlushMessage
      <3> QED
        BY <3>2, <3>3, <3>4, StartPushType DEF PushPc
    <2> QED
      BY <2>1, <2>2
  <1>4. ASSUME NEW s \in Sock, NEW r \in Receipt, FlushReceipt(s, r) PROVE TypeOK'
    <2> USE <1>4 DEF FlushReceipt, FlushRow, At
    <2>1. CASE Conns(Owner[s]) = {}
      BY <2>1
    <2>2. CASE Conns(Owner[s]) # {}
      <3>1. r \in Frame
        BY LetterMsg, ReceiptMsg
      <3>2. StartPush(s, Owner[s], "push_rflush")
        BY <2>2
      <3>3. cur' \in [Sock -> Frame] /\ batch' \in [Sock -> SUBSET (Letter \cup Receipt)]
        BY <2>2, <3>1 DEF Work
      <3> HIDE DEF FlushRow, FlushReceipt
      <3>4. UNCHANGED <<link, memory, db, ids, clients>>
        BY DEF FlushRow, FlushReceipt
      <3> QED
        BY <3>2, <3>3, <3>4, StartPushType DEF PushPc
    <2> QED
      BY <2>1, <2>2
  <1>5. ASSUME NEW s \in Sock, FlushSelectReceipts(s) PROVE TypeOK'
    BY <1>5 DEF FlushSelectReceipts, At, Goto, Listing
  <1>6. ASSUME NEW s \in Sock, FlushEnd(s) PROVE TypeOK'
    BY <1>6 DEF FlushEnd, At, Goto, Forget
  <1>7. ASSUME NEW s \in Sock, MessageFlushed(s) PROVE TypeOK'
    BY <1>7 DEF MessageFlushed, FlushPushed, PushReturns, At, Goto, Work,
       Frame
  <1>8. ASSUME NEW s \in Sock, ReceiptFlushed(s) PROVE TypeOK'
    BY <1>8 DEF ReceiptFlushed, FlushPushed, PushReturns, At, Goto, Work,
       Frame
  <1>9. ASSUME NEW s \in Sock, NEW w \in Sock, PushWrite(s, w) PROVE TypeOK'
    <2> USE <1>9 DEF PushWrite
    <2>1. have' \subseteq Msg /\ seen' \subseteq Receipt /\ named' \subseteq Receipt
      BY LetterMsg DEF Deliver
    <2>2. shown' \in [Sock -> SUBSET Frame]
      BY DEF Deliver
    <2>3. todo' \in [Sock -> SUBSET Sock] /\ failed' \in [Sock -> SUBSET Sock]
      OBVIOUS
    <2>4. sent' \in [Sock -> BOOLEAN]
      OBVIOUS
    <2> HIDE DEF PushWrite
    <2>5. UNCHANGED <<link, pc, cur, batch, memory, db, holds, acked, told>>
      BY DEF PushWrite
    <2> QED
      BY <2>1, <2>2, <2>3, <2>4, <2>5
  <1>10. ASSUME NEW s \in Sock, ExpectAck(s) PROVE TypeOK'
    BY <1>10 DEF ExpectAck, PushReturns, At, Goto
  <1>11. ASSUME NEW s \in Sock, PushFailed(s) PROVE TypeOK'
    BY <1>11 DEF PushFailed, PushReturns, Resume, At, Goto, Work, Frame
  <1>12. ASSUME NEW s \in Sock, LivePushed(s) PROVE TypeOK'
    BY <1>12 DEF LivePushed, PushReturns, Resume, Forget, At, Goto, Work,
       Frame
  <1>13. ASSUME NEW s \in Sock, TellStored(s) PROVE TypeOK'
    BY <1>13, LetterMsg DEF TellStored, At, Goto
  <1>14. ASSUME NEW s \in Sock, RouteOnline(s) PROVE TypeOK'
    BY <1>14 DEF RouteOnline, StartPush, At, Goto, Conns
  <1>15. ASSUME NEW s \in Sock, RouteOffline(s) PROVE TypeOK'
    BY <1>15 DEF RouteOffline, Resume, At, Goto, Work, Frame
  <1>16. ASSUME NEW s \in Sock, Acked(s) PROVE TypeOK'
    BY <1>16 DEF Acked, At, Goto
  <1>17. ASSUME NEW s \in Sock, AckTimeout(s) PROVE TypeOK'
    BY <1>17 DEF AckTimeout, Resume, At, Goto, Work, Frame
  <1>18. ASSUME NEW s \in Sock, DeleteLoad(s) PROVE TypeOK'
    BY <1>18 DEF DeleteLoad, Resume, At, Goto, Work, Frame
  <1>19. ASSUME NEW s \in Sock, DeleteCommit(s) PROVE TypeOK'
    BY <1>19 DEF DeleteCommit, Resume, At, Goto, Work, Frame
  <1>20. ASSUME NEW s \in Sock, PopLoad(s) PROVE TypeOK'
    BY <1>20 DEF PopLoad, OweTick, Resume, At, Goto, Work, Frame
  <1>21. ASSUME NEW s \in Sock, PopCommit(s) PROVE TypeOK'
    <2> USE <1>21 DEF PopCommit, At
    <2>1. cur[s][2] \in Msg
      BY TickIsReceipt
    <2>2. racked' \subseteq Msg
      BY <2>1 DEF Remember
    <2>3. pc' \in [Sock -> Point] /\ cur' \in [Sock -> Frame]
      BY DEF OweTick, Resume, Goto, Work, Frame
    <2> QED
      BY <2>2, <2>3
  <1>22. ASSUME NEW s \in Sock, ConsumeTick(s) PROVE TypeOK'
    BY <1>22 DEF ConsumeTick, Resume, At, Goto, Work, Frame
  <1>23. ASSUME NEW s \in Sock, StoreReceipt(s) PROVE TypeOK'
    BY <1>23 DEF StoreReceipt, At, Goto
  <1>24. ASSUME NEW s \in Sock, Reselect(s) PROVE TypeOK'
    BY <1>24 DEF Reselect, At, Goto
  <1>25. ASSUME NEW s \in Sock, LivePush(s) PROVE TypeOK'
    <2> USE <1>25 DEF LivePush, At
    <2>1. CASE Conns(Addressee(cur[s])) = {}
      BY <2>1 DEF Resume, Goto, Work, Forget, Frame
    <2>2. CASE Conns(Addressee(cur[s])) # {}
      <3>1. StartPush(s, Addressee(cur[s]), "push_live")
        BY <2>2
      <3> QED
        BY <2>2, <3>1, StartPushType DEF PushPc
    <2> QED
      BY <2>1, <2>2
  <1>26. ASSUME NEW s \in Sock, Disconnect(s) PROVE TypeOK'
    BY <1>26 DEF Disconnect, Close, Drop, Forget, At, Goto, Work, Frame
  <1>27. ASSUME NEW s \in Sock, NEW m \in Msg, Send(s, m) PROVE TypeOK'
    BY <1>27 DEF Send, At, Goto, Work, Frame, Letter
  <1>28. ASSUME NEW s \in Sock, NEW m \in Msg, SendAgain(s, m) PROVE TypeOK'
    BY <1>28 DEF SendAgain, Close, Drop, Forget, At, Goto, Work, Frame
  <1>29. ASSUME NEW s \in Sock, NEW m \in Msg, AckRead(s, m) PROVE TypeOK'
    BY <1>29 DEF AckRead, At, Goto, Work, Tick, Frame, Receipt, Kind
  <1>30. ASSUME NEW s \in Sock, NEW m \in Msg, TickAckRead(s, m) PROVE TypeOK'
    BY <1>30 DEF TickAckRead, At, Goto, Work, Tick, Frame, Receipt, Kind
  <1>31. ASSUME NEW s \in Sock, NEW k \in PeerKind, NEW m \in Msg, ReceiptRead(s, k, m) PROVE TypeOK'
    BY <1>31 DEF ReceiptRead, At, Goto, Work, Frame, Receipt, Kind
  <1>32. ASSUME NEW s \in Sock, NEW r \in Receipt, ReceiptAckRead(s, r) PROVE TypeOK'
    BY <1>32 DEF ReceiptAckRead
  <1>33. ASSUME NEW s \in Sock, NEW u \in NudgeTo, Nudge(s, u) PROVE TypeOK'
    BY <1>33 DEF Nudge, StartPush, At, Goto, Conns
  <1>34. ASSUME NEW s \in Sock, Cancelled(s) PROVE TypeOK'
    BY <1>34 DEF Cancelled, Close, Drop, Forget, At, Goto, Work, Frame
  <1>35. ASSUME NEW s \in Sock, ConnectFails(s) PROVE TypeOK'
    BY <1>35 DEF ConnectFails, Drop, Forget, At, Goto, Work, Frame
  <1>36. ASSUME Crash PROVE TypeOK'
    BY <1>36 DEF Crash, Frame
  <1>37. ASSUME NEW s \in Sock, Vanish(s) PROVE TypeOK'
    BY <1>37 DEF Vanish
  <1>38. ASSUME NEW s \in Sock, HangUp(s) PROVE TypeOK'
    BY <1>38 DEF HangUp
  <1>39. ASSUME Sweep PROVE TypeOK'
    BY <1>39 DEF Sweep
  <1>40. CASE UNCHANGED vars
    BY <1>40 DEF vars
  <1> QED
    BY <1>1, <1>2, <1>3, <1>4, <1>5, <1>6, <1>7, <1>8, <1>9, <1>10, <1>11,
       <1>12, <1>13, <1>14, <1>15, <1>16, <1>17, <1>18, <1>19, <1>20,
       <1>21, <1>22, <1>23, <1>24, <1>25, <1>26, <1>27, <1>28, <1>29,
       <1>30, <1>31, <1>32, <1>33, <1>34, <1>35, <1>36, <1>37, <1>38,
       <1>39, <1>40
    DEF Next, Surroundings, Run, Setup, Push, Deliberate, Read

\* Every step leaves every coroutine with a frame that fits its next await.
LEMMA NextWorking == TypeOK /\ Working /\ [Next]_vars => Working'
  <1> SUFFICES ASSUME TypeOK, Working, [Next]_vars PROVE Working'
    OBVIOUS
  <1> USE DEF TypeOK, Working, pushing, memory, db, ids, clients
  <1>1. ASSUME NEW s \in Sock, Connect(s) PROVE Working'
    BY <1>1 DEF Connect, At, Goto
  <1>2. ASSUME NEW s \in Sock, FlushSelect(s) PROVE Working'
    BY <1>2 DEF FlushSelect, At, Goto, Listing, Letter
  <1>3. ASSUME NEW s \in Sock, NEW f \in Letter, FlushMessage(s, f) PROVE Working'
    BY <1>3 DEF FlushMessage, FlushRow, StartPush, At, Goto, Work, Conns,
       Frame, Letter
  <1>4. ASSUME NEW s \in Sock, NEW r \in Receipt, FlushReceipt(s, r) PROVE Working'
    BY <1>4 DEF FlushReceipt, FlushRow, StartPush, At, Goto, Work, Conns,
       Frame
  <1>5. ASSUME NEW s \in Sock, FlushSelectReceipts(s) PROVE Working'
    BY <1>5 DEF FlushSelectReceipts, At, Goto, Listing
  <1>6. ASSUME NEW s \in Sock, FlushEnd(s) PROVE Working'
    BY <1>6 DEF FlushEnd, At, Goto, Forget
  <1>7. ASSUME NEW s \in Sock, MessageFlushed(s) PROVE Working'
    BY <1>7 DEF MessageFlushed, FlushPushed, PushReturns, At, Goto, Work,
       Frame
  <1>8. ASSUME NEW s \in Sock, ReceiptFlushed(s) PROVE Working'
    BY <1>8 DEF ReceiptFlushed, FlushPushed, PushReturns, At, Goto, Work,
       Frame
  <1>9. ASSUME NEW s \in Sock, NEW w \in Sock, PushWrite(s, w) PROVE Working'
    BY <1>9 DEF PushWrite, Deliver, Letter, Frame, PushPc
  <1>10. ASSUME NEW s \in Sock, ExpectAck(s) PROVE Working'
    BY <1>10 DEF ExpectAck, PushReturns, At, Goto, Letter
  <1>11. ASSUME NEW s \in Sock, PushFailed(s) PROVE Working'
    BY <1>11 DEF PushFailed, PushReturns, Resume, At, Goto, Work, Frame
  <1>12. ASSUME NEW s \in Sock, LivePushed(s) PROVE Working'
    BY <1>12 DEF LivePushed, PushReturns, Resume, Forget, At, Goto, Work,
       Frame
  <1>13. ASSUME NEW s \in Sock, TellStored(s) PROVE Working'
    BY <1>13 DEF TellStored, At, Goto, Letter
  <1>14. ASSUME NEW s \in Sock, RouteOnline(s) PROVE Working'
    BY <1>14 DEF RouteOnline, StartPush, At, Goto, Conns
  <1>15. ASSUME NEW s \in Sock, RouteOffline(s) PROVE Working'
    BY <1>15 DEF RouteOffline, Resume, At, Goto, Work, Frame
  <1>16. ASSUME NEW s \in Sock, Acked(s) PROVE Working'
    BY <1>16 DEF Acked, At, Goto
  <1>17. ASSUME NEW s \in Sock, AckTimeout(s) PROVE Working'
    BY <1>17 DEF AckTimeout, Resume, At, Goto, Work, Frame
  <1>18. ASSUME NEW s \in Sock, DeleteLoad(s) PROVE Working'
    BY <1>18 DEF DeleteLoad, Resume, At, Goto, Work, Frame
  <1>19. ASSUME NEW s \in Sock, DeleteCommit(s) PROVE Working'
    BY <1>19 DEF DeleteCommit, Resume, At, Goto, Work, Frame
  <1>20. ASSUME NEW s \in Sock, PopLoad(s) PROVE Working'
    <2> USE <1>20 DEF PopLoad, At
    <2>1. PICK m \in Msg : cur[s] = Tick(m)
      OBVIOUS
    <2>2. Tick(m) \in Receipt
      BY TickIsReceipt
    <2> QED
      BY <2>1, <2>2 DEF OweTick, Resume, Goto, Work
  <1>21. ASSUME NEW s \in Sock, PopCommit(s) PROVE Working'
    <2> USE <1>21 DEF PopCommit, At
    <2>1. PICK m \in Msg : cur[s] = Tick(m)
      OBVIOUS
    <2>2. Tick(m) \in Receipt
      BY TickIsReceipt
    <2> QED
      BY <2>1, <2>2 DEF OweTick, Resume, Goto, Work
  <1>22. ASSUME NEW s \in Sock, ConsumeTick(s) PROVE Working'
    BY <1>22 DEF ConsumeTick, Resume, At, Goto, Work, Frame
  <1>23. ASSUME NEW s \in Sock, StoreReceipt(s) PROVE Working'
    BY <1>23 DEF StoreReceipt, At, Goto
  <1>24. ASSUME NEW s \in Sock, Reselect(s) PROVE Working'
    BY <1>24 DEF Reselect, At, Goto
  <1>25. ASSUME NEW s \in Sock, LivePush(s) PROVE Working'
    BY <1>25 DEF LivePush, StartPush, Forget, Resume, At, Goto, Work,
       Conns, Frame
  <1>26. ASSUME NEW s \in Sock, Disconnect(s) PROVE Working'
    BY <1>26 DEF Disconnect, Close, Drop, Forget, At, Goto, Work, Frame
  <1>27. ASSUME NEW s \in Sock, NEW m \in Msg, Send(s, m) PROVE Working'
    BY <1>27 DEF Send, At, Goto, Work, Frame, Letter
  <1>28. ASSUME NEW s \in Sock, NEW m \in Msg, SendAgain(s, m) PROVE Working'
    BY <1>28 DEF SendAgain, Close, Drop, Forget, At, Goto, Work, Frame
  <1>29. ASSUME NEW s \in Sock, NEW m \in Msg, AckRead(s, m) PROVE Working'
    BY <1>29 DEF AckRead, At, Goto, Work, Tick, Frame, Receipt, Kind
  <1>30. ASSUME NEW s \in Sock, NEW m \in Msg, TickAckRead(s, m) PROVE Working'
    BY <1>30 DEF TickAckRead, At, Goto, Work, Tick, Frame, Receipt, Kind
  <1>31. ASSUME NEW s \in Sock, NEW k \in PeerKind, NEW m \in Msg, ReceiptRead(s, k, m) PROVE Working'
    BY <1>31 DEF ReceiptRead, At, Goto, Work, Frame, Receipt, Kind
  <1>32. ASSUME NEW s \in Sock, NEW r \in Receipt, ReceiptAckRead(s, r) PROVE Working'
    BY <1>32 DEF ReceiptAckRead
  <1>33. ASSUME NEW s \in Sock, NEW u \in NudgeTo, Nudge(s, u) PROVE Working'
    BY <1>33 DEF Nudge, StartPush, At, Goto, Conns
  <1>34. ASSUME NEW s \in Sock, Cancelled(s) PROVE Working'
    BY <1>34 DEF Cancelled, Close, Drop, Forget, At, Goto, Work, Frame
  <1>35. ASSUME NEW s \in Sock, ConnectFails(s) PROVE Working'
    BY <1>35 DEF ConnectFails, Drop, Forget, At, Goto, Work, Frame
  <1>36. ASSUME Crash PROVE Working'
    BY <1>36 DEF Crash, Frame
  <1>37. ASSUME NEW s \in Sock, Vanish(s) PROVE Working'
    BY <1>37 DEF Vanish
  <1>38. ASSUME NEW s \in Sock, HangUp(s) PROVE Working'
    BY <1>38 DEF HangUp
  <1>39. ASSUME Sweep PROVE Working'
    BY <1>39 DEF Sweep
  <1>40. CASE UNCHANGED vars
    BY <1>40 DEF vars
  <1> QED
    BY <1>1, <1>2, <1>3, <1>4, <1>5, <1>6, <1>7, <1>8, <1>9, <1>10, <1>11,
       <1>12, <1>13, <1>14, <1>15, <1>16, <1>17, <1>18, <1>19, <1>20,
       <1>21, <1>22, <1>23, <1>24, <1>25, <1>26, <1>27, <1>28, <1>29,
       <1>30, <1>31, <1>32, <1>33, <1>34, <1>35, <1>36, <1>37, <1>38,
       <1>39, <1>40
    DEF Next, Surroundings, Run, Setup, Push, Deliberate, Read

\* Deletions, ticks and the memory of acked rows follow an ack.
LEMMA NextAckFirst == TypeOK /\ Working /\ AckFirst /\ [Next]_vars => AckFirst'
  <1> SUFFICES ASSUME TypeOK, Working, AckFirst, [Next]_vars PROVE AckFirst'
    OBVIOUS
  <1>0. /\ pc \in [Sock -> Point]
        /\ cur \in [Sock -> Frame]
        /\ batch \in [Sock -> SUBSET (Letter \cup Receipt)]
        /\ woken \subseteq Sock
        /\ receipts \subseteq Receipt
    BY DEF TypeOK
  <1> USE <1>0
  <1> USE DEF AckFirst, pushing, memory, db, ids, clients, Tick, Letter, Receipt, Kind, NoFrame
  <1>1. ASSUME NEW s \in Sock, Connect(s) PROVE AckFirst'
    BY <1>1 DEF Connect, At, Goto
  <1>2. ASSUME NEW s \in Sock, FlushSelect(s) PROVE AckFirst'
    BY <1>2 DEF FlushSelect, At, Goto, Listing
  <1>3. ASSUME NEW s \in Sock, NEW f \in Letter, FlushMessage(s, f) PROVE AckFirst'
    <2> USE <1>3 DEF FlushMessage, FlushRow, At
    <2>1. CASE Conns(Owner[s]) = {}
      BY <2>1
    <2>2. CASE Conns(Owner[s]) # {}
      <3>1. /\ pc' = [pc EXCEPT ![s] = "push_flush"]
            /\ cur' = [cur EXCEPT ![s] = f]
            /\ batch' = [batch EXCEPT ![s] = batch[s] \ {f}]
            /\ UNCHANGED <<queue, have, acked, racked, woken, told, receipts, seen>>
        BY <2>2 DEF StartPush, Goto, Work
      <3> HIDE DEF FlushMessage, FlushRow
      <3>2. f \in Frame /\ f \in batch[s] /\ pc[s] = "flush"
        BY LetterMsg, ReceiptMsg DEF FlushMessage, FlushRow
      <3> QED
        BY <3>1, <3>2
    <2> QED
      BY <2>1, <2>2
  <1>4. ASSUME NEW s \in Sock, NEW r \in Receipt, FlushReceipt(s, r) PROVE AckFirst'
    <2> USE <1>4 DEF FlushReceipt, FlushRow, At
    <2>1. CASE Conns(Owner[s]) = {}
      BY <2>1
    <2>2. CASE Conns(Owner[s]) # {}
      <3>1. /\ pc' = [pc EXCEPT ![s] = "push_rflush"]
            /\ cur' = [cur EXCEPT ![s] = r]
            /\ batch' = [batch EXCEPT ![s] = batch[s] \ {r}]
            /\ UNCHANGED <<queue, have, acked, racked, woken, told, receipts, seen>>
        BY <2>2 DEF StartPush, Goto, Work
      <3> HIDE DEF FlushReceipt, FlushRow
      <3>2. r \in Frame /\ r \in batch[s] /\ pc[s] = "rflush"
        BY LetterMsg, ReceiptMsg DEF FlushReceipt, FlushRow
      <3> QED
        BY <3>1, <3>2
    <2> QED
      BY <2>1, <2>2
  <1>5. ASSUME NEW s \in Sock, FlushSelectReceipts(s) PROVE AckFirst'
    BY <1>5 DEF FlushSelectReceipts, At, Goto, Listing
  <1>6. ASSUME NEW s \in Sock, FlushEnd(s) PROVE AckFirst'
    BY <1>6 DEF FlushEnd, At, Goto, Forget
  <1>7. ASSUME NEW s \in Sock, MessageFlushed(s) PROVE AckFirst'
    BY <1>7 DEF MessageFlushed, FlushPushed, PushReturns, At, Goto, Work,
       Frame
  <1>8. ASSUME NEW s \in Sock, ReceiptFlushed(s) PROVE AckFirst'
    BY <1>8 DEF ReceiptFlushed, FlushPushed, PushReturns, At, Goto, Work,
       Frame
  <1>9. ASSUME NEW s \in Sock, NEW w \in Sock, PushWrite(s, w) PROVE AckFirst'
    BY <1>9 DEF PushWrite, Deliver, Frame, PushPc
  <1>10. ASSUME NEW s \in Sock, ExpectAck(s) PROVE AckFirst'
    BY <1>10 DEF ExpectAck, PushReturns, At, Goto, Working
  <1>11. ASSUME NEW s \in Sock, PushFailed(s) PROVE AckFirst'
    BY <1>11 DEF PushFailed, PushReturns, Resume, At, Goto, Work, Frame
  <1>12. ASSUME NEW s \in Sock, LivePushed(s) PROVE AckFirst'
    BY <1>12 DEF LivePushed, PushReturns, Resume, Forget, At, Goto, Work,
       Frame
  <1>13. ASSUME NEW s \in Sock, TellStored(s) PROVE AckFirst'
    BY <1>13 DEF TellStored, At, Goto, Working
  <1>14. ASSUME NEW s \in Sock, RouteOnline(s) PROVE AckFirst'
    BY <1>14 DEF RouteOnline, StartPush, At, Goto, Conns
  <1>15. ASSUME NEW s \in Sock, RouteOffline(s) PROVE AckFirst'
    BY <1>15 DEF RouteOffline, Resume, At, Goto, Work, Frame
  <1>16. ASSUME NEW s \in Sock, Acked(s) PROVE AckFirst'
    BY <1>16 DEF Acked, At, Goto, Working
  <1>17. ASSUME NEW s \in Sock, AckTimeout(s) PROVE AckFirst'
    BY <1>17 DEF AckTimeout, Resume, At, Goto, Work, Frame
  <1>18. ASSUME NEW s \in Sock, DeleteLoad(s) PROVE AckFirst'
    <2> USE <1>18 DEF DeleteLoad, At
    <2>1. CASE cur[s][2] \in queue
      BY <2>1 DEF Goto
    <2>2. CASE cur[s][2] \notin queue
      BY <2>2 DEF Resume, Goto, Work
    <2> QED
      BY <2>1, <2>2
  <1>19. ASSUME NEW s \in Sock, DeleteCommit(s) PROVE AckFirst'
    BY <1>19 DEF DeleteCommit, Resume, At, Goto, Work, Frame, Working
  <1>20. ASSUME NEW s \in Sock, PopLoad(s) PROVE AckFirst'
    BY <1>20 DEF PopLoad, OweTick, Resume, At, Goto, Work, Frame, Working
  <1>21. ASSUME NEW s \in Sock, PopCommit(s) PROVE AckFirst'
    <2> USE <1>21 DEF PopCommit, At, Working
    <2>1. PICK n \in Msg : cur[s] = Tick(n)
      OBVIOUS
    <2>2. n \in acked /\ cur[s][2] = n
      BY <2>1, TickIsReceipt
    <2>3. racked' \subseteq acked
      BY <2>2 DEF Remember
    <2>4. CASE From[n] # Owner[s]
      BY <2>1, <2>2, <2>3, <2>4 DEF OweTick, Goto
    <2>5. CASE From[n] = Owner[s]
      <3>1. Resume(s)
        BY <2>2, <2>5 DEF OweTick
      <3> HIDE DEF PopCommit
      <3>2. UNCHANGED <<acked, have, woken, batch, receipts, seen>> /\ pc[s] # "wait"
        BY DEF PopCommit
      <3> QED
        BY <2>3, <3>1, <3>2 DEF Resume, Goto, Work
    <2> QED
      BY <2>4, <2>5
  <1>22. ASSUME NEW s \in Sock, ConsumeTick(s) PROVE AckFirst'
    BY <1>22 DEF ConsumeTick, Resume, At, Goto, Work, Frame, Working
  <1>23. ASSUME NEW s \in Sock, StoreReceipt(s) PROVE AckFirst'
    BY <1>23 DEF StoreReceipt, At, Goto, Working
  <1>24. ASSUME NEW s \in Sock, Reselect(s) PROVE AckFirst'
    BY <1>24 DEF Reselect, At, Goto, Working
  <1>25. ASSUME NEW s \in Sock, LivePush(s) PROVE AckFirst'
    BY <1>25 DEF LivePush, StartPush, Forget, Resume, At, Goto, Work,
       Conns, Frame, Working
  <1>26. ASSUME NEW s \in Sock, Disconnect(s) PROVE AckFirst'
    BY <1>26 DEF Disconnect, Close, Drop, Forget, At, Goto, Work, Frame
  <1>27. ASSUME NEW s \in Sock, NEW m \in Msg, Send(s, m) PROVE AckFirst'
    BY <1>27 DEF Send, At, Goto, Work, Frame
  <1>28. ASSUME NEW s \in Sock, NEW m \in Msg, SendAgain(s, m) PROVE AckFirst'
    BY <1>28 DEF SendAgain, Close, Drop, Forget, At, Goto, Work, Frame
  <1>29. ASSUME NEW s \in Sock, NEW m \in Msg, AckRead(s, m) PROVE AckFirst'
    <2> USE <1>29 DEF AckRead, At
    <2>1. \A t \in Sock : Awaits(t, m) => pc[t] = "wait" /\ cur[t][2] = m /\ t # s
      BY DEF Awaits
    <2>2. \A t \in woken' : pc'[t] = "wait" /\ cur'[t][2] \in acked'
      BY <2>1 DEF Goto, Work
    <2>3. \A n \in Msg : cur'[s] = Tick(n) => n = m
      BY FramesDiffer DEF Work
    <2> QED
      BY <2>2, <2>3, FramesDiffer DEF Goto, Work
  <1>30. ASSUME NEW s \in Sock, NEW m \in Msg, TickAckRead(s, m) PROVE AckFirst'
    BY <1>30 DEF TickAckRead, At, Goto, Work, Frame
  <1>31. ASSUME NEW s \in Sock, NEW k \in PeerKind, NEW m \in Msg, ReceiptRead(s, k, m) PROVE AckFirst'
    BY <1>31, FramesDiffer, TickIsReceipt DEF ReceiptRead, At, Goto, Work
  <1>32. ASSUME NEW s \in Sock, NEW r \in Receipt, ReceiptAckRead(s, r) PROVE AckFirst'
    BY <1>32 DEF ReceiptAckRead
  <1>33. ASSUME NEW s \in Sock, NEW u \in NudgeTo, Nudge(s, u) PROVE AckFirst'
    BY <1>33 DEF Nudge, StartPush, At, Goto, Conns
  <1>34. ASSUME NEW s \in Sock, Cancelled(s) PROVE AckFirst'
    BY <1>34 DEF Cancelled, Close, Drop, Forget, At, Goto, Work, Frame
  <1>35. ASSUME NEW s \in Sock, ConnectFails(s) PROVE AckFirst'
    BY <1>35 DEF ConnectFails, Drop, Forget, At, Goto, Work, Frame
  <1>36. ASSUME Crash PROVE AckFirst'
    BY <1>36 DEF Crash, Frame
  <1>37. ASSUME NEW s \in Sock, Vanish(s) PROVE AckFirst'
    BY <1>37 DEF Vanish
  <1>38. ASSUME NEW s \in Sock, HangUp(s) PROVE AckFirst'
    BY <1>38 DEF HangUp
  <1>39. ASSUME Sweep PROVE AckFirst'
    BY <1>39 DEF Sweep
  <1>40. CASE UNCHANGED vars
    BY <1>40 DEF vars
  <1> QED
    BY <1>1, <1>2, <1>3, <1>4, <1>5, <1>6, <1>7, <1>8, <1>9, <1>10, <1>11,
       <1>12, <1>13, <1>14, <1>15, <1>16, <1>17, <1>18, <1>19, <1>20,
       <1>21, <1>22, <1>23, <1>24, <1>25, <1>26, <1>27, <1>28, <1>29,
       <1>30, <1>31, <1>32, <1>33, <1>34, <1>35, <1>36, <1>37, <1>38,
       <1>39, <1>40
    DEF Next, Surroundings, Run, Setup, Push, Deliberate, Read

\* A message in hand stays queued, arrived or perishable.
LEMMA NextLettersSafe == TypeOK /\ Working /\ AckFirst /\ LettersSafe /\ [Next]_vars => LettersSafe'
  <1> SUFFICES ASSUME TypeOK, Working, AckFirst, LettersSafe, [Next]_vars PROVE LettersSafe'
    OBVIOUS
  <1>0. /\ pc \in [Sock -> Point]
        /\ cur \in [Sock -> Frame]
        /\ batch \in [Sock -> SUBSET (Letter \cup Receipt)]
        /\ woken \subseteq Sock
        /\ receipts \subseteq Receipt
    BY DEF TypeOK
  <1> USE <1>0
  <1> USE DEF LettersSafe, Safe, pushing, memory, db, ids, clients, Tick, Letter, Receipt, Kind, NoFrame
  <1>1. ASSUME NEW s \in Sock, Connect(s) PROVE LettersSafe'
    BY <1>1 DEF Connect, At, Goto
  <1>2. ASSUME NEW s \in Sock, FlushSelect(s) PROVE LettersSafe'
    BY <1>2 DEF FlushSelect, At, Goto, Listing
  <1>3. ASSUME NEW s \in Sock, NEW f \in Letter, FlushMessage(s, f) PROVE LettersSafe'
    BY <1>3 DEF FlushMessage, FlushRow, StartPush, At, Goto, Work, Conns,
       Frame
  <1>4. ASSUME NEW s \in Sock, NEW r \in Receipt, FlushReceipt(s, r) PROVE LettersSafe'
    <2> USE <1>4 DEF FlushReceipt, FlushRow, At
    <2>1. CASE Conns(Owner[s]) = {}
      BY <2>1
    <2>2. CASE Conns(Owner[s]) # {}
      <3>1. /\ pc' = [pc EXCEPT ![s] = "push_rflush"]
            /\ cur' = [cur EXCEPT ![s] = r]
            /\ batch' = [batch EXCEPT ![s] = batch[s] \ {r}]
            /\ UNCHANGED <<queue, have, acked, racked, woken, told, receipts, seen>>
        BY <2>2 DEF StartPush, Goto, Work
      <3> HIDE DEF FlushReceipt, FlushRow
      <3>2. r \in Frame /\ r \in batch[s] /\ pc[s] = "rflush"
        BY LetterMsg, ReceiptMsg DEF FlushReceipt, FlushRow
      <3> QED
        BY <3>1, <3>2
    <2> QED
      BY <2>1, <2>2
  <1>5. ASSUME NEW s \in Sock, FlushSelectReceipts(s) PROVE LettersSafe'
    <2> USE <1>5 DEF FlushSelectReceipts, At
    <2>1. PICK B \in SUBSET receipts : batch' = [batch EXCEPT ![s] = B]
      BY DEF Listing
    <2> HIDE DEF FlushSelectReceipts
    <2>2. UNCHANGED <<cur, told, queue, have>>
      BY DEF FlushSelectReceipts
    <2> QED
      BY <2>1, <2>2, FramesDiffer
  <1>6. ASSUME NEW s \in Sock, FlushEnd(s) PROVE LettersSafe'
    BY <1>6 DEF FlushEnd, At, Goto, Forget
  <1>7. ASSUME NEW s \in Sock, MessageFlushed(s) PROVE LettersSafe'
    BY <1>7 DEF MessageFlushed, FlushPushed, PushReturns, At, Goto, Work,
       Frame
  <1>8. ASSUME NEW s \in Sock, ReceiptFlushed(s) PROVE LettersSafe'
    BY <1>8 DEF ReceiptFlushed, FlushPushed, PushReturns, At, Goto, Work,
       Frame
  <1>9. ASSUME NEW s \in Sock, NEW w \in Sock, PushWrite(s, w) PROVE LettersSafe'
    BY <1>9 DEF PushWrite, Deliver, Frame, PushPc, Working, AckFirst
  <1>10. ASSUME NEW s \in Sock, ExpectAck(s) PROVE LettersSafe'
    BY <1>10 DEF ExpectAck, PushReturns, At, Goto, Working, AckFirst
  <1>11. ASSUME NEW s \in Sock, PushFailed(s) PROVE LettersSafe'
    BY <1>11 DEF PushFailed, PushReturns, Resume, At, Goto, Work, Frame
  <1>12. ASSUME NEW s \in Sock, LivePushed(s) PROVE LettersSafe'
    BY <1>12 DEF LivePushed, PushReturns, Resume, Forget, At, Goto, Work,
       Frame
  <1>13. ASSUME NEW s \in Sock, TellStored(s) PROVE LettersSafe'
    BY <1>13 DEF TellStored, At, Goto, Working, AckFirst
  <1>14. ASSUME NEW s \in Sock, RouteOnline(s) PROVE LettersSafe'
    BY <1>14 DEF RouteOnline, StartPush, At, Goto, Conns
  <1>15. ASSUME NEW s \in Sock, RouteOffline(s) PROVE LettersSafe'
    BY <1>15 DEF RouteOffline, Resume, At, Goto, Work, Frame
  <1>16. ASSUME NEW s \in Sock, Acked(s) PROVE LettersSafe'
    BY <1>16 DEF Acked, At, Goto
  <1>17. ASSUME NEW s \in Sock, AckTimeout(s) PROVE LettersSafe'
    BY <1>17 DEF AckTimeout, Resume, At, Goto, Work, Frame
  <1>18. ASSUME NEW s \in Sock, DeleteLoad(s) PROVE LettersSafe'
    BY <1>18 DEF DeleteLoad, Resume, At, Goto, Work, Frame
  <1>19. ASSUME NEW s \in Sock, DeleteCommit(s) PROVE LettersSafe'
    BY <1>19 DEF DeleteCommit, Resume, At, Goto, Work, Frame, Working,
       AckFirst
  <1>20. ASSUME NEW s \in Sock, PopLoad(s) PROVE LettersSafe'
    BY <1>20 DEF PopLoad, OweTick, Resume, At, Goto, Work, Frame, Working,
       AckFirst
  <1>21. ASSUME NEW s \in Sock, PopCommit(s) PROVE LettersSafe'
    BY <1>21 DEF PopCommit, OweTick, Remember, Resume, At, Goto, Work,
       Frame, Working, AckFirst
  <1>22. ASSUME NEW s \in Sock, ConsumeTick(s) PROVE LettersSafe'
    BY <1>22 DEF ConsumeTick, Resume, At, Goto, Work, Frame
  <1>23. ASSUME NEW s \in Sock, StoreReceipt(s) PROVE LettersSafe'
    BY <1>23 DEF StoreReceipt, At, Goto
  <1>24. ASSUME NEW s \in Sock, Reselect(s) PROVE LettersSafe'
    BY <1>24 DEF Reselect, At, Goto
  <1>25. ASSUME NEW s \in Sock, LivePush(s) PROVE LettersSafe'
    BY <1>25 DEF LivePush, StartPush, Forget, Resume, At, Goto, Work,
       Conns, Frame
  <1>26. ASSUME NEW s \in Sock, Disconnect(s) PROVE LettersSafe'
    BY <1>26 DEF Disconnect, Close, Drop, Forget, At, Goto, Work, Frame
  <1>27. ASSUME NEW s \in Sock, NEW m \in Msg, Send(s, m) PROVE LettersSafe'
    BY <1>27 DEF Send, At, Goto, Work, Frame
  <1>28. ASSUME NEW s \in Sock, NEW m \in Msg, SendAgain(s, m) PROVE LettersSafe'
    BY <1>28 DEF SendAgain, Close, Drop, Forget, At, Goto, Work, Frame
  <1>29. ASSUME NEW s \in Sock, NEW m \in Msg, AckRead(s, m) PROVE LettersSafe'
    BY <1>29 DEF AckRead, At, Goto, Work, Frame, Working, AckFirst
  <1>30. ASSUME NEW s \in Sock, NEW m \in Msg, TickAckRead(s, m) PROVE LettersSafe'
    BY <1>30 DEF TickAckRead, At, Goto, Work, Frame
  <1>31. ASSUME NEW s \in Sock, NEW k \in PeerKind, NEW m \in Msg, ReceiptRead(s, k, m) PROVE LettersSafe'
    BY <1>31 DEF ReceiptRead, At, Goto, Work, Frame
  <1>32. ASSUME NEW s \in Sock, NEW r \in Receipt, ReceiptAckRead(s, r) PROVE LettersSafe'
    BY <1>32 DEF ReceiptAckRead
  <1>33. ASSUME NEW s \in Sock, NEW u \in NudgeTo, Nudge(s, u) PROVE LettersSafe'
    BY <1>33 DEF Nudge, StartPush, At, Goto, Conns
  <1>34. ASSUME NEW s \in Sock, Cancelled(s) PROVE LettersSafe'
    BY <1>34 DEF Cancelled, Close, Drop, Forget, At, Goto, Work, Frame
  <1>35. ASSUME NEW s \in Sock, ConnectFails(s) PROVE LettersSafe'
    BY <1>35 DEF ConnectFails, Drop, Forget, At, Goto, Work, Frame
  <1>36. ASSUME Crash PROVE LettersSafe'
    BY <1>36 DEF Crash, Frame
  <1>37. ASSUME NEW s \in Sock, Vanish(s) PROVE LettersSafe'
    BY <1>37 DEF Vanish
  <1>38. ASSUME NEW s \in Sock, HangUp(s) PROVE LettersSafe'
    BY <1>38 DEF HangUp
  <1>39. ASSUME Sweep PROVE LettersSafe'
    BY <1>39 DEF Sweep
  <1>40. CASE UNCHANGED vars
    BY <1>40 DEF vars
  <1> QED
    BY <1>1, <1>2, <1>3, <1>4, <1>5, <1>6, <1>7, <1>8, <1>9, <1>10, <1>11,
       <1>12, <1>13, <1>14, <1>15, <1>16, <1>17, <1>18, <1>19, <1>20,
       <1>21, <1>22, <1>23, <1>24, <1>25, <1>26, <1>27, <1>28, <1>29,
       <1>30, <1>31, <1>32, <1>33, <1>34, <1>35, <1>36, <1>37, <1>38,
       <1>39, <1>40
    DEF Next, Surroundings, Run, Setup, Push, Deliberate, Read

\* The receipts that a client can delete are receipts it has seen.
LEMMA NextSeenFirst == TypeOK /\ Working /\ AckFirst /\ SeenFirst /\ [Next]_vars => SeenFirst'
  <1> SUFFICES ASSUME TypeOK, Working, AckFirst, SeenFirst, [Next]_vars PROVE SeenFirst'
    OBVIOUS
  <1>0. /\ pc \in [Sock -> Point]
        /\ cur \in [Sock -> Frame]
        /\ batch \in [Sock -> SUBSET (Letter \cup Receipt)]
        /\ woken \subseteq Sock
        /\ receipts \subseteq Receipt
    BY DEF TypeOK
  <1> USE <1>0
  <1> USE DEF SeenFirst, pushing, memory, db, ids, clients, Tick, Letter, Receipt, Kind, NoFrame
  <1>1. ASSUME NEW s \in Sock, Connect(s) PROVE SeenFirst'
    BY <1>1 DEF Connect, At, Goto
  <1>2. ASSUME NEW s \in Sock, FlushSelect(s) PROVE SeenFirst'
    BY <1>2 DEF FlushSelect, At, Goto, Listing
  <1>3. ASSUME NEW s \in Sock, NEW f \in Letter, FlushMessage(s, f) PROVE SeenFirst'
    BY <1>3 DEF FlushMessage, FlushRow, StartPush, At, Goto, Work, Conns,
       Frame
  <1>4. ASSUME NEW s \in Sock, NEW r \in Receipt, FlushReceipt(s, r) PROVE SeenFirst'
    BY <1>4 DEF FlushReceipt, FlushRow, StartPush, At, Goto, Work, Conns,
       Frame
  <1>5. ASSUME NEW s \in Sock, FlushSelectReceipts(s) PROVE SeenFirst'
    BY <1>5 DEF FlushSelectReceipts, At, Goto, Listing
  <1>6. ASSUME NEW s \in Sock, FlushEnd(s) PROVE SeenFirst'
    BY <1>6 DEF FlushEnd, At, Goto, Forget
  <1>7. ASSUME NEW s \in Sock, MessageFlushed(s) PROVE SeenFirst'
    <2> USE <1>7 DEF MessageFlushed, FlushPushed, PushReturns, At
    <2>1. UNCHANGED <<named, seen, receipts>>
      OBVIOUS
    <2>2. /\ \A t \in Sock : t # s => pc'[t] = pc[t] /\ cur'[t] = cur[t]
          /\ pc'[s] \in {"flush", "rflush"}
      BY DEF Goto, Work
    <2> QED
      BY <2>1, <2>2
  <1>8. ASSUME NEW s \in Sock, ReceiptFlushed(s) PROVE SeenFirst'
    <2> USE <1>8 DEF ReceiptFlushed, FlushPushed, PushReturns, At
    <2>1. UNCHANGED <<named, seen, receipts>>
      OBVIOUS
    <2>2. /\ \A t \in Sock : t # s => pc'[t] = pc[t] /\ cur'[t] = cur[t]
          /\ pc'[s] \in {"flush", "rflush"}
      BY DEF Goto, Work
    <2> QED
      BY <2>1, <2>2
  <1>9. ASSUME NEW s \in Sock, NEW w \in Sock, PushWrite(s, w) PROVE SeenFirst'
    BY <1>9 DEF PushWrite, Deliver, Frame, PushPc
  <1>10. ASSUME NEW s \in Sock, ExpectAck(s) PROVE SeenFirst'
    BY <1>10 DEF ExpectAck, PushReturns, At, Goto
  <1>11. ASSUME NEW s \in Sock, PushFailed(s) PROVE SeenFirst'
    BY <1>11 DEF PushFailed, PushReturns, Resume, At, Goto, Work, Frame
  <1>12. ASSUME NEW s \in Sock, LivePushed(s) PROVE SeenFirst'
    BY <1>12 DEF LivePushed, PushReturns, Resume, Forget, At, Goto, Work,
       Frame
  <1>13. ASSUME NEW s \in Sock, TellStored(s) PROVE SeenFirst'
    BY <1>13 DEF TellStored, At, Goto
  <1>14. ASSUME NEW s \in Sock, RouteOnline(s) PROVE SeenFirst'
    BY <1>14 DEF RouteOnline, StartPush, At, Goto, Conns
  <1>15. ASSUME NEW s \in Sock, RouteOffline(s) PROVE SeenFirst'
    BY <1>15 DEF RouteOffline, Resume, At, Goto, Work, Frame
  <1>16. ASSUME NEW s \in Sock, Acked(s) PROVE SeenFirst'
    BY <1>16 DEF Acked, At, Goto
  <1>17. ASSUME NEW s \in Sock, AckTimeout(s) PROVE SeenFirst'
    BY <1>17 DEF AckTimeout, Resume, At, Goto, Work, Frame
  <1>18. ASSUME NEW s \in Sock, DeleteLoad(s) PROVE SeenFirst'
    BY <1>18 DEF DeleteLoad, Resume, At, Goto, Work, Frame
  <1>19. ASSUME NEW s \in Sock, DeleteCommit(s) PROVE SeenFirst'
    BY <1>19 DEF DeleteCommit, Resume, At, Goto, Work, Frame
  <1>20. ASSUME NEW s \in Sock, PopLoad(s) PROVE SeenFirst'
    BY <1>20 DEF PopLoad, OweTick, Resume, At, Goto, Work, Frame, Working
  <1>21. ASSUME NEW s \in Sock, PopCommit(s) PROVE SeenFirst'
    <2> USE <1>21 DEF PopCommit, At, Working
    <2>1. PICK n \in Msg : cur[s] = Tick(n)
      OBVIOUS
    <2>2. cur[s][2] = n /\ To[n] = Owner[s]
      BY <2>1, TickIsReceipt
    <2>3. CASE From[n] # Owner[s]
      BY <2>1, <2>2, <2>3, FramesDiffer DEF OweTick, Goto
    <2>4. CASE From[n] = Owner[s]
      <3>1. Resume(s)
        BY <2>2, <2>4 DEF OweTick
      <3> HIDE DEF PopCommit
      <3>2. UNCHANGED <<named, receipts, seen>>
        BY DEF PopCommit
      <3> QED
        BY <3>1, <3>2 DEF Resume, Goto, Work
    <2> QED
      BY <2>3, <2>4
  <1>22. ASSUME NEW s \in Sock, ConsumeTick(s) PROVE SeenFirst'
    BY <1>22 DEF ConsumeTick, Resume, At, Goto, Work, Frame, Working
  <1>23. ASSUME NEW s \in Sock, StoreReceipt(s) PROVE SeenFirst'
    BY <1>23 DEF StoreReceipt, At, Goto, Working
  <1>24. ASSUME NEW s \in Sock, Reselect(s) PROVE SeenFirst'
    BY <1>24 DEF Reselect, At, Goto, Working
  <1>25. ASSUME NEW s \in Sock, LivePush(s) PROVE SeenFirst'
    BY <1>25 DEF LivePush, StartPush, Forget, Resume, At, Goto, Work,
       Conns, Frame, Working
  <1>26. ASSUME NEW s \in Sock, Disconnect(s) PROVE SeenFirst'
    BY <1>26 DEF Disconnect, Close, Drop, Forget, At, Goto, Work, Frame
  <1>27. ASSUME NEW s \in Sock, NEW m \in Msg, Send(s, m) PROVE SeenFirst'
    BY <1>27 DEF Send, At, Goto, Work, Frame
  <1>28. ASSUME NEW s \in Sock, NEW m \in Msg, SendAgain(s, m) PROVE SeenFirst'
    BY <1>28 DEF SendAgain, Close, Drop, Forget, At, Goto, Work, Frame
  <1>29. ASSUME NEW s \in Sock, NEW m \in Msg, AckRead(s, m) PROVE SeenFirst'
    BY <1>29 DEF AckRead, At, Goto, Work, Frame
  <1>30. ASSUME NEW s \in Sock, NEW m \in Msg, TickAckRead(s, m) PROVE SeenFirst'
    BY <1>30 DEF TickAckRead, At, Goto, Work, Frame
  <1>31. ASSUME NEW s \in Sock, NEW k \in PeerKind, NEW m \in Msg, ReceiptRead(s, k, m) PROVE SeenFirst'
    BY <1>31, FramesDiffer, TickIsReceipt DEF ReceiptRead, At, Goto, Work
  <1>32. ASSUME NEW s \in Sock, NEW r \in Receipt, ReceiptAckRead(s, r) PROVE SeenFirst'
    BY <1>32 DEF ReceiptAckRead
  <1>33. ASSUME NEW s \in Sock, NEW u \in NudgeTo, Nudge(s, u) PROVE SeenFirst'
    BY <1>33 DEF Nudge, StartPush, At, Goto, Conns
  <1>34. ASSUME NEW s \in Sock, Cancelled(s) PROVE SeenFirst'
    BY <1>34 DEF Cancelled, Close, Drop, Forget, At, Goto, Work, Frame
  <1>35. ASSUME NEW s \in Sock, ConnectFails(s) PROVE SeenFirst'
    BY <1>35 DEF ConnectFails, Drop, Forget, At, Goto, Work, Frame
  <1>36. ASSUME Crash PROVE SeenFirst'
    BY <1>36 DEF Crash, Frame
  <1>37. ASSUME NEW s \in Sock, Vanish(s) PROVE SeenFirst'
    BY <1>37 DEF Vanish
  <1>38. ASSUME NEW s \in Sock, HangUp(s) PROVE SeenFirst'
    BY <1>38 DEF HangUp
  <1>39. ASSUME Sweep PROVE SeenFirst'
    BY <1>39 DEF Sweep
  <1>40. CASE UNCHANGED vars
    BY <1>40 DEF vars
  <1> QED
    BY <1>1, <1>2, <1>3, <1>4, <1>5, <1>6, <1>7, <1>8, <1>9, <1>10, <1>11,
       <1>12, <1>13, <1>14, <1>15, <1>16, <1>17, <1>18, <1>19, <1>20,
       <1>21, <1>22, <1>23, <1>24, <1>25, <1>26, <1>27, <1>28, <1>29,
       <1>30, <1>31, <1>32, <1>33, <1>34, <1>35, <1>36, <1>37, <1>38,
       <1>39, <1>40
    DEF Next, Surroundings, Run, Setup, Push, Deliberate, Read

-----------------------------------------------------------------------------
(* The invariant.                                                          *)

\* A process that starts with empty tables satisfies the invariant.
LEMMA InitInv == Init => IInv
  <1> SUFFICES ASSUME Init PROVE IInv
    OBVIOUS
  <1>1. TypeOK /\ Working
    BY InitType
  <1>2. LettersSafe /\ AckFirst /\ SeenFirst
    BY FramesDiffer, TickIsReceipt
    DEF Init, LettersSafe, Safe, AckFirst, SeenFirst
  <1> QED
    BY <1>1, <1>2 DEF IInv

\* The parts of the invariant support each other: every step keeps them all.
LEMMA NextInv == IInv /\ [Next]_vars => IInv'
  BY NextType, NextWorking, NextAckFirst, NextLettersSafe, NextSeenFirst DEF IInv

\* The inductive invariant holds in every state of every behaviour.
THEOREM Invariance == Spec => []IInv
  BY InitInv, NextInv, PTL DEF Spec

\* The variables always have their types.  (TypeOK: the state of relay.py.)
THEOREM TypeCorrect == Spec => []TypeOK
  <1>1. IInv => TypeOK
    BY DEF IInv
  <1> QED
    BY <1>1, Invariance, PTL

\* A message whose sender was told "stored" (relay.py:700) stays queued until
\* its recipient has it, through crashes, cancellations and lost clients.
THEOREM StoredNeverLost == Spec => []StoredIsSafe
  <1>1. IInv => StoredIsSafe
    BY DEF IInv, LettersSafe, StoredIsSafe, Safe
  <1> QED
    BY <1>1, Invariance, PTL

\* No "delivered" tick, stored or shown, without the recipient's ack.
THEOREM NoFalseTick == Spec => []TicksAreTrue
  <1>1. IInv => TicksAreTrue
    BY DEF IInv, AckFirst, TicksAreTrue
  <1> QED
    BY <1>1, Invariance, PTL

-----------------------------------------------------------------------------
(* Steps.                                                                  *)

\* What a step may change of what the mailbox is about, and which.
Quiet == UNCHANGED <<queue, have, told, seen>>
Moving ==
    \/ \E s \in Sock : FlushSelect(s) \/ DeleteCommit(s) \/ PopCommit(s) \/ TellStored(s)
    \/ \E s, w \in Sock : PushWrite(s, w)
    \/ \E s \in Sock, m \in Msg : Send(s, m)
    \/ Sweep

\* Every other action leaves the queue and the clients' knowledge alone.
LEMMA StepKinds == [Next]_vars => Quiet \/ Moving
  <1> SUFFICES ASSUME [Next]_vars PROVE Quiet \/ Moving
    OBVIOUS
  <1> USE DEF Quiet, pushing, memory, db, ids, clients
  <1>1. ASSUME NEW s \in Sock, Connect(s) PROVE Quiet \/ Moving
    BY <1>1 DEF Connect
  <1>2. ASSUME NEW s \in Sock, FlushSelect(s) PROVE Quiet \/ Moving
    BY <1>2 DEF Moving
  <1>3. ASSUME NEW s \in Sock, NEW f \in Letter, FlushMessage(s, f) PROVE Quiet \/ Moving
    BY <1>3 DEF FlushMessage, FlushRow
  <1>4. ASSUME NEW s \in Sock, NEW r \in Receipt, FlushReceipt(s, r) PROVE Quiet \/ Moving
    BY <1>4 DEF FlushReceipt, FlushRow
  <1>5. ASSUME NEW s \in Sock, FlushSelectReceipts(s) PROVE Quiet \/ Moving
    BY <1>5 DEF FlushSelectReceipts
  <1>6. ASSUME NEW s \in Sock, FlushEnd(s) PROVE Quiet \/ Moving
    BY <1>6 DEF FlushEnd
  <1>7. ASSUME NEW s \in Sock, MessageFlushed(s) PROVE Quiet \/ Moving
    BY <1>7 DEF MessageFlushed, FlushPushed, PushReturns
  <1>8. ASSUME NEW s \in Sock, ReceiptFlushed(s) PROVE Quiet \/ Moving
    BY <1>8 DEF ReceiptFlushed, FlushPushed, PushReturns
  <1>9. ASSUME NEW s \in Sock, NEW w \in Sock, PushWrite(s, w) PROVE Quiet \/ Moving
    BY <1>9 DEF Moving
  <1>10. ASSUME NEW s \in Sock, ExpectAck(s) PROVE Quiet \/ Moving
    BY <1>10 DEF ExpectAck, PushReturns
  <1>11. ASSUME NEW s \in Sock, PushFailed(s) PROVE Quiet \/ Moving
    BY <1>11 DEF PushFailed, PushReturns
  <1>12. ASSUME NEW s \in Sock, LivePushed(s) PROVE Quiet \/ Moving
    BY <1>12 DEF LivePushed, PushReturns
  <1>13. ASSUME NEW s \in Sock, TellStored(s) PROVE Quiet \/ Moving
    BY <1>13 DEF Moving
  <1>14. ASSUME NEW s \in Sock, RouteOnline(s) PROVE Quiet \/ Moving
    BY <1>14 DEF RouteOnline
  <1>15. ASSUME NEW s \in Sock, RouteOffline(s) PROVE Quiet \/ Moving
    BY <1>15 DEF RouteOffline
  <1>16. ASSUME NEW s \in Sock, Acked(s) PROVE Quiet \/ Moving
    BY <1>16 DEF Acked
  <1>17. ASSUME NEW s \in Sock, AckTimeout(s) PROVE Quiet \/ Moving
    BY <1>17 DEF AckTimeout
  <1>18. ASSUME NEW s \in Sock, DeleteLoad(s) PROVE Quiet \/ Moving
    BY <1>18 DEF DeleteLoad
  <1>19. ASSUME NEW s \in Sock, DeleteCommit(s) PROVE Quiet \/ Moving
    BY <1>19 DEF Moving
  <1>20. ASSUME NEW s \in Sock, PopLoad(s) PROVE Quiet \/ Moving
    BY <1>20 DEF PopLoad
  <1>21. ASSUME NEW s \in Sock, PopCommit(s) PROVE Quiet \/ Moving
    BY <1>21 DEF Moving
  <1>22. ASSUME NEW s \in Sock, ConsumeTick(s) PROVE Quiet \/ Moving
    BY <1>22 DEF ConsumeTick
  <1>23. ASSUME NEW s \in Sock, StoreReceipt(s) PROVE Quiet \/ Moving
    BY <1>23 DEF StoreReceipt
  <1>24. ASSUME NEW s \in Sock, Reselect(s) PROVE Quiet \/ Moving
    BY <1>24 DEF Reselect
  <1>25. ASSUME NEW s \in Sock, LivePush(s) PROVE Quiet \/ Moving
    BY <1>25 DEF LivePush
  <1>26. ASSUME NEW s \in Sock, Disconnect(s) PROVE Quiet \/ Moving
    BY <1>26 DEF Disconnect, Close, Drop
  <1>27. ASSUME NEW s \in Sock, NEW m \in Msg, Send(s, m) PROVE Quiet \/ Moving
    BY <1>27 DEF Moving
  <1>28. ASSUME NEW s \in Sock, NEW m \in Msg, SendAgain(s, m) PROVE Quiet \/ Moving
    BY <1>28 DEF SendAgain, Close, Drop
  <1>29. ASSUME NEW s \in Sock, NEW m \in Msg, AckRead(s, m) PROVE Quiet \/ Moving
    BY <1>29 DEF AckRead
  <1>30. ASSUME NEW s \in Sock, NEW m \in Msg, TickAckRead(s, m) PROVE Quiet \/ Moving
    BY <1>30 DEF TickAckRead
  <1>31. ASSUME NEW s \in Sock, NEW k \in PeerKind, NEW m \in Msg, ReceiptRead(s, k, m) PROVE Quiet \/ Moving
    BY <1>31 DEF ReceiptRead
  <1>32. ASSUME NEW s \in Sock, NEW r \in Receipt, ReceiptAckRead(s, r) PROVE Quiet \/ Moving
    BY <1>32 DEF ReceiptAckRead
  <1>33. ASSUME NEW s \in Sock, NEW u \in NudgeTo, Nudge(s, u) PROVE Quiet \/ Moving
    BY <1>33 DEF Nudge
  <1>34. ASSUME NEW s \in Sock, Cancelled(s) PROVE Quiet \/ Moving
    BY <1>34 DEF Cancelled, Close, Drop
  <1>35. ASSUME NEW s \in Sock, ConnectFails(s) PROVE Quiet \/ Moving
    BY <1>35 DEF ConnectFails, Drop
  <1>36. ASSUME Crash PROVE Quiet \/ Moving
    BY <1>36 DEF Crash
  <1>37. ASSUME NEW s \in Sock, Vanish(s) PROVE Quiet \/ Moving
    BY <1>37 DEF Vanish
  <1>38. ASSUME NEW s \in Sock, HangUp(s) PROVE Quiet \/ Moving
    BY <1>38 DEF HangUp
  <1>39. ASSUME Sweep PROVE Quiet \/ Moving
    BY <1>39 DEF Moving
  <1>40. CASE UNCHANGED vars
    BY <1>40 DEF vars
  <1> QED
    BY <1>1, <1>2, <1>3, <1>4, <1>5, <1>6, <1>7, <1>8, <1>9, <1>10, <1>11,
       <1>12, <1>13, <1>14, <1>15, <1>16, <1>17, <1>18, <1>19, <1>20,
       <1>21, <1>22, <1>23, <1>24, <1>25, <1>26, <1>27, <1>28, <1>29,
       <1>30, <1>31, <1>32, <1>33, <1>34, <1>35, <1>36, <1>37, <1>38,
       <1>39, <1>40
    DEF Next, Surroundings, Run, Setup, Push, Deliberate, Read

\* Only a flush, a plain ack and a receipt's ack can delete receipts.
LEMMA ReceiptKinds ==
    [Next]_vars =>
      \/ receipts \subseteq receipts'
      \/ \E s \in Sock : FlushSelectReceipts(s) \/ ConsumeTick(s)
      \/ \E s \in Sock, r \in Receipt : ReceiptAckRead(s, r)
  <1> DEFINE Deletes ==
        \/ \E s \in Sock : FlushSelectReceipts(s) \/ ConsumeTick(s)
        \/ \E s \in Sock, r \in Receipt : ReceiptAckRead(s, r)
  <1> SUFFICES ASSUME [Next]_vars PROVE receipts \subseteq receipts' \/ Deletes
    OBVIOUS
  <1> USE DEF pushing, memory, db, ids, clients
  <1>1. ASSUME NEW s \in Sock, Connect(s) PROVE receipts \subseteq receipts' \/ Deletes
    BY <1>1 DEF Connect
  <1>2. ASSUME NEW s \in Sock, FlushSelect(s) PROVE receipts \subseteq receipts' \/ Deletes
    BY <1>2 DEF FlushSelect
  <1>3. ASSUME NEW s \in Sock, NEW f \in Letter, FlushMessage(s, f) PROVE receipts \subseteq receipts' \/ Deletes
    BY <1>3 DEF FlushMessage, FlushRow
  <1>4. ASSUME NEW s \in Sock, NEW r \in Receipt, FlushReceipt(s, r) PROVE receipts \subseteq receipts' \/ Deletes
    BY <1>4 DEF FlushReceipt, FlushRow
  <1>5. ASSUME NEW s \in Sock, FlushSelectReceipts(s) PROVE receipts \subseteq receipts' \/ Deletes
    BY <1>5
  <1>6. ASSUME NEW s \in Sock, FlushEnd(s) PROVE receipts \subseteq receipts' \/ Deletes
    BY <1>6 DEF FlushEnd
  <1>7. ASSUME NEW s \in Sock, MessageFlushed(s) PROVE receipts \subseteq receipts' \/ Deletes
    BY <1>7 DEF MessageFlushed, FlushPushed, PushReturns
  <1>8. ASSUME NEW s \in Sock, ReceiptFlushed(s) PROVE receipts \subseteq receipts' \/ Deletes
    BY <1>8 DEF ReceiptFlushed, FlushPushed, PushReturns
  <1>9. ASSUME NEW s \in Sock, NEW w \in Sock, PushWrite(s, w) PROVE receipts \subseteq receipts' \/ Deletes
    BY <1>9 DEF PushWrite
  <1>10. ASSUME NEW s \in Sock, ExpectAck(s) PROVE receipts \subseteq receipts' \/ Deletes
    BY <1>10 DEF ExpectAck, PushReturns
  <1>11. ASSUME NEW s \in Sock, PushFailed(s) PROVE receipts \subseteq receipts' \/ Deletes
    BY <1>11 DEF PushFailed, PushReturns
  <1>12. ASSUME NEW s \in Sock, LivePushed(s) PROVE receipts \subseteq receipts' \/ Deletes
    BY <1>12 DEF LivePushed, PushReturns
  <1>13. ASSUME NEW s \in Sock, TellStored(s) PROVE receipts \subseteq receipts' \/ Deletes
    BY <1>13 DEF TellStored
  <1>14. ASSUME NEW s \in Sock, RouteOnline(s) PROVE receipts \subseteq receipts' \/ Deletes
    BY <1>14 DEF RouteOnline
  <1>15. ASSUME NEW s \in Sock, RouteOffline(s) PROVE receipts \subseteq receipts' \/ Deletes
    BY <1>15 DEF RouteOffline
  <1>16. ASSUME NEW s \in Sock, Acked(s) PROVE receipts \subseteq receipts' \/ Deletes
    BY <1>16 DEF Acked
  <1>17. ASSUME NEW s \in Sock, AckTimeout(s) PROVE receipts \subseteq receipts' \/ Deletes
    BY <1>17 DEF AckTimeout
  <1>18. ASSUME NEW s \in Sock, DeleteLoad(s) PROVE receipts \subseteq receipts' \/ Deletes
    BY <1>18 DEF DeleteLoad
  <1>19. ASSUME NEW s \in Sock, DeleteCommit(s) PROVE receipts \subseteq receipts' \/ Deletes
    BY <1>19 DEF DeleteCommit
  <1>20. ASSUME NEW s \in Sock, PopLoad(s) PROVE receipts \subseteq receipts' \/ Deletes
    BY <1>20 DEF PopLoad
  <1>21. ASSUME NEW s \in Sock, PopCommit(s) PROVE receipts \subseteq receipts' \/ Deletes
    BY <1>21 DEF PopCommit
  <1>22. ASSUME NEW s \in Sock, ConsumeTick(s) PROVE receipts \subseteq receipts' \/ Deletes
    BY <1>22
  <1>23. ASSUME NEW s \in Sock, StoreReceipt(s) PROVE receipts \subseteq receipts' \/ Deletes
    BY <1>23 DEF StoreReceipt
  <1>24. ASSUME NEW s \in Sock, Reselect(s) PROVE receipts \subseteq receipts' \/ Deletes
    BY <1>24 DEF Reselect
  <1>25. ASSUME NEW s \in Sock, LivePush(s) PROVE receipts \subseteq receipts' \/ Deletes
    BY <1>25 DEF LivePush
  <1>26. ASSUME NEW s \in Sock, Disconnect(s) PROVE receipts \subseteq receipts' \/ Deletes
    BY <1>26 DEF Disconnect, Close, Drop
  <1>27. ASSUME NEW s \in Sock, NEW m \in Msg, Send(s, m) PROVE receipts \subseteq receipts' \/ Deletes
    BY <1>27 DEF Send
  <1>28. ASSUME NEW s \in Sock, NEW m \in Msg, SendAgain(s, m) PROVE receipts \subseteq receipts' \/ Deletes
    BY <1>28 DEF SendAgain, Close, Drop
  <1>29. ASSUME NEW s \in Sock, NEW m \in Msg, AckRead(s, m) PROVE receipts \subseteq receipts' \/ Deletes
    BY <1>29 DEF AckRead
  <1>30. ASSUME NEW s \in Sock, NEW m \in Msg, TickAckRead(s, m) PROVE receipts \subseteq receipts' \/ Deletes
    BY <1>30 DEF TickAckRead
  <1>31. ASSUME NEW s \in Sock, NEW k \in PeerKind, NEW m \in Msg, ReceiptRead(s, k, m) PROVE receipts \subseteq receipts' \/ Deletes
    BY <1>31 DEF ReceiptRead
  <1>32. ASSUME NEW s \in Sock, NEW r \in Receipt, ReceiptAckRead(s, r) PROVE receipts \subseteq receipts' \/ Deletes
    BY <1>32
  <1>33. ASSUME NEW s \in Sock, NEW u \in NudgeTo, Nudge(s, u) PROVE receipts \subseteq receipts' \/ Deletes
    BY <1>33 DEF Nudge
  <1>34. ASSUME NEW s \in Sock, Cancelled(s) PROVE receipts \subseteq receipts' \/ Deletes
    BY <1>34 DEF Cancelled, Close, Drop
  <1>35. ASSUME NEW s \in Sock, ConnectFails(s) PROVE receipts \subseteq receipts' \/ Deletes
    BY <1>35 DEF ConnectFails, Drop
  <1>36. ASSUME Crash PROVE receipts \subseteq receipts' \/ Deletes
    BY <1>36 DEF Crash
  <1>37. ASSUME NEW s \in Sock, Vanish(s) PROVE receipts \subseteq receipts' \/ Deletes
    BY <1>37 DEF Vanish
  <1>38. ASSUME NEW s \in Sock, HangUp(s) PROVE receipts \subseteq receipts' \/ Deletes
    BY <1>38 DEF HangUp
  <1>39. ASSUME Sweep PROVE receipts \subseteq receipts' \/ Deletes
    BY <1>39 DEF Sweep
  <1>40. CASE UNCHANGED vars
    BY <1>40 DEF vars
  <1> QED
    BY <1>1, <1>2, <1>3, <1>4, <1>5, <1>6, <1>7, <1>8, <1>9, <1>10, <1>11,
       <1>12, <1>13, <1>14, <1>15, <1>16, <1>17, <1>18, <1>19, <1>20,
       <1>21, <1>22, <1>23, <1>24, <1>25, <1>26, <1>27, <1>28, <1>29,
       <1>30, <1>31, <1>32, <1>33, <1>34, <1>35, <1>36, <1>37, <1>38,
       <1>39, <1>40
    DEF Next, Surroundings, Run, Setup, Push, Deliberate, Read

\* A row leaves the queue after its recipient's ack, or when its time is over.
LEMMA RowsStep ==
    IInv /\ [Next]_vars => \A m \in queue \ queue' : m \in acked \cup Ageing
  <1> SUFFICES ASSUME IInv, [Next]_vars, NEW m \in queue \ queue'
               PROVE  m \in acked \cup Ageing
    OBVIOUS
  <1>1. CASE \E s \in Sock : FlushSelect(s)
    BY <1>1 DEF FlushSelect
  <1>2. CASE \E s \in Sock : DeleteCommit(s)
    BY <1>2 DEF DeleteCommit, At, IInv, AckFirst
  <1>3. CASE \E s \in Sock : PopCommit(s)
    <2>1. PICK s \in Sock : PopCommit(s)
      BY <1>3
    <2>2. PICK n \in Msg : cur[s] = Tick(n)
      BY <2>1 DEF PopCommit, At, IInv, Working
    <2>3. m = n
      BY <2>1, <2>2, TickIsReceipt DEF PopCommit
    <2> QED
      BY <2>2, <2>3 DEF IInv, AckFirst
  <1>4. CASE Sweep
    BY <1>4 DEF Sweep
  <1>5. CASE \E s \in Sock : TellStored(s)
    BY <1>5 DEF TellStored, db
  <1>6. CASE \E s, w \in Sock : PushWrite(s, w)
    BY <1>6 DEF PushWrite, db
  <1>7. CASE \E s \in Sock, n \in Msg : Send(s, n)
    BY <1>7 DEF Send
  <1>8. CASE Quiet
    BY <1>8 DEF Quiet
  <1> QED
    BY <1>1, <1>2, <1>3, <1>4, <1>5, <1>6, <1>7, <1>8, StepKinds DEF Moving

\* "Rows die exclusively via the ack path" (relay.py:187).
THEOREM RowsAreAcked == Spec => RowsDieByAck
  <1>1. IInv /\ [Next]_vars => [\A m \in queue \ queue' : m \in acked \cup Ageing]_vars
    BY RowsStep
  <1> QED
    BY <1>1, Invariance, PTL DEF Spec, RowsDieByAck

\* A receipt's row is deleted after its addressee has seen the receipt, or
\* when its time is over.
LEMMA ReceiptsStep ==
    IInv /\ [Next]_vars => \A r \in receipts \ receipts' : r \in seen \/ r[2] \in Ageing
  <1> SUFFICES ASSUME IInv, [Next]_vars, NEW r \in receipts \ receipts'
               PROVE  r \in seen \/ r[2] \in Ageing
    OBVIOUS
  <1>1. CASE \E s \in Sock : FlushSelectReceipts(s)
    BY <1>1 DEF FlushSelectReceipts
  <1>2. CASE \E s \in Sock : ConsumeTick(s)
    <2>1. PICK s \in Sock : ConsumeTick(s)
      BY <1>2
    <2>2. PICK n \in Msg : cur[s] = Tick(n)
      BY <2>1 DEF ConsumeTick, At, IInv, Working
    <2>3. r = Tick(n) /\ From[n] = Owner[s]
      BY <2>1, <2>2, TickIsReceipt DEF ConsumeTick, ids
    <2>4. From[n] # To[n]
      BY <2>3 DEF IInv, SeenFirst
    <2> QED
      BY <2>1, <2>2, <2>3, <2>4 DEF ConsumeTick, At, IInv, SeenFirst
  <1>3. CASE \E s \in Sock, q \in Receipt : ReceiptAckRead(s, q)
    BY <1>3 DEF ReceiptAckRead, IInv, SeenFirst
  <1> QED
    BY <1>1, <1>2, <1>3, ReceiptKinds

\* The plain ack of a tick "can never eat a pending read" (relay.py:467), nor
\* any receipt that its addressee has not seen.
THEOREM ReceiptsAreSeen == Spec => ReceiptsDieSeen
  <1>1. IInv /\ [Next]_vars =>
          [\A r \in receipts \ receipts' : r \in seen \/ r[2] \in Ageing]_vars
    BY ReceiptsStep
  <1> QED
    BY <1>1, Invariance, PTL DEF Spec, ReceiptsDieSeen

-----------------------------------------------------------------------------
(* Refinement.                                                             *)

\* Every step of the relay is a step of the mailbox, or changes nothing in it.
LEMMA MailboxStep == IInv /\ [Next]_vars => [Service!Next]_(Service!vars)
  <1> SUFFICES ASSUME IInv, [Next]_vars PROVE Service!Next \/ UNCHANGED Service!vars
    OBVIOUS
  <1> DEFINE Ticked == {m \in Msg : Tick(m) \in seen}
  <1>1. ASSUME NEW D \in SUBSET queue, D \subseteq have \cup Ageing,
               queue' = queue \ D, UNCHANGED <<have, told, seen>>
        PROVE  Service!Next
    <2>1. Service!Drop(D)
      BY <1>1 DEF Service!Drop
    <2> QED
      BY <1>1, <2>1 DEF Service!Next
  <1>2. CASE \E s \in Sock : FlushSelect(s)
    <2>1. PICK s \in Sock : FlushSelect(s)
      BY <1>2
    <2>2. PICK D \in SUBSET {m \in queue \cap Ageing : To[m] = Owner[s]} :
            queue' = queue \ D
      BY <2>1 DEF FlushSelect
    <2>3. UNCHANGED <<have, told, seen>>
      BY <2>1 DEF FlushSelect, clients
    <2> QED
      BY <2>2, <2>3, <1>1
  <1>3. CASE \E s \in Sock : DeleteCommit(s)
    <2>1. PICK s \in Sock : DeleteCommit(s)
      BY <1>3
    <2> DEFINE D == queue \cap {cur[s][2]}
    <2>2. queue' = queue \ D /\ UNCHANGED <<have, told, seen>>
      BY <2>1 DEF DeleteCommit, clients
    <2>3. D \subseteq have
      BY <2>1 DEF DeleteCommit, At, IInv, AckFirst
    <2>4. D \in SUBSET queue /\ D \subseteq have \cup Ageing
      BY <2>3
    <2> HIDE DEF D
    <2> QED
      BY <2>2, <2>4, <1>1
  <1>4. CASE \E s \in Sock : PopCommit(s)
    <2>1. PICK s \in Sock : PopCommit(s)
      BY <1>4
    <2> DEFINE D == queue \cap {cur[s][2]}
    <2>2. queue' = queue \ D /\ UNCHANGED <<have, told, seen>>
      BY <2>1 DEF PopCommit, clients
    <2>3. PICK n \in Msg : cur[s] = Tick(n)
      BY <2>1 DEF PopCommit, At, IInv, Working
    <2>4. D \subseteq have
      BY <2>3, TickIsReceipt DEF IInv, AckFirst
    <2>5. D \in SUBSET queue /\ D \subseteq have \cup Ageing
      BY <2>4
    <2> HIDE DEF D
    <2> QED
      BY <2>2, <2>5, <1>1
  <1>5. CASE Sweep
    <2>1. PICK D \in SUBSET (queue \cap Ageing) : queue' = queue \ D
      BY <1>5 DEF Sweep
    <2>2. UNCHANGED <<have, told, seen>>
      BY <1>5 DEF Sweep, clients
    <2> QED
      BY <2>1, <2>2, <1>1
  <1>6. CASE \E s \in Sock : TellStored(s)
    <2>1. PICK s \in Sock : TellStored(s)
      BY <1>6
    <2>2. cur[s] \in Letter /\ cur[s][2] \in Msg
      BY <2>1, LetterMsg DEF TellStored, At, IInv, Working
    <2>3. cur[s][2] \in queue \cup have \cup Ageing
      BY <2>2 DEF IInv, LettersSafe, Safe
    <2>4. UNCHANGED <<queue, have, seen>>
      BY <2>1 DEF TellStored, db
    <2>5. CASE link[s] = "open"
      <3>1. Service!ShowStored(cur[s][2])
        BY <2>1, <2>3, <2>4, <2>5 DEF TellStored, Service!ShowStored, Service!Known
      <3> QED
        BY <3>1, <2>2 DEF Service!Next
    <2>6. CASE link[s] # "open"
      BY <2>1, <2>4, <2>6 DEF TellStored, Service!vars
    <2> QED
      BY <2>5, <2>6
  <1>7. CASE \E s \in Sock, m \in Msg : Send(s, m)
    <2>1. PICK s \in Sock, m \in Msg : Send(s, m)
      BY <1>7
    <2>2. Service!Accept(m)
      BY <2>1 DEF Send, clients, Service!Accept
    <2> QED
      BY <2>2 DEF Service!Next
  <1>8. CASE \E s, w \in Sock : PushWrite(s, w)
    <2>1. PICK s \in Sock, w \in Sock : PushWrite(s, w)
      BY <1>8
    <2>2. UNCHANGED <<queue, told>>
      BY <2>1 DEF PushWrite, db
    <2>3. CASE UNCHANGED <<have, seen>>
      BY <2>2, <2>3 DEF Service!vars
    <2>4. CASE have' = have \cup {cur[s][2]} /\ cur[s] \in Letter /\ seen' = seen
      <3>1. cur[s][2] \in Msg /\ cur[s][2] \in queue \cup have \cup Ageing
        BY <2>4, LetterMsg DEF IInv, LettersSafe, Safe
      <3>2. Service!Deliver(cur[s][2])
        BY <2>2, <2>4, <3>1 DEF Service!Deliver, Service!Known
      <3> QED
        BY <3>1, <3>2 DEF Service!Next
    <2>5. CASE seen' = seen \cup {cur[s]} /\ cur[s] \in Receipt /\ have' = have
      <3>1. CASE \E m \in Msg : cur[s] = Tick(m)
        <4>1. PICK m \in Msg : cur[s] = Tick(m)
          BY <3>1
        <4>2. m \in have
          BY <4>1 DEF IInv, AckFirst
        <4>3. {n \in Msg : Tick(n) \in seen'} = Ticked \cup {m}
          BY <2>5, <4>1, FramesDiffer
        <4>4. Service!ShowDelivered(m)
          BY <2>2, <2>5, <4>2, <4>3 DEF Service!ShowDelivered
        <4> QED
          BY <4>4 DEF Service!Next
      <3>2. CASE \A m \in Msg : cur[s] # Tick(m)
        <4>1. {n \in Msg : Tick(n) \in seen'} = Ticked
          BY <2>5, <3>2
        <4> QED
          BY <2>2, <2>5, <4>1 DEF Service!vars
      <3> QED
        BY <3>1, <3>2
    <2> QED
      BY <2>1, <2>3, <2>4, <2>5, FramesDiffer DEF PushWrite, Deliver
  <1>9. CASE Quiet
    BY <1>9 DEF Quiet, Service!vars
  <1> QED
    BY <1>2, <1>3, <1>4, <1>5, <1>6, <1>7, <1>8, <1>9, StepKinds DEF Moving

\* The relay implements the mailbox, whatever its instance.
THEOREM Refinement == Spec => ImplementsMailbox
  <1>1. Init => Service!Init
    BY DEF Init, Service!Init
  <1>2. IInv /\ [Next]_vars => [Service!Next]_(Service!vars)
    BY MailboxStep
  <1> QED
    BY <1>1, <1>2, Invariance, PTL DEF Spec, ImplementsMailbox, Service!Spec

-----------------------------------------------------------------------------
(* No delivery gap: for any number of devices, messages and receipts, any  *)
(* bound of the memory of acks, and any fault but the cancellation of a    *)
(* coroutine in its loop, if a flush may list all rows of a user (Roomy).  *)

\* The backlog is never longer than what one flush lists.
Roomy ==
    /\ IsFiniteSet(Msg) /\ Cardinality(Msg) <= FlushLimit
    /\ IsFiniteSet(Receipt) /\ Cardinality(Receipt) <= FlushLimit

\* The rows that are kept, for whomever.
Rows == ({"msg"} \X queue) \cup receipts

\* Coroutine t is to write its frame to s.  A flush counts for its own
\* connection only: another one's may fail before it gets there.
Showing(t, s) ==
    \/ pc[t] \in {"tell", "route", "store", "reselect", "live"}
    \/ pc[t] \in {"push_msg", "push_live"} /\ s \in todo[t]
    \/ pc[t] \in {"push_flush", "push_rflush"} /\ s = t /\ s \in todo[t]

\* The flush of s has f still before it.
ToList(f, s) ==
    \/ pc[s] = "select"
    \/ pc[s] \in {"flush", "push_flush"} /\ (f \in Receipt \/ f \in batch[s])
    \/ pc[s] \in {"rflush", "push_rflush"} /\ f \in batch[s]

\* f has been shown to s, is about to be, or is still before its flush.
Cover(f, s) ==
    \/ f \in shown[s]
    \/ \E t \in Sock : cur[t] = f /\ Showing(t, s)
    \/ ToList(f, s)

\* A client that is there is in the table, and no write to it has failed.
Registered == \A s \in Sock : link[s] = "open" =>
    s \in online /\ \A t \in Sock : s \notin failed[t]

\* A flush is about rows for its own user; as long as its own client is there,
\* a row that it pushes reaches somebody, so that the flush does not stop.
Aimed == \A s \in Sock :
    /\ \A f \in batch[s] : Addressee(f) = Owner[s]
    /\ pc[s] \in {"push_flush", "push_rflush"} /\ link[s] = "open" => s \in todo[s] \/ sent[s]

\* Whatever is kept for a user is covered on each connection that is there.
Covered == \A s \in Sock : link[s] = "open" =>
    \A f \in Rows : Addressee(f) = Owner[s] => Cover(f, s)

GapInv == Registered /\ Aimed /\ Covered

-----------------------------------------------------------------------------
(* Flushes.                                                                *)

\* A part of a small set is listed as a whole.
LEMMA ListedWhole ==
  ASSUME NEW S, IsFiniteSet(S), Cardinality(S) <= FlushLimit,
         NEW R \in SUBSET S, NEW B \in Listing(R)
  PROVE  B = R
  <1>1. /\ IsFiniteSet(R) /\ Cardinality(R) <= Cardinality(S)
        /\ Cardinality(S) \in Nat /\ Cardinality(R) \in Nat
    BY FS_Subset, FS_CardinalityType
  <1>2. /\ B \in SUBSET R
        /\ B = R \/ Cardinality(B) = FlushLimit
    BY DEF Listing
  <1>3. IsFiniteSet(R)
    BY <1>1
  <1>4. Cardinality(B) <= Cardinality(R) /\ (Cardinality(R) = Cardinality(B) => R = B)
    BY <1>2, <1>3, FS_Subset
  <1> QED
    BY <1>1, <1>2, <1>4 DEF RelayConstants

\* Rows and frames.
LEMMA RowFacts ==
  /\ \A f : f \in Rows <=> f \in receipts \/ \E m \in queue : f = <<"msg", m>>
  /\ \A m \in Msg : Addressee(<<"msg", m>>) = To[m] /\ <<"msg", m>> \notin Receipt
  /\ \A r \in Receipt : Addressee(r) = From[r[2]]
  <1>1. \A f : f \in Rows <=> f \in receipts \/ \E m \in queue : f = <<"msg", m>>
    BY DEF Rows
  <1>2. \A m \in Msg : Addressee(<<"msg", m>>) = To[m] /\ <<"msg", m>> \notin Receipt
    BY FramesDiffer DEF Addressee, Letter
  <1>3. \A k \in Kind : k # "msg"
    BY DEF Kind, RelayConstants
  <1>4. \A r \in Receipt : Addressee(r) = From[r[2]]
    BY <1>3 DEF Addressee, Receipt
  <1> QED
    BY <1>1, <1>2, <1>4

-----------------------------------------------------------------------------
(* Coverage.                                                               *)

\* Coverage survives a step of t if what t was to show is shown or still to be
\* shown, what it had to list is covered, and what it adds is in its hand.
LEMMA Carry ==
  ASSUME Covered, NEW t \in Sock,
         \A o \in Sock \ {t} :
            pc'[o] = pc[o] /\ cur'[o] = cur[o] /\ todo'[o] = todo[o] /\ batch'[o] = batch[o],
         \A s \in Sock : link'[s] = "open" => link[s] = "open" /\ shown[s] \subseteq shown'[s],
         \A f \in Rows' : f \in Rows \/ (cur'[t] = f /\ \A s \in Sock : Showing(t, s)'),
         \A s \in Sock :
            link'[s] = "open" /\ Showing(t, s) /\ cur[t] \in Rows' /\ Addressee(cur[t]) = Owner[s]
              => cur[t] \in shown'[s] \/ (cur'[t] = cur[t] /\ Showing(t, s)'),
         \A f \in Rows' :
            link'[t] = "open" /\ ToList(f, t) /\ Addressee(f) = Owner[t] => Cover(f, t)'
  PROVE  Covered'
  <1> SUFFICES ASSUME NEW s \in Sock, link'[s] = "open", NEW f \in Rows', Addressee(f) = Owner[s]
               PROVE  Cover(f, s)'
    BY DEF Covered
  <1>1. CASE f \notin Rows
    BY <1>1 DEF Cover
  <1>2. CASE f \in Rows
    <2>1. Cover(f, s)
      BY <1>2 DEF Covered
    <2>2. CASE f \in shown[s]
      BY <2>2 DEF Cover
    <2>3. ASSUME NEW o \in Sock, cur[o] = f, Showing(o, s) PROVE Cover(f, s)'
      <3>1. CASE o = t
        BY <2>3, <3>1 DEF Cover
      <3>2. CASE o # t
        <4>1. cur'[o] = f /\ Showing(o, s)'
          BY <2>3, <3>2 DEF Showing
        <4> QED
          BY <4>1 DEF Cover
      <3> QED
        BY <3>1, <3>2
    <2>4. CASE ToList(f, s)
      <3>1. CASE s = t
        BY <2>4, <3>1
      <3>2. CASE s # t
        BY <2>4, <3>2 DEF Cover, ToList
      <3> QED
        BY <3>1, <3>2
    <2> QED
      BY <2>1, <2>2, <2>3, <2>4 DEF Cover
  <1> QED
    BY <1>1, <1>2

\* Nothing moves, and clients are only lost.
LEMMA Still ==
  ASSUME Covered, UNCHANGED <<pc, cur, todo, batch, shown>>, Rows' \subseteq Rows,
         \A s \in Sock : link'[s] = "open" => link[s] = "open"
  PROVE  Covered'
  BY DEF Covered, Cover, Showing, ToList

-----------------------------------------------------------------------------
(* Registrations and the aim of flushes.                                   *)

\* At the start nobody is connected.
LEMMA InitGap == Init => GapInv
  BY DEF Init, GapInv, Registered, Aimed, Covered

\* A coroutine ends: its connection is closed.
LEMMA DropRegistered ==
  ASSUME TypeOK, Registered, NEW s \in Sock, Drop(s), online \ {s} \subseteq online'
  PROVE  Registered'
  BY DEF TypeOK, Registered, Drop

\* Sockets leave the table with their connection, or when they are dead.
LEMMA NextRegistered == TypeOK /\ Registered /\ [Next]_vars => Registered'
  <1> SUFFICES ASSUME TypeOK, Registered, [Next]_vars PROVE Registered'
    OBVIOUS
  <1> USE DEF TypeOK, pushing, memory, db, ids, clients
  <1>1. ASSUME UNCHANGED <<online, failed>>, \A s \in Sock : link'[s] = "open" => link[s] = "open"
        PROVE  Registered'
    BY <1>1 DEF Registered
  <1>2. ASSUME NEW s \in Sock, NEW u, NEW l, StartPush(s, u, l), UNCHANGED <<link, online>>
        PROVE  Registered'
    BY <1>2 DEF StartPush, Registered
  <1>3. ASSUME NEW s \in Sock, NEW l, PushReturns(s, l) PROVE Registered'
    BY <1>3 DEF PushReturns, Registered
  <1>4. ASSUME NEW s \in Sock, Close(s) PROVE Registered'
    BY <1>4, DropRegistered DEF Close
  <1>5. ASSUME NEW s \in Sock, Connect(s) PROVE Registered'
    BY <1>5 DEF Connect, Registered
  <1>6. ASSUME NEW s \in Sock, Setup(s) PROVE Registered'
    <2>1. CASE FlushSelect(s) \/ FlushSelectReceipts(s) \/ FlushEnd(s)
      BY <2>1, <1>1 DEF FlushSelect, FlushSelectReceipts, FlushEnd
    <2>2. ASSUME NEW f, NEW h, NEW l, FlushRow(s, f, h, l) PROVE Registered'
      BY <2>2, <1>1, <1>2 DEF FlushRow
    <2>3. CASE MessageFlushed(s) \/ ReceiptFlushed(s)
      BY <2>3, <1>3 DEF MessageFlushed, ReceiptFlushed, FlushPushed
    <2> QED
      BY <1>6, <2>1, <2>2, <2>3 DEF Setup, FlushMessage, FlushReceipt
  <1>7. ASSUME NEW s \in Sock, Push(s) PROVE Registered'
    <2>1. ASSUME NEW w \in Sock, PushWrite(s, w) PROVE Registered'
      BY <2>1 DEF PushWrite, Registered
    <2>2. CASE ExpectAck(s) \/ PushFailed(s) \/ LivePushed(s)
      BY <2>2, <1>3 DEF ExpectAck, PushFailed, LivePushed
    <2> QED
      BY <1>7, <2>1, <2>2 DEF Push
  <1>8. ASSUME NEW s \in Sock, Deliberate(s) PROVE Registered'
    <2>1. CASE RouteOnline(s) \/ LivePush(s)
      BY <2>1, <1>1, <1>2 DEF RouteOnline, LivePush
    <2>2. CASE TellStored(s) \/ RouteOffline(s) \/ Acked(s) \/ AckTimeout(s) \/ DeleteLoad(s)
               \/ DeleteCommit(s)
      BY <2>2, <1>1 DEF TellStored, RouteOffline, Acked, AckTimeout, DeleteLoad, DeleteCommit
    <2>3. CASE PopLoad(s) \/ PopCommit(s) \/ ConsumeTick(s) \/ StoreReceipt(s) \/ Reselect(s)
      BY <2>3, <1>1 DEF PopLoad, PopCommit, ConsumeTick, StoreReceipt, Reselect
    <2> QED
      BY <1>8, <2>1, <2>2, <2>3 DEF Deliberate
  <1>9. ASSUME NEW s \in Sock, Read(s) PROVE Registered'
    <2>1. ASSUME NEW m \in Msg, SendAgain(s, m) PROVE Registered'
      BY <2>1, <1>4 DEF SendAgain
    <2>2. ASSUME NEW m \in Msg,
                 Send(s, m) \/ AckRead(s, m) \/ TickAckRead(s, m)
                 \/ \E k \in PeerKind : ReceiptRead(s, k, m)
          PROVE  Registered'
      BY <2>2, <1>1 DEF Send, AckRead, TickAckRead, ReceiptRead
    <2>3. ASSUME NEW r \in Receipt, ReceiptAckRead(s, r) PROVE Registered'
      BY <2>3, <1>1 DEF ReceiptAckRead
    <2>4. ASSUME NEW u \in NudgeTo, Nudge(s, u) PROVE Registered'
      BY <2>4, <1>2 DEF Nudge
    <2> QED
      BY <1>9, <2>1, <2>2, <2>3, <2>4 DEF Read
  <1>10. CASE Surroundings
    <2>1. ASSUME NEW s \in Sock, Vanish(s) \/ HangUp(s) PROVE Registered'
      BY <2>1, <1>1 DEF Vanish, HangUp
    <2>2. ASSUME NEW s \in Sock, Cancelled(s) PROVE Registered'
      BY <2>2, <1>4 DEF Cancelled
    <2>3. ASSUME NEW s \in Sock, ConnectFails(s) PROVE Registered'
      BY <2>3, DropRegistered DEF ConnectFails
    <2>4. CASE Crash
      BY <2>4 DEF Crash, Registered
    <2>5. CASE Sweep
      BY <2>5, <1>1 DEF Sweep
    <2> QED
      BY <1>10, <1>5, <2>1, <2>2, <2>3, <2>4, <2>5 DEF Surroundings
  <1>11. CASE UNCHANGED vars
    BY <1>11, <1>1 DEF vars
  <1>12. ASSUME NEW s \in Sock, Disconnect(s) PROVE Registered'
    BY <1>12, <1>4 DEF Disconnect
  <1> QED
    BY <1>6, <1>7, <1>8, <1>9, <1>10, <1>11, <1>12 DEF Next, Run

\* The awaits of a flush's pushes.
FlushPc == {"push_flush", "push_rflush"}

\* The frames of a flush stay, or are dropped, and no flush writes anything.
LEMMA AimedKept ==
  ASSUME Aimed, \A s \in Sock : batch'[s] \subseteq batch[s],
         \A s \in Sock : pc'[s] \in FlushPc /\ link'[s] = "open" =>
            link[s] = "open" /\ pc[s] \in FlushPc /\ todo'[s] = todo[s] /\ sent'[s] = sent[s]
  PROVE  Aimed'
  BY DEF Aimed, FlushPc

\* A socket that is there is among those of its user.
LEMMA OpenInConns ==
  ASSUME Registered, NEW s \in Sock, link[s] = "open"
  PROVE  s \in Conns(Owner[s])
  BY DEF Registered, Conns

\* A flush pushes to a snapshot that its own socket is in.
LEMMA NextAimed == TypeOK /\ Registered /\ Aimed /\ [Next]_vars => Aimed'
  <1> SUFFICES ASSUME TypeOK, Registered, Aimed, [Next]_vars PROVE Aimed'
    OBVIOUS
  <1> USE DEF TypeOK, pushing, memory, db, ids, clients, Goto, FlushPc
  <1>1. ASSUME NEW s \in Sock, NEW u, NEW l, l \notin FlushPc, StartPush(s, u, l),
               UNCHANGED <<link, batch>>
        PROVE  Aimed'
    BY <1>1, AimedKept DEF StartPush
  <1>2. ASSUME NEW s \in Sock, NEW l, PushReturns(s, l), pc' = [pc EXCEPT ![s] = pc'[s]],
               pc'[s] \notin FlushPc, batch'[s] \subseteq batch[s],
               batch' = [batch EXCEPT ![s] = batch'[s]]
        PROVE  Aimed'
    BY <1>2, AimedKept DEF PushReturns
  <1>3. ASSUME NEW s \in Sock, pc'[s] \notin FlushPc, pc' = [pc EXCEPT ![s] = pc'[s]],
               UNCHANGED <<batch, todo, sent, link>>
        PROVE  Aimed'
    BY <1>3, AimedKept
  <1>4. ASSUME NEW s \in Sock, Drop(s) PROVE Aimed'
    BY <1>4, AimedKept DEF Drop
  <1>5. ASSUME UNCHANGED <<pc, batch, todo, sent>>,
               \A s \in Sock : link'[s] = "open" => link[s] = "open"
        PROVE  Aimed'
    BY <1>5, AimedKept
  <1>6. ASSUME NEW s \in Sock, Setup(s) PROVE Aimed'
    <2>1. CASE FlushSelect(s)
      <3>1. /\ pc' = [pc EXCEPT ![s] = "flush"] /\ UNCHANGED <<link, todo, sent>>
            /\ \E B \in SUBSET {m \in queue : To[m] = Owner[s]} :
                 batch' = [batch EXCEPT ![s] = {"msg"} \X B]
        BY <2>1 DEF FlushSelect, Listing
      <3>2. \A f \in batch'[s] : Addressee(f) = Owner[s]
        BY <3>1, RowFacts
      <3> QED
        BY <3>1, <3>2 DEF Aimed
    <2>2. CASE FlushSelectReceipts(s)
      <3>1. /\ pc' = [pc EXCEPT ![s] = "rflush"] /\ UNCHANGED <<link, todo, sent>>
            /\ \E B \in SUBSET {r \in receipts : From[r[2]] = Owner[s]} :
                 batch' = [batch EXCEPT ![s] = B]
        BY <2>2 DEF FlushSelectReceipts, Listing
      <3>2. \A f \in batch'[s] : Addressee(f) = Owner[s]
        BY <3>1, RowFacts
      <3> QED
        BY <3>1, <3>2 DEF Aimed
    <2>3. CASE FlushEnd(s)
      BY <2>3, <1>3 DEF FlushEnd
    <2>4. ASSUME NEW f, NEW h, NEW l, FlushRow(s, f, h, l) PROVE Aimed'
      <3>1. CASE Conns(Owner[s]) = {}
        BY <2>4, <3>1, AimedKept DEF FlushRow
      <3>2. CASE Conns(Owner[s]) # {}
        <4>1. /\ UNCHANGED link /\ batch' = [batch EXCEPT ![s] = @ \ {f}]
              /\ todo' = [todo EXCEPT ![s] = Conns(Owner[s])]
              /\ pc' = [pc EXCEPT ![s] = l] /\ sent' = [sent EXCEPT ![s] = FALSE]
          BY <2>4, <3>2 DEF FlushRow, StartPush
        <4>2. link[s] = "open" => s \in todo'[s]
          BY <4>1, OpenInConns
        <4> QED
          BY <4>1, <4>2 DEF Aimed
      <3> QED
        BY <3>1, <3>2
    <2>5. CASE MessageFlushed(s)
      BY <2>5, <1>2 DEF MessageFlushed, FlushPushed
    <2>6. CASE ReceiptFlushed(s)
      BY <2>6, <1>2 DEF ReceiptFlushed, FlushPushed
    <2> QED
      BY <1>6, <2>1, <2>2, <2>3, <2>4, <2>5, <2>6 DEF Setup, FlushMessage, FlushReceipt
  <1>7. ASSUME NEW s \in Sock, Push(s) PROVE Aimed'
    <2>1. ASSUME NEW w \in Sock, PushWrite(s, w) PROVE Aimed'
      <3>1. /\ UNCHANGED <<link, pc, batch>> /\ todo' = [todo EXCEPT ![s] = @ \ {w}]
            /\ \A o \in Sock : sent'[o] = sent[o] \/ sent'[o]
            /\ w = s /\ link[s] = "open" => sent'[s]
        BY <2>1 DEF PushWrite
      <3> QED
        BY <3>1 DEF Aimed
    <2>2. CASE ExpectAck(s)
      BY <2>2, <1>2 DEF ExpectAck
    <2>3. CASE PushFailed(s)
      BY <2>3, <1>2 DEF PushFailed, Resume
    <2>4. CASE LivePushed(s)
      BY <2>4, <1>2 DEF LivePushed, Resume
    <2> QED
      BY <1>7, <2>1, <2>2, <2>3, <2>4 DEF Push
  <1>8. ASSUME NEW s \in Sock, Deliberate(s) PROVE Aimed'
    <2>1. CASE RouteOnline(s)
      BY <2>1, <1>1 DEF RouteOnline
    <2>2. CASE LivePush(s)
      BY <2>2, <1>1, <1>3 DEF LivePush, Resume
    <2>3. CASE TellStored(s) \/ RouteOffline(s) \/ Acked(s) \/ AckTimeout(s) \/ DeleteLoad(s)
               \/ DeleteCommit(s)
      BY <2>3, <1>3
      DEF TellStored, RouteOffline, Acked, AckTimeout, DeleteLoad, DeleteCommit, Resume
    <2>4. CASE PopLoad(s) \/ PopCommit(s) \/ ConsumeTick(s) \/ StoreReceipt(s) \/ Reselect(s)
      BY <2>4, <1>3
      DEF PopLoad, PopCommit, ConsumeTick, StoreReceipt, Reselect, Resume, OweTick
    <2> QED
      BY <1>8, <2>1, <2>2, <2>3, <2>4 DEF Deliberate
  <1>9. ASSUME NEW s \in Sock, Read(s) PROVE Aimed'
    <2>1. ASSUME NEW m \in Msg, SendAgain(s, m) PROVE Aimed'
      BY <2>1, <1>4 DEF SendAgain, Close
    <2>2. ASSUME NEW m \in Msg,
                 Send(s, m) \/ AckRead(s, m) \/ TickAckRead(s, m)
                 \/ \E k \in PeerKind : ReceiptRead(s, k, m)
          PROVE  Aimed'
      BY <2>2, <1>3 DEF Send, AckRead, TickAckRead, ReceiptRead
    <2>3. ASSUME NEW r \in Receipt, ReceiptAckRead(s, r) PROVE Aimed'
      BY <2>3, <1>5 DEF ReceiptAckRead
    <2>4. ASSUME NEW u \in NudgeTo, Nudge(s, u) PROVE Aimed'
      BY <2>4, <1>1 DEF Nudge
    <2> QED
      BY <1>9, <2>1, <2>2, <2>3, <2>4 DEF Read
  <1>10. CASE Surroundings
    <2>1. ASSUME NEW s \in Sock, Vanish(s) \/ HangUp(s) PROVE Aimed'
      BY <2>1, <1>5 DEF Vanish, HangUp
    <2>2. ASSUME NEW s \in Sock, Cancelled(s) \/ ConnectFails(s) PROVE Aimed'
      BY <2>2, <1>4 DEF Cancelled, ConnectFails, Close
    <2>3. ASSUME NEW s \in Sock, Connect(s) PROVE Aimed'
      BY <2>3, AimedKept DEF Connect
    <2>4. CASE Crash
      BY <2>4, AimedKept DEF Crash
    <2>5. CASE Sweep
      BY <2>5, <1>5 DEF Sweep
    <2> QED
      BY <1>10, <2>1, <2>2, <2>3, <2>4, <2>5 DEF Surroundings
  <1>11. CASE UNCHANGED vars
    BY <1>11, <1>5 DEF vars
  <1>12. ASSUME NEW s \in Sock, Disconnect(s) PROVE Aimed'
    BY <1>12, <1>4 DEF Disconnect, Close
  <1> QED
    BY <1>6, <1>7, <1>8, <1>9, <1>10, <1>11, <1>12 DEF Next, Run

-----------------------------------------------------------------------------
(* Coverage, step by step.                                                 *)

\* What a step of t leaves alone: the other coroutines ...
Others(t) == \A o \in Sock \ {t} :
    pc'[o] = pc[o] /\ cur'[o] = cur[o] /\ todo'[o] = todo[o] /\ batch'[o] = batch[o]

\* ... and the clients, except that one may be lost.
Steady == \A s \in Sock : link'[s] = "open" => link[s] = "open" /\ shown[s] \subseteq shown'[s]

\* The awaits of a coroutine that neither sets up nor shows anything.
IdlePc == {"recv", "wait", "del_get", "del_commit", "pop_get", "pop_commit", "consume"}

\* Who shows nothing may do anything, as long as the row it adds is in its hand.
LEMMA IdleStep ==
  ASSUME Covered, NEW t \in Sock, pc[t] \in IdlePc, Others(t), Steady,
         \A f \in Rows' : f \in Rows \/ (cur'[t] = f /\ pc'[t] = "tell")
  PROVE  Covered'
  <1>1. \A s \in Sock : ~Showing(t, s)
    BY DEF Showing, IdlePc
  <1>2. \A f : ~ToList(f, t)
    BY DEF ToList, IdlePc
  <1>3. pc'[t] = "tell" => \A s \in Sock : Showing(t, s)'
    BY DEF Showing
  <1> QED
    BY <1>1, <1>2, <1>3, Carry DEF Others, Steady

\* The frames that t reads, and what it does between an ack and its tick.
LEMMA IdleCovered ==
  ASSUME TypeOK, Covered, NEW t \in Sock,
         \/ Read(t) \/ Disconnect(t) \/ Acked(t) \/ AckTimeout(t) \/ DeleteLoad(t)
         \/ DeleteCommit(t) \/ PopLoad(t) \/ PopCommit(t) \/ ConsumeTick(t)
  PROVE  Covered'
  <1> USE DEF TypeOK, pushing, memory, db, ids, clients, Goto, Work, Resume, At, IdlePc
  <1> DEFINE Simple == Others(t) /\ Steady /\ pc[t] \in IdlePc
  <1>0. ASSUME Simple, Rows' \subseteq Rows PROVE Covered'
    BY <1>0, IdleStep
  <1>1. ASSUME NEW m \in Msg, Send(t, m) PROVE Covered'
    <2>1. Simple
      BY <1>1 DEF Send, Others, Steady
    <2>2. \A f \in Rows' : f \in Rows \/ (cur'[t] = f /\ pc'[t] = "tell")
      BY <1>1 DEF Send, Rows
    <2> QED
      BY <2>1, <2>2, IdleStep
  <1>2. ASSUME Close(t), pc[t] = "recv" PROVE Covered'
    <2>1. Simple
      BY <1>2 DEF Close, Drop, Others, Steady
    <2>2. Rows' = Rows
      BY <1>2 DEF Close, Drop, Rows
    <2> QED
      BY <1>0, <2>1, <2>2
  <1>3. ASSUME NEW m \in Msg,
               AckRead(t, m) \/ TickAckRead(t, m) \/ \E k \in PeerKind : ReceiptRead(t, k, m)
        PROVE  Covered'
    <2>1. Simple
      BY <1>3 DEF AckRead, TickAckRead, ReceiptRead, Others, Steady
    <2>2. Rows' = Rows
      BY <1>3 DEF AckRead, TickAckRead, ReceiptRead, Rows
    <2> QED
      BY <1>0, <2>1, <2>2
  <1>4. ASSUME NEW r \in Receipt, ReceiptAckRead(t, r) PROVE Covered'
    <2>1. Simple
      BY <1>4 DEF ReceiptAckRead, Others, Steady
    <2>2. Rows' \subseteq Rows
      BY <1>4 DEF ReceiptAckRead, Rows
    <2> QED
      BY <1>0, <2>1, <2>2
  <1>5. ASSUME NEW u \in NudgeTo, Nudge(t, u) PROVE Covered'
    <2>1. Simple
      BY <1>5 DEF Nudge, StartPush, Others, Steady
    <2>2. Rows' = Rows
      BY <1>5 DEF Nudge, Rows
    <2> QED
      BY <1>0, <2>1, <2>2
  <1>6. CASE Acked(t) \/ AckTimeout(t) \/ DeleteLoad(t) \/ PopLoad(t)
    <2>1. Simple
      BY <1>6 DEF Acked, AckTimeout, DeleteLoad, PopLoad, OweTick, Others, Steady
    <2>2. Rows' = Rows
      BY <1>6 DEF Acked, AckTimeout, DeleteLoad, PopLoad, Rows
    <2> QED
      BY <1>0, <2>1, <2>2
  <1>7. CASE DeleteCommit(t) \/ PopCommit(t) \/ ConsumeTick(t)
    <2>1. Simple
      BY <1>7 DEF DeleteCommit, PopCommit, ConsumeTick, OweTick, Others, Steady
    <2>2. queue' \subseteq queue /\ receipts' \subseteq receipts
      BY <1>7 DEF DeleteCommit, PopCommit, ConsumeTick
    <2>3. Rows' \subseteq Rows
      BY <2>2 DEF Rows
    <2> QED
      BY <1>0, <2>1, <2>3
  <1>8. ASSUME NEW m \in Msg, SendAgain(t, m) PROVE Covered'
    BY <1>2, <1>8 DEF SendAgain
  <1>9. CASE Disconnect(t)
    BY <1>2, <1>9 DEF Disconnect
  <1> QED
    BY <1>1, <1>3, <1>4, <1>5, <1>6, <1>7, <1>8, <1>9 DEF Read

\* What t has in hand it goes on showing, until a push has reached everyone.
LEMMA ShowingCovered ==
  ASSUME TypeOK, Registered, Covered, NEW t \in Sock,
         \/ TellStored(t) \/ RouteOnline(t) \/ RouteOffline(t)
         \/ StoreReceipt(t) \/ Reselect(t) \/ LivePush(t)
  PROVE  Covered'
  <1> USE DEF TypeOK, pushing, memory, db, ids, clients, Goto, Work, Resume, At
  <1>1. \A f : ~ToList(f, t)
    BY DEF ToList, TellStored, RouteOnline, RouteOffline, StoreReceipt, Reselect, LivePush
  <1>2. Others(t)
    BY DEF Others, TellStored, RouteOnline, RouteOffline, StoreReceipt, Reselect, LivePush,
       StartPush
  <1>3. UNCHANGED <<link, shown>>
    BY DEF TellStored, RouteOnline, RouteOffline, StoreReceipt, Reselect, LivePush
  <1>4. ASSUME pc'[t] \in {"route", "reselect", "live"}, cur'[t] = cur[t],
               \A f \in Rows' : f \in Rows \/ f = cur[t]
        PROVE  Covered'
    <2>1. \A s \in Sock : Showing(t, s)'
      BY <1>4 DEF Showing
    <2> QED
      BY <1>1, <1>2, <1>3, <1>4, <2>1, Carry DEF Others
  <1>5. ASSUME UNCHANGED Rows,
               \A s \in Sock : link[s] = "open" /\ Addressee(cur[t]) = Owner[s] =>
                  cur'[t] = cur[t] /\ Showing(t, s)'
        PROVE  Covered'
    BY <1>1, <1>2, <1>3, <1>5, Carry DEF Others
  <1>6. CASE TellStored(t)
    BY <1>6, <1>4 DEF TellStored, Rows
  <1>7. CASE StoreReceipt(t) \/ Reselect(t)
    BY <1>7, <1>4 DEF StoreReceipt, Reselect, Rows
  <1>8. \A s \in Sock : link[s] = "open" /\ Addressee(cur[t]) = Owner[s] =>
          s \in Conns(Addressee(cur[t]))
    BY OpenInConns
  <1>9. CASE RouteOffline(t)
    <2>1. UNCHANGED Rows /\ Conns(Addressee(cur[t])) = {}
      BY <1>9 DEF RouteOffline, Rows
    <2> QED
      BY <1>5, <1>8, <2>1
  <1>10. ASSUME NEW l \in {"push_msg", "push_live"}, StartPush(t, Addressee(cur[t]), l),
                UNCHANGED <<cur, db>>
         PROVE  Covered'
    <2>1. \A s \in Conns(Addressee(cur[t])) : Showing(t, s)'
      BY <1>10 DEF StartPush, Showing
    <2>2. UNCHANGED Rows
      BY <1>10 DEF Rows
    <2> QED
      BY <1>5, <1>8, <1>10, <2>1, <2>2
  <1>11. CASE RouteOnline(t)
    BY <1>10, <1>11 DEF RouteOnline
  <1>12. CASE LivePush(t)
    <2>1. CASE Conns(Addressee(cur[t])) # {}
      BY <1>10, <1>12, <2>1 DEF LivePush
    <2>2. CASE Conns(Addressee(cur[t])) = {}
      <3>1. UNCHANGED Rows
        BY <1>12 DEF LivePush, Rows
      <3> QED
        BY <1>5, <1>8, <2>2, <3>1
    <2> QED
      BY <2>1, <2>2
  <1> QED
    BY <1>6, <1>7, <1>9, <1>11, <1>12

\* A socket that is written to has been shown the frame, if it is there.
LEMMA PushCovered ==
  ASSUME TypeOK, Covered, NEW t \in Sock, Push(t)
  PROVE  Covered'
  <1> USE DEF TypeOK, pushing, memory, db, ids, clients, Goto, Work, Resume, At
  <1>1. ASSUME NEW w \in Sock, PushWrite(t, w) PROVE Covered'
    <2>1. /\ UNCHANGED <<link, pc, cur, batch, db>> /\ pc[t] \in PushPc
          /\ todo' = [todo EXCEPT ![t] = @ \ {w}]
      BY <1>1 DEF PushWrite
    <2>2. /\ \A s \in Sock : shown[s] \subseteq shown'[s]
          /\ link[w] = "open" /\ cur[t] # NoFrame => cur[t] \in shown'[w]
      BY <1>1 DEF PushWrite, Deliver
    <2>3. NoFrame \notin Rows'
      BY FramesDiffer, <2>1 DEF Rows, Letter
    <2>4. Rows' = Rows
      BY <2>1 DEF Rows
    <2>5. \A s \in Sock : link'[s] = "open" /\ Showing(t, s) /\ cur[t] \in Rows' =>
            cur[t] \in shown'[s] \/ (cur'[t] = cur[t] /\ Showing(t, s)')
      BY <2>1, <2>2, <2>3 DEF Showing, PushPc
    <2>6. \A f : ToList(f, t) => ToList(f, t)'
      BY <2>1 DEF ToList
    <2>7. \A f : ToList(f, t)' => Cover(f, t)'
      BY DEF Cover
    <2> QED
      BY <2>1, <2>2, <2>4, <2>5, <2>6, <2>7, Carry
  <1>2. CASE ExpectAck(t) \/ PushFailed(t) \/ LivePushed(t)
    <2>1. /\ Others(t) /\ UNCHANGED <<link, shown, db>>
      BY <1>2 DEF ExpectAck, PushFailed, LivePushed, PushReturns, Others
    <2>2. \A s \in Sock : ~Showing(t, s)
      BY <1>2 DEF ExpectAck, PushFailed, LivePushed, PushReturns, Showing
    <2>3. \A f : ~ToList(f, t)
      BY <1>2 DEF ExpectAck, PushFailed, LivePushed, PushReturns, ToList
    <2>4. Rows' = Rows
      BY <2>1 DEF Rows
    <2> QED
      BY <2>1, <2>2, <2>3, <2>4, Carry DEF Others
  <1> QED
    BY <1>1, <1>2 DEF Push

\* Both listings of a flush are whole, and what it lists it shows to its own
\* connection before it goes on.
LEMMA SetupCovered ==
  ASSUME Roomy, TypeOK, Registered, Aimed, Covered, NEW t \in Sock, Setup(t)
  PROVE  Covered'
  <1> USE DEF TypeOK, pushing, memory, db, ids, clients, Goto, Work, At
  <1> DEFINE Moved == Others(t) /\ UNCHANGED <<link, shown>>
  \* No flush is over before it has shown what it has in hand.
  <1>0. ASSUME Moved, Rows' \subseteq Rows,
               link[t] = "open" => ~Showing(t, t) /\ \A f \in Rows' :
                  ToList(f, t) /\ Addressee(f) = Owner[t] => ToList(f, t)' \/ (cur'[t] = f /\ Showing(t, t)'),
               pc[t] \in SetupPc
        PROVE  Covered'
    <2>1. \A s \in Sock : link'[s] = "open" => ~Showing(t, s)
      BY <1>0 DEF Showing, SetupPc
    <2>2. ASSUME NEW f \in Rows', link'[t] = "open", ToList(f, t), Addressee(f) = Owner[t]
          PROVE  Cover(f, t)'
      BY <1>0, <2>2 DEF Cover
    <2> QED
      BY <1>0, <2>1, <2>2, Carry DEF Others
  <1>1. CASE FlushSelect(t)
    <2>1. PICK D \in SUBSET {m \in queue \cap Ageing : To[m] = Owner[t]} :
            /\ queue' = queue \ D
            /\ \E B \in Listing({m \in queue \ D : To[m] = Owner[t]}) :
                 batch' = [batch EXCEPT ![t] = {"msg"} \X B]
      BY <1>1 DEF FlushSelect
    <2>2. batch' = [batch EXCEPT ![t] = {"msg"} \X {m \in queue' : To[m] = Owner[t]}]
      <3> DEFINE R == {m \in queue \ D : To[m] = Owner[t]}
      <3>1. R \in SUBSET Msg /\ IsFiniteSet(Msg) /\ Cardinality(Msg) <= FlushLimit
        BY DEF Roomy
      <3>2. PICK B \in Listing(R) : batch' = [batch EXCEPT ![t] = {"msg"} \X B]
        BY <2>1
      <3> HIDE DEF R
      <3>3. B = R
        BY <3>1, ListedWhole
      <3> QED
        BY <2>1, <3>2, <3>3 DEF R
    <2>3. pc[t] = "select" /\ pc'[t] = "flush" /\ UNCHANGED receipts /\ Moved
      BY <1>1 DEF FlushSelect, Others
    <2>4. ASSUME NEW f \in Rows', Addressee(f) = Owner[t] PROVE ToList(f, t)'
      <3>1. CASE f \in receipts
        BY <2>3, <3>1 DEF ToList
      <3>2. ASSUME NEW m \in queue', f = <<"msg", m>> PROVE ToList(f, t)'
        <4>1. m \in Msg /\ To[m] = Owner[t]
          BY <2>1, <2>4, <3>2, RowFacts
        <4> QED
          BY <2>2, <2>3, <3>2, <4>1 DEF ToList
      <3> QED
        BY <2>3, <3>1, <3>2 DEF Rows
    <2>5. Rows' \subseteq Rows
      BY <2>1, <2>3 DEF Rows
    <2> QED
      BY <1>0, <2>3, <2>4, <2>5 DEF Showing, SetupPc
  <1>2. CASE FlushSelectReceipts(t)
    <2>1. PICK D \in SUBSET {r \in receipts : r[2] \in Ageing /\ From[r[2]] = Owner[t]} :
            /\ receipts' = receipts \ D
            /\ \E B \in Listing({r \in receipts \ D : From[r[2]] = Owner[t]}) :
                 batch' = [batch EXCEPT ![t] = B]
      BY <1>2 DEF FlushSelectReceipts
    <2>2. batch' = [batch EXCEPT ![t] = {r \in receipts' : From[r[2]] = Owner[t]}]
      <3> DEFINE R == {r \in receipts \ D : From[r[2]] = Owner[t]}
      <3>1. R \in SUBSET Receipt /\ IsFiniteSet(Receipt) /\ Cardinality(Receipt) <= FlushLimit
        BY DEF Roomy
      <3>2. PICK B \in Listing(R) : batch' = [batch EXCEPT ![t] = B]
        BY <2>1
      <3> HIDE DEF R
      <3>3. B = R
        BY <3>1, ListedWhole
      <3> QED
        BY <2>1, <3>2, <3>3 DEF R
    <2>3. /\ pc[t] = "flush" /\ batch[t] = {} /\ pc'[t] = "rflush"
          /\ UNCHANGED queue /\ Moved
      BY <1>2 DEF FlushSelectReceipts, Others
    <2>4. ASSUME NEW f \in Rows', Addressee(f) = Owner[t], ToList(f, t) PROVE ToList(f, t)'
      <3>1. f \in Receipt
        BY <2>3, <2>4 DEF ToList
      <3>2. f \in receipts'
        BY <2>3, <3>1, FramesDiffer DEF Rows, Letter
      <3>3. From[f[2]] = Owner[t]
        BY <2>4, <3>1, RowFacts
      <3> QED
        BY <2>2, <2>3, <3>2, <3>3 DEF ToList
    <2>5. Rows' \subseteq Rows
      BY <2>1, <2>3 DEF Rows
    <2> QED
      BY <1>0, <2>3, <2>4, <2>5 DEF Showing, SetupPc
  <1>3. CASE FlushEnd(t)
    <2>1. pc[t] = "rflush" /\ batch[t] = {} /\ Moved /\ UNCHANGED db
      BY <1>3 DEF FlushEnd, Others
    <2>2. \A f : ~ToList(f, t)
      BY <2>1 DEF ToList
    <2> QED
      BY <1>0, <2>1, <2>2 DEF Rows, Showing, SetupPc
  <1>4. ASSUME NEW f \in Frame, NEW h \in {"flush", "rflush"}, NEW l,
               l = IF h = "flush" THEN "push_flush" ELSE "push_rflush", FlushRow(t, f, h, l)
        PROVE  Covered'
    <2>1. pc[t] = h /\ Moved /\ UNCHANGED db
      BY <1>4 DEF FlushRow, StartPush, Others
    <2>2. Rows' = Rows
      BY <2>1 DEF Rows
    <2>3. ASSUME link[t] = "open", NEW g, ToList(g, t)
          PROVE  ToList(g, t)' \/ (cur'[t] = g /\ Showing(t, t)')
      <3>1. t \in Conns(Owner[t])
        BY <2>3, OpenInConns
      <3>2. /\ batch' = [batch EXCEPT ![t] = @ \ {f}] /\ cur'[t] = f
            /\ pc'[t] = l /\ todo'[t] = Conns(Owner[t])
        BY <1>4, <3>1 DEF FlushRow, StartPush
      <3>3. CASE g = f
        BY <1>4, <3>1, <3>2, <3>3 DEF Showing
      <3>4. CASE g # f
        BY <1>4, <2>1, <2>3, <3>2, <3>4 DEF ToList
      <3> QED
        BY <3>3, <3>4
    <2> QED
      BY <1>0, <2>1, <2>2, <2>3 DEF Showing, SetupPc
  <1>5. ASSUME NEW h \in FlushPc, NEW l, l = IF h = "push_flush" THEN "flush" ELSE "rflush",
               FlushPushed(t, h, l)
        PROVE  Covered'
    <2>1. pc[t] = h /\ todo[t] = {} /\ pc'[t] = l /\ Moved /\ UNCHANGED db
      BY <1>5 DEF FlushPushed, PushReturns, Others
    <2>2. Rows' = Rows
      BY <2>1 DEF Rows
    <2>3. link[t] = "open" => batch' = batch
      BY <1>5, <2>1 DEF FlushPushed, Aimed, FlushPc
    <2>4. ASSUME link[t] = "open", NEW g, ToList(g, t) PROVE ToList(g, t)'
      BY <1>5, <2>1, <2>3, <2>4 DEF ToList, FlushPc
    <2> QED
      BY <1>0, <2>1, <2>2, <2>4 DEF Showing, SetupPc, FlushPc
  <1> QED
    BY <1>1, <1>2, <1>3, <1>4, <1>5, LetterMsg, ReceiptMsg
    DEF Setup, FlushMessage, FlushReceipt, MessageFlushed, ReceiptFlushed, FlushPc

\* Connections begin with everything still to list, and end with nothing due.
LEMMA SurroundingsCovered ==
  ASSUME TypeOK, Covered, "cancel" \notin Faults, Surroundings
  PROVE  Covered'
  <1> USE DEF TypeOK, pushing, memory, db, ids, clients, Goto, Work, At
  <1>1. ASSUME NEW t \in Sock, Connect(t) PROVE Covered'
    <2> SUFFICES ASSUME NEW s \in Sock, link'[s] = "open", NEW f \in Rows', Addressee(f) = Owner[s]
                 PROVE  Cover(f, s)'
      BY DEF Covered
    <2>1. CASE s = t
      BY <1>1, <2>1 DEF Connect, Cover, ToList
    <2>2. CASE s # t
      <3>1. link[s] = "open" /\ f \in Rows
        BY <1>1, <2>2 DEF Connect, Rows
      <3>2. Cover(f, s)
        BY <3>1 DEF Covered
      <3>3. /\ pc[t] = "off" /\ UNCHANGED <<cur, todo, batch, shown>>
            /\ \A o \in Sock \ {t} : pc'[o] = pc[o]
        BY <1>1 DEF Connect
      <3>4. \A o \in Sock : Showing(o, s) => Showing(o, s)'
        BY <3>3 DEF Showing
      <3> QED
        BY <2>2, <3>2, <3>3, <3>4 DEF Cover, ToList
    <2> QED
      BY <2>1, <2>2
  <1>2. ASSUME NEW t \in Sock, ConnectFails(t) PROVE Covered'
    <2>1. Others(t) /\ link'[t] = "closed" /\ Steady /\ pc[t] \in SetupPc /\ UNCHANGED db
      BY <1>2 DEF ConnectFails, Drop, Others, Steady
    <2>2. Rows' = Rows
      BY <2>1 DEF Rows
    <2>3. \A s \in Sock : link'[s] = "open" => ~Showing(t, s)
      BY <2>1 DEF Showing, SetupPc
    <2> QED
      BY <2>1, <2>2, <2>3, Carry DEF Others, Steady
  <1>3. ASSUME NEW t \in Sock, Vanish(t) \/ HangUp(t) PROVE Covered'
    BY <1>3, Still DEF Vanish, HangUp, Rows
  <1>4. CASE Crash
    BY <1>4 DEF Crash, Covered
  <1>5. CASE Sweep
    BY <1>5, Still DEF Sweep, Rows
  <1>6. ASSUME NEW t \in Sock, Cancelled(t) PROVE Covered'
    BY <1>6 DEF Cancelled
  <1> QED
    BY <1>1, <1>2, <1>3, <1>4, <1>5, <1>6 DEF Surroundings

\* Every step keeps the invariant.
LEMMA NextGap ==
  ASSUME Roomy, "cancel" \notin Faults
  PROVE  TypeOK /\ GapInv /\ [Next]_vars => GapInv'
  <1> SUFFICES ASSUME TypeOK, GapInv, [Next]_vars PROVE GapInv'
    OBVIOUS
  <1> USE DEF GapInv
  <1>1. Registered' /\ Aimed'
    BY NextRegistered, NextAimed
  <1>2. Covered'
    <2>1. ASSUME NEW t \in Sock, Deliberate(t) PROVE Covered'
      BY <2>1, IdleCovered, ShowingCovered DEF Deliberate
    <2>2. ASSUME NEW t \in Sock, Run(t) \/ Read(t) PROVE Covered'
      BY <2>1, <2>2, SetupCovered, PushCovered, IdleCovered DEF Run
    <2>3. CASE UNCHANGED vars
      BY <2>3, Still DEF vars, pushing, db, clients, Rows
    <2> QED
      BY <2>2, <2>3, SurroundingsCovered DEF Next
  <1> QED
    BY <1>1, <1>2

\* In the loop nothing is left to list.
LEMMA NoGap == GapInv /\ TypeOK => NoDeliveryGap
  <1> SUFFICES ASSUME GapInv, TypeOK, NEW s \in Sock, InLoop(s), link[s] = "open",
                      NEW f \in RowsFor(Owner[s])
               PROVE  f \in shown[s] \/ AboutToShow(f, s)
    BY DEF NoDeliveryGap
  <1>1. f \in Rows /\ Addressee(f) = Owner[s]
    BY DEF RowsFor, Rows
  <1>2. Cover(f, s) /\ ~ToList(f, s)
    BY <1>1 DEF GapInv, Covered, InLoop, SetupPc, ToList
  <1> QED
    BY <1>2 DEF Cover, Showing, AboutToShow, PushPc

\* Every connection in its loop has been shown the rows of its user, or is about
\* to be: nothing falls between the listings of its flush and the live pushes.
THEOREM NothingFallsBetween ==
  ASSUME Roomy, "cancel" \notin Faults
  PROVE  Spec => []NoDeliveryGap
  <1>1. Init => TypeOK
    BY InitType
  <1>2. IInv /\ GapInv /\ [Next]_vars => GapInv'
    BY NextGap DEF IInv
  <1>3. IInv /\ GapInv => NoDeliveryGap
    BY NoGap DEF IInv
  <1> QED
    BY InitInv, NextInv, InitGap, <1>2, <1>3, PTL DEF Spec
=============================================================================
