-------------------------- MODULE BootStatusProofs --------------------------
(* Proofs about the boot status stream, for any set of connections, any    *)
(* number of steps and any buffer size.                                    *)
EXTENDS BootStatus, SequenceTheorems, TLAPS

(* The type invariant holds in every reachable state of the boot stream.   *)
THEOREM TypeCorrect == Spec => []TypeOK
<1>1. Init => TypeOK
  <2> SUFFICES ASSUME Init PROVE TypeOK
    OBVIOUS
  <2>1. <<>> \in Seq(Event) /\ DoneEvt \in Event
    BY BootAssumption DEF Event, DoneEvt
  <2> QED
    BY <2>1 DEF Init, TypeOK
<1>2. TypeOK /\ [Next]_vars => TypeOK'
  <2> SUFFICES ASSUME TypeOK, [Next]_vars PROVE TypeOK'
    OBVIOUS
  <2> USE BootAssumption DEF TypeOK, Event, DoneEvt
  <2>1. ASSUME NEW e \in Event, Publish(e) PROVE TypeOK'
    BY <2>1 DEF Publish, cvars
  <2>2. CASE Step
    BY <2>1, <2>2 DEF Step
  <2>3. CASE Done
    BY <2>1, <2>3 DEF Done
  <2>4. CASE Swap
    BY <2>4 DEF Swap, cvars
  <2>5. ASSUME NEW c \in Conn, Send(c) PROVE TypeOK'
    <3>1. CASE c \notin closed /\ Len(buf[c]) < cap[c]
      <4>1. Append(buf[c], evt) \in Seq(Event)
        BY AppendProperties
      <4>2. buf' = [buf EXCEPT ![c] = Append(@, evt)] /\ UNCHANGED <<dropped, panicked>>
        BY <2>5, <3>1 DEF Send
      <4>3. targets' = targets \ {c} /\ UNCHANGED <<history, done, pub, evt, handler, subs, cap, closed, conn, got>>
        BY <2>5 DEF Send
      <4> QED
        BY <4>1, <4>2, <4>3
    <3>2. CASE ~(c \notin closed /\ Len(buf[c]) < cap[c])
      BY <2>5, <3>2 DEF Send
    <3> QED
      BY <3>1, <3>2
  <2>6. CASE SendsDone
    BY <2>6 DEF SendsDone, cvars
  <2>7. CASE DropSlow
    BY <2>7 DEF DropSlow, CloseAll
  <2>8. CASE Finish
    BY <2>8 DEF Finish, CloseAll
  <2>9. ASSUME NEW c \in Conn, Client(c) PROVE TypeOK'
    <3> USE <2>9 DEF pvars
    <3>1. CASE Dispatch(c)
      BY <3>1 DEF Dispatch
    <3>2. CASE Subscribe(c)
      <4>1. BufferFor(history) \in Nat
        BY LenProperties DEF BufferFor
      <4> QED
        BY <3>2, <4>1 DEF Subscribe
    <3>3. CASE Receive(c)
      <4>1. Head(buf[c]) \in Event /\ Tail(buf[c]) \in Seq(Event)
        BY <3>3, HeadTailProperties DEF Receive
      <4> QED
        BY <3>3, <4>1 DEF Receive
    <3>4. CASE EndOfStream(c)
      BY <3>4 DEF EndOfStream
    <3>5. CASE Disconnect(c)
      BY <3>5 DEF Disconnect
    <3>6. CASE Cancel(c)
      BY <3>6 DEF Cancel, CloseAll
    <3> QED
      BY <3>1, <3>2, <3>3, <3>4, <3>5, <3>6 DEF Client
  <2>10. CASE UNCHANGED vars
    BY <2>10 DEF vars, pvars, cvars
  <2> QED
    BY <2>2, <2>3, <2>4, <2>5, <2>6, <2>7, <2>8, <2>9, <2>10 DEF Next, Publisher
<1> QED
  BY <1>1, <1>2, PTL DEF Spec

-----------------------------------------------------------------------------
(* Moving the head of a channel's buffer to its reader loses nothing.      *)
LEMMA MoveHead ==
  ASSUME NEW S, NEW s \in Seq(S), NEW t \in Seq(S), t # <<>>
  PROVE  Append(s, Head(t)) \o Tail(t) = s \o t
<1>1. Head(t) \in S /\ Tail(t) \in Seq(S) /\ Len(Tail(t)) = Len(t) - 1
  BY HeadTailProperties
<1>2. \A i \in 1 .. Len(Tail(t)) : Tail(t)[i] = t[i + 1]
  BY HeadTailProperties
<1>3. Append(s, Head(t)) \in Seq(S) /\ Len(Append(s, Head(t))) = Len(s) + 1
  BY <1>1, AppendProperties
<1>4. Len(Append(s, Head(t)) \o Tail(t)) = Len(s \o t)
  BY <1>1, <1>3
<1>5. \A i \in 1 .. Len(s \o t) : (Append(s, Head(t)) \o Tail(t))[i] = (s \o t)[i]
  BY <1>1, <1>2, <1>3
<1> QED
  BY <1>1, <1>3, <1>4, <1>5, ConcatProperties, SeqEqual

(* Sending to a channel extends what its reader sees by the event.         *)
LEMMA ConcatAppend ==
  ASSUME NEW S, NEW s \in Seq(S), NEW t \in Seq(S), NEW e \in S
  PROVE  s \o Append(t, e) = Append(s \o t, e)
<1>1. Append(t, e) \in Seq(S) /\ Len(Append(t, e)) = Len(t) + 1
  BY AppendProperties
<1>2. s \o t \in Seq(S) /\ Len(s \o t) = Len(s) + Len(t)
  BY ConcatProperties
<1> QED
  BY <1>1, <1>2, ConcatProperties, AppendProperties, SeqEqual

(* A sequence is a prefix of itself.                                       *)
LEMMA PrefixReflexive ==
  ASSUME NEW s
  PROVE  Len(s) \in Nat => IsPrefix(s, s)
BY DEF IsPrefix

(* A prefix stays one when the history grows.                              *)
LEMMA PrefixAppend ==
  ASSUME NEW S, NEW s \in Seq(S), NEW t \in Seq(S), NEW e \in S
  PROVE  /\ IsPrefix(s, Append(s, e))
         /\ IsPrefix(s, t) => IsPrefix(s, Append(t, e))
BY AppendProperties DEF IsPrefix

-----------------------------------------------------------------------------
(* What a connection sees is a sequence of events.                         *)
LEMMA SeenIsSeq ==
  ASSUME TypeOK, NEW c \in Conn
  PROVE  Seen(c) \in Seq(Event)
BY ConcatProperties DEF TypeOK, Seen

(* A step that touches neither the history, the buffers nor what was       *)
(* delivered keeps the stream of every connection as it was.               *)
LEMMA SeenUnchanged ==
  ASSUME UNCHANGED <<buf, got>>, NEW c \in Conn
  PROVE  Seen(c)' = Seen(c)
BY DEF Seen

(* Replay and live events join into a prefix of the history for every      *)
(* connection, whatever disconnects, drops and interleavings happen, and a *)
(* registered channel is always open (StreamIsHistory, RegisteredIsOpen).  *)
THEOREM StreamCorrect == Spec => [](RegisteredIsOpen /\ StreamIsHistory)
<1>1. Init => StreamInv
  <2> SUFFICES ASSUME Init PROVE StreamInv
    OBVIOUS
  <2>1. \A c \in Conn : Seen(c) = <<>>
    BY ConcatEmptySeq, EmptySeq DEF Init, Seen
  <2>2. IsPrefix(<<>>, <<>>)
    BY DEF IsPrefix
  <2> QED
    BY <2>1, <2>2 DEF Init, StreamInv, RegisteredIsOpen, StreamIsHistory
<1>2. TypeOK /\ StreamInv /\ [Next]_vars => StreamInv'
  <2> SUFFICES ASSUME TypeOK, StreamInv, [Next]_vars PROVE StreamInv'
    OBVIOUS
  <2> USE BootAssumption DEF StreamInv, RegisteredIsOpen
  <2>a. \A c \in Conn : Seen(c) \in Seq(Event)
    BY SeenIsSeq
  <2>h. history \in Seq(Event)
    BY DEF TypeOK
  <2>1. ASSUME NEW e \in Event, Publish(e) PROVE StreamInv'
    <3>1. \A c \in Conn : Seen(c)' = Seen(c)
      BY <2>1, SeenUnchanged DEF Publish, cvars
    <3>2. \A c \in Conn : IsPrefix(Seen(c), history')
      BY <2>1, <2>a, <2>h, PrefixAppend DEF Publish, StreamIsHistory
    <3>3. \A c \in targets' : history' = Append(Seen(c), evt')
      BY <2>1 DEF Publish, StreamIsHistory, TypeOK
    <3>4. StreamIsHistory'
      BY <2>1, <3>1, <3>2 DEF Publish, StreamIsHistory, cvars
    <3> QED
      BY <2>1, <3>1, <3>3, <3>4 DEF Publish, cvars, TypeOK
  <2>2. CASE Step
    BY <2>1, <2>2 DEF Step, Event, TypeOK
  <2>3. CASE Done
    BY <2>1, <2>3 DEF Done, Event, DoneEvt
  <2>4. CASE Swap
    <3>1. \A c \in Conn : Seen(c)' = Seen(c)
      BY <2>4, SeenUnchanged DEF Swap, cvars
    <3> QED
      BY <2>4, <3>1 DEF Swap, cvars, TypeOK, StreamIsHistory
  <2>5. ASSUME NEW c \in Conn, Send(c) PROVE StreamInv'
    <3>1. CASE c \notin closed /\ Len(buf[c]) < cap[c]
      <4>1. /\ targets' = targets \ {c}
            /\ buf' = [buf EXCEPT ![c] = Append(@, evt)]
            /\ UNCHANGED <<history, done, pub, evt, dropped, handler, subs, cap, closed, conn, got>>
        BY <2>5, <3>1, LenProperties DEF Send, TypeOK
      <4>2. Seen(c)' = history
        <5>1. Seen(c)' = got[c] \o Append(buf[c], evt)
          BY <4>1 DEF Seen, TypeOK
        <5>2. got[c] \o Append(buf[c], evt) = Append(Seen(c), evt)
          BY ConcatAppend DEF Seen, TypeOK
        <5> QED
          BY <2>5, <5>1, <5>2 DEF Send
      <4>3. \A d \in Conn \ {c} : Seen(d)' = Seen(d)
        BY <4>1 DEF Seen, TypeOK
      <4>4. IsPrefix(Seen(c)', history')
        BY <2>h, <4>1, <4>2, PrefixReflexive, LenProperties
      <4>5. StreamIsHistory'
        BY <4>1, <4>2, <4>3, <4>4 DEF StreamIsHistory
      <4>6. c \notin {d \in Conn : conn[d] \in {"idle", "dispatched"}}
        BY <2>5 DEF Send
      <4> QED
        BY <2>5, <4>1, <4>3, <4>5, <4>6 DEF TypeOK, Send
    <3>2. CASE c \in closed
      <4>1. /\ targets' = targets \ {c}
            /\ UNCHANGED <<history, pub, evt, subs, buf, closed, conn, got, dropped>>
        BY <2>5, <3>2 DEF Send
      <4>2. \A d \in Conn : Seen(d)' = Seen(d)
        BY <4>1, SeenUnchanged
      <4> QED
        BY <2>5, <3>2, <4>1, <4>2 DEF Send, StreamIsHistory, TypeOK
    <3>3. CASE c \notin closed /\ ~(Len(buf[c]) < cap[c])
      <4>1. /\ targets' = targets \ {c}
            /\ dropped' = dropped \cup {c}
            /\ UNCHANGED <<history, pub, evt, subs, buf, closed, conn, got>>
        BY <2>5, <3>3 DEF Send
      <4>2. \A d \in Conn : Seen(d)' = Seen(d)
        BY <4>1, SeenUnchanged
      <4> QED
        BY <2>5, <4>1, <4>2 DEF Send, StreamIsHistory, TypeOK
    <3> QED
      BY <3>1, <3>2, <3>3
  <2>6. CASE SendsDone
    <3>1. \A c \in Conn : Seen(c)' = Seen(c)
      BY <2>6, SeenUnchanged DEF SendsDone, cvars
    <3> QED
      BY <2>6, <3>1 DEF SendsDone, cvars, TypeOK, StreamIsHistory
  <2>7. CASE DropSlow
    <3>1. \A c \in Conn : Seen(c)' = Seen(c)
      BY <2>7, SeenUnchanged DEF DropSlow
    <3> QED
      BY <2>7, <3>1 DEF DropSlow, CloseAll, TypeOK, StreamIsHistory
  <2>8. CASE Finish
    <3>1. \A c \in Conn : Seen(c)' = Seen(c)
      BY <2>8, SeenUnchanged DEF Finish
    <3> QED
      BY <2>8, <3>1 DEF Finish, CloseAll, TypeOK, StreamIsHistory
  <2>9. ASSUME NEW c \in Conn, Client(c) PROVE StreamInv'
    <3>1. ASSUME Dispatch(c) \/ EndOfStream(c) \/ Disconnect(c) \/ Cancel(c)
          PROVE  StreamInv'
      <4>1. UNCHANGED <<history, buf, got, pub, evt, targets, dropped>>
        BY <3>1 DEF Dispatch, EndOfStream, Disconnect, Cancel, pvars
      <4>2. \A d \in Conn : Seen(d)' = Seen(d)
        BY <4>1, SeenUnchanged
      <4> QED
        <5>1. CASE Dispatch(c)
          BY <5>1, <4>1, <4>2 DEF Dispatch, TypeOK, StreamIsHistory
        <5>2. CASE EndOfStream(c)
          BY <5>2, <4>1, <4>2 DEF EndOfStream, TypeOK, StreamIsHistory
        <5>3. CASE Disconnect(c)
          BY <5>3, <4>1, <4>2 DEF Disconnect, TypeOK, StreamIsHistory
        <5>4. CASE Cancel(c)
          BY <5>4, <4>1, <4>2 DEF Cancel, CloseAll, TypeOK, StreamIsHistory
        <5> QED
          BY <3>1, <5>1, <5>2, <5>3, <5>4
    <3>2. CASE Subscribe(c)
      <4>0. ~(Len(history) > BufferFor(history))
        BY LenProperties DEF BufferFor, TypeOK
      <4>1. /\ UNCHANGED <<history, got, pub, evt, targets, dropped>>
            /\ buf' = [buf EXCEPT ![c] = history]
            /\ conn' = [conn EXCEPT ![c] = "streaming"]
        BY <3>2, <4>0 DEF Subscribe, pvars
      <4>2. got[c] = <<>> /\ conn[c] = "dispatched"
        BY <3>2 DEF Subscribe
      <4>3. Seen(c)' = history
        BY <4>1, <4>2, <2>h, ConcatEmptySeq DEF Seen, TypeOK
      <4>4. \A d \in Conn \ {c} : Seen(d)' = Seen(d)
        BY <4>1 DEF Seen, TypeOK
      <4>5. IsPrefix(Seen(c)', history')
        BY <2>h, <4>1, <4>3, PrefixReflexive, LenProperties
      <4>6. subs' \subseteq subs \cup {c} /\ closed' \subseteq closed \cup {c}
        BY <3>2, <4>0 DEF Subscribe
      <4>7. StreamIsHistory'
        BY <4>1, <4>3, <4>4, <4>5, <4>6 DEF StreamIsHistory
      <4>8. \A d \in targets' : history' = Append(Seen(d)', evt')
        BY <4>1, <4>2, <4>4 DEF TypeOK
      <4>9. RegisteredIsOpen'
        BY <3>2, <4>0, <4>1, <4>2 DEF Subscribe, TypeOK
      <4> QED
        BY <4>1, <4>2, <4>6, <4>7, <4>8, <4>9 DEF TypeOK
    <3>3. CASE Receive(c)
      <4>1. /\ UNCHANGED <<history, pub, evt, targets, dropped, subs, closed>>
            /\ buf' = [buf EXCEPT ![c] = Tail(@)]
            /\ got' = [got EXCEPT ![c] = Append(@, Head(buf[c]))]
            /\ conn[c] = "streaming"
            /\ buf[c] # <<>>
        BY <3>3 DEF Receive, pvars
      <4>2. conn'[c] \in {"streaming", "leaving"} /\ \A d \in Conn \ {c} : conn'[d] = conn[d]
        BY <3>3 DEF Receive, TypeOK
      <4>3. Seen(c)' = Seen(c)
        BY <4>1, MoveHead DEF Seen, TypeOK
      <4>4. \A d \in Conn \ {c} : Seen(d)' = Seen(d)
        BY <4>1 DEF Seen, TypeOK
      <4>5. StreamIsHistory'
        BY <4>1, <4>3, <4>4 DEF StreamIsHistory
      <4> QED
        BY <4>1, <4>2, <4>3, <4>4, <4>5 DEF TypeOK
    <3> QED
      BY <2>9, <3>1, <3>2, <3>3 DEF Client
  <2>10. CASE UNCHANGED vars
    <3>1. \A c \in Conn : Seen(c)' = Seen(c)
      BY <2>10, SeenUnchanged DEF vars, cvars
    <3>2. UNCHANGED <<history, subs, buf, closed, pub, evt, targets, dropped, conn, got>>
      BY <2>10 DEF vars, pvars, cvars
    <3> QED
      BY <3>1, <3>2 DEF TypeOK, StreamIsHistory
  <2> QED
    BY <2>2, <2>3, <2>4, <2>5, <2>6, <2>7, <2>8, <2>9, <2>10 DEF Next, Publisher
<1>3. StreamInv => RegisteredIsOpen /\ StreamIsHistory
  BY DEF StreamInv
<1> QED
  BY <1>1, <1>2, <1>3, TypeCorrect, PTL DEF Spec
=============================================================================
