----------------------------- MODULE BootStatus -----------------------------
(***************************************************************************)
(* The boot progress stream (svc/systemcontroller/boot_status.go) and the  *)
(* SSE handler that reads it (boot_handler.go), served by the swappable    *)
(* root handler (root_handler.go).                                         *)
(*                                                                         *)
(* One goroutine, the boot sequence, publishes; every connection is a      *)
(* goroutine of its own.  publish holds the mutex only while it changes    *)
(* the history and copies the subscriber set: the sends happen after the   *)
(* unlock, so a connection can leave between the copy and its send.        *)
(*                                                                         *)
(* A Go channel is a bounded buffer plus a closed flag.  A send on a       *)
(* closed channel panics, also inside a select with a default branch; the  *)
(* panic is not recovered and ends the process (panicked).                 *)
(***************************************************************************)
EXTENDS Naturals, Sequences, SequencesExt, FiniteSets

CONSTANTS
  Conn,       \* /boot-status requests; a reconnect is another element
  Impatient,  \* the requests whose client may go away mid-stream
  NSteps,     \* how many Step events a complete boot publishes
  BufSize     \* bootSubscriberBufSize

ASSUME BootAssumption ==
  /\ Impatient \subseteq Conn
  /\ NSteps \in Nat \ {0}
  /\ BufSize \in Nat \ {0}

VARIABLES
  history,   \* BootStatus.history
  done,      \* BootStatus.done
  subs,      \* BootStatus.subs: the connections whose channel is registered
  buf,       \* the events buffered in each connection's channel
  cap,       \* the capacity its channel was made with (0 before make)
  closed,    \* the connections whose channel was closed
  pub,       \* where publish is: "idle", "send", "drop" or "finish"
  evt,       \* the event being published
  targets,   \* the copied subscribers not sent to yet
  dropped,   \* the subscribers whose buffer was found full
  handler,   \* RootHandler's delegate: "stub" or "full"
  conn,      \* where each request is
  got,       \* what was written to each request's client
  panicked   \* the process died of a send on a closed channel

pvars == <<history, done, pub, evt, targets, dropped, handler>>
cvars == <<subs, buf, cap, closed, conn, got>>
vars == <<pvars, cvars, panicked>>

(* An event is the number of a Step, or the terminal Done event. *)
DoneEvt == 0
Event == 0 .. NSteps

TypeOK ==
  /\ history \in Seq(Event)
  /\ done \in BOOLEAN
  /\ subs \subseteq Conn
  /\ buf \in [Conn -> Seq(Event)]
  /\ cap \in [Conn -> Nat]
  /\ closed \subseteq Conn
  /\ pub \in {"idle", "send", "drop", "finish"}
  /\ evt \in Event
  /\ targets \subseteq Conn
  /\ dropped \subseteq Conn
  /\ handler \in {"stub", "full"}
  /\ conn \in [Conn -> {"idle", "dispatched", "replaying", "streaming", "leaving", "gone"}]
  /\ got \in [Conn -> Seq(Event)]
  /\ panicked \in BOOLEAN

Init ==
  /\ history = <<>>
  /\ done = FALSE
  /\ subs = {}
  /\ buf = [c \in Conn |-> <<>>]
  /\ cap = [c \in Conn |-> 0]
  /\ closed = {}
  /\ pub = "idle"
  /\ evt = DoneEvt
  /\ targets = {}
  /\ dropped = {}
  /\ handler = "stub"
  /\ conn = [c \in Conn |-> "idle"]
  /\ got = [c \in Conn |-> <<>>]
  /\ panicked = FALSE

-----------------------------------------------------------------------------
(* Nobody holds BootStatus.mu across steps but a Subscribe whose replay     *)
(* blocks on a full channel.                                                *)
MuFree == \A c \in Conn : conn[c] # "replaying"

(* The publisher: the boot goroutine. *)

(* The first critical section of publish: nothing follows Done. *)
Publish(e) ==
  /\ pub = "idle"
  /\ MuFree
  /\ ~done
  /\ history' = Append(history, e)
  /\ done' = (e = DoneEvt)
  /\ evt' = e
  /\ targets' = subs
  /\ dropped' = {}
  /\ pub' = "send"
  /\ UNCHANGED <<handler, cvars, panicked>>

(* bs.Step: the last step, "ready", comes after the handler swap. *)
Step ==
  /\ Len(history) < NSteps
  /\ Len(history) = NSteps - 1 => handler = "full"
  /\ Publish(Len(history) + 1)

(* bs.Done: at the end of a complete boot, or from boot.close() when a     *)
(* stage failed.                                                           *)
Done == Publish(DoneEvt)

(* RootHandler.Swap, once every stage before "ready" succeeded. *)
Swap ==
  /\ pub = "idle"
  /\ ~done
  /\ handler = "stub"
  /\ Len(history) = NSteps - 1
  /\ handler' = "full"
  /\ UNCHANGED <<history, done, pub, evt, targets, dropped, cvars, panicked>>

(* One iteration of the send loop, outside the mutex; map order is free. *)
Send(c) ==
  /\ pub = "send"
  /\ c \in targets
  /\ targets' = targets \ {c}
  /\ \/ /\ c \in closed
        /\ panicked' = TRUE
        /\ UNCHANGED <<buf, dropped>>
     \/ /\ c \notin closed
        /\ Len(buf[c]) < cap[c]
        /\ buf' = [buf EXCEPT ![c] = Append(@, evt)]
        /\ UNCHANGED <<dropped, panicked>>
     \/ /\ c \notin closed
        /\ Len(buf[c]) >= cap[c]
        /\ dropped' = dropped \cup {c}
        /\ UNCHANGED <<buf, panicked>>
  /\ UNCHANGED <<history, done, pub, evt, handler, subs, cap, closed, conn, got>>

SendsDone ==
  /\ pub = "send"
  /\ targets = {}
  /\ pub' = "drop"
  /\ UNCHANGED <<history, done, evt, targets, dropped, handler, cvars, panicked>>

(* Removing and closing subscribers, in one critical section. *)
CloseAll(S) ==
  /\ subs' = subs \ S
  /\ closed' = closed \cup (S \cap subs)

DropSlow ==
  /\ pub = "drop"
  /\ dropped # {} => MuFree
  /\ CloseAll(dropped)
  /\ pub' = IF evt = DoneEvt THEN "finish" ELSE "idle"
  /\ dropped' = {}
  /\ UNCHANGED <<history, done, evt, targets, handler, buf, cap, conn, got, panicked>>

(* After Done, every surviving subscriber's channel is closed. *)
Finish ==
  /\ pub = "finish"
  /\ MuFree
  /\ CloseAll(subs)
  /\ pub' = "idle"
  /\ UNCHANGED <<history, done, evt, targets, dropped, handler, buf, cap, conn, got, panicked>>

-----------------------------------------------------------------------------
(* A connection: streamBootStatus. *)

(* RootHandler.ServeHTTP loads the delegate once; only the stub knows      *)
(* /boot-status.                                                           *)
Dispatch(c) ==
  /\ conn[c] = "idle"
  /\ handler = "stub"
  /\ conn' = [conn EXCEPT ![c] = "dispatched"]
  /\ UNCHANGED <<pvars, subs, buf, cap, closed, got, panicked>>

(* Mutant: every channel has the same buffer, however long the history is. *)
BufferFor_Fixed(h) == BufSize

(* The buffer of a new channel: the whole replay and headroom. *)
BufferFor(h) == Len(h) + BufSize

(* Mutant: a subscriber that arrives after Done is registered like any     *)
(* other, to wait for an event that never comes.                           *)
Subscribe_AfterDoneRegisters(c) ==
  /\ conn[c] = "dispatched"
  /\ MuFree
  /\ cap' = [cap EXCEPT ![c] = BufferFor(history)]
  /\ conn' = [conn EXCEPT ![c] = "streaming"]
  /\ buf' = [buf EXCEPT ![c] = IF done THEN <<>> ELSE history]
  /\ subs' = subs \cup {c}
  /\ UNCHANGED <<pvars, closed, got, panicked>>

(* Subscribe: the history is replayed into the new channel under the mutex, *)
(* where nobody reads it yet: what does not fit blocks the replay for ever. *)
(* After Done the channel is closed at once and never registered.           *)
Subscribe(c) ==
  /\ conn[c] = "dispatched"
  /\ MuFree
  /\ cap' = [cap EXCEPT ![c] = BufferFor(history)]
  /\ IF Len(history) > BufferFor(history)
     THEN /\ conn' = [conn EXCEPT ![c] = "replaying"]
          /\ UNCHANGED <<buf, subs, closed>>
     ELSE /\ conn' = [conn EXCEPT ![c] = "streaming"]
          /\ buf' = [buf EXCEPT ![c] = history]
          /\ subs' = IF done THEN subs ELSE subs \cup {c}
          /\ closed' = IF done THEN closed \cup {c} ELSE closed
  /\ UNCHANGED <<pvars, got, panicked>>

(* The client is sent the next event; a Done event ends the stream. *)
Receive(c) ==
  /\ conn[c] = "streaming"
  /\ buf[c] # <<>>
  /\ got' = [got EXCEPT ![c] = Append(@, Head(buf[c]))]
  /\ buf' = [buf EXCEPT ![c] = Tail(@)]
  /\ conn' = [conn EXCEPT ![c] = IF Head(buf[c]) = DoneEvt THEN "leaving" ELSE @]
  /\ UNCHANGED <<pvars, subs, cap, closed, panicked>>

(* The channel is closed and drained. *)
EndOfStream(c) ==
  /\ conn[c] = "streaming"
  /\ buf[c] = <<>>
  /\ c \in closed
  /\ conn' = [conn EXCEPT ![c] = "leaving"]
  /\ UNCHANGED <<pvars, subs, buf, cap, closed, got, panicked>>

(* The client went away: its context is cancelled or a write failed. *)
Disconnect(c) ==
  /\ c \in Impatient
  /\ conn[c] = "streaming"
  /\ conn' = [conn EXCEPT ![c] = "leaving"]
  /\ UNCHANGED <<pvars, subs, buf, cap, closed, got, panicked>>

(* The deferred cancel(): only a registered channel is closed. *)
Cancel(c) ==
  /\ conn[c] = "leaving"
  /\ MuFree
  /\ conn' = [conn EXCEPT ![c] = "gone"]
  /\ CloseAll({c})
  /\ UNCHANGED <<pvars, buf, cap, got, panicked>>

-----------------------------------------------------------------------------
Publisher == Step \/ Done \/ Swap \/ (\E c \in Conn : Send(c)) \/ SendsDone \/ DropSlow \/ Finish

Client(c) ==
  \/ Dispatch(c)
  \/ Subscribe(c)
  \/ Receive(c)
  \/ EndOfStream(c)
  \/ Disconnect(c)
  \/ Cancel(c)

Next ==
  /\ ~panicked
  /\ \/ Publisher
     \/ \E c \in Conn : Client(c)

Spec == Init /\ [][Next]_vars

(* The boot goroutine always has a next statement to run, and the sends it *)
(* makes never block; a dispatched request's goroutine is scheduled too.   *)
(* Whether a client connects or disconnects is up to the client.           *)
BootRuns == WF_vars(~panicked /\ Publisher)
HandlersRun ==
  \A c \in Conn :
    WF_vars(~panicked /\ (Subscribe(c) \/ Receive(c) \/ EndOfStream(c) \/ Cancel(c)))

FairSpec == Spec /\ BootRuns

-----------------------------------------------------------------------------
(* Properties *)

(* What a connection was sent and what waits in its channel.               *)
Seen(c) == got[c] \o buf[c]

(* The mutex discipline of subs: a registered channel is open, belongs to  *)
(* a request that still runs, and is therefore closed at most once,        *)
(* whichever of publish, Done and cancel gets to it first.  (A second      *)
(* close would panic too.)                                                 *)
RegisteredIsOpen ==
  \A c \in subs : c \notin closed /\ conn[c] \in {"streaming", "leaving"}

(* Replay and live stream join without a gap, a duplicate or a swap: every *)
(* connection sees a prefix of the history, and a registered connection    *)
(* the current publish has dealt with sees all of it ("late subscribers    *)
(* never miss earlier steps", Subscribe).                                  *)
StreamIsHistory ==
  \A c \in Conn :
    /\ IsPrefix(Seen(c), history)
    /\ c \in subs \ (targets \cup dropped) => Seen(c) = history

(* The inductive invariant behind the two properties above: a request that *)
(* has no channel yet is in none of the sets, the loops of publish leave   *)
(* nothing behind, and a subscriber still to be sent to lacks exactly the  *)
(* event being published.                                                  *)
StreamInv ==
  /\ \A c \in Conn :
       conn[c] \in {"idle", "dispatched"} =>
         /\ c \notin subs \cup closed \cup targets \cup dropped
         /\ got[c] = <<>>
         /\ buf[c] = <<>>
  /\ pub = "idle" => targets = {} /\ dropped = {}
  /\ pub = "drop" => targets = {}
  /\ pub = "finish" => targets = {} /\ dropped = {}
  /\ \A c \in targets : history = Append(Seen(c), evt)
  /\ RegisteredIsOpen
  /\ StreamIsHistory

(* "Thread-safety: all methods are safe for concurrent use": the boot      *)
(* sequence never dies of a send on a channel that cancel() closed.        *)
NeverPanics == ~panicked

(* The boot sequence is never stalled by a stuck consumer: publish returns *)
(* even when no client ever reads, and no subscriber that arrives in the   *)
(* middle of it keeps the mutex with the replay of a long history.         *)
PublishReturns == pub # "idle" ~> (pub = "idle" \/ panicked)

(* Every stream ends: once the boot published Done, a dispatched request   *)
(* is over when its goroutine is scheduled, also when it subscribes late.  *)
(* Nothing is assumed of the handlers for PublishReturns above.            *)
StreamsEnd ==
  HandlersRun =>
    \A c \in Conn : conn[c] = "dispatched" ~> (conn[c] = "gone" \/ panicked)
=============================================================================
