------------------------------ MODULE WebFeed ------------------------------
(***************************************************************************)
(* The feed of the progress page, src/web/server.go: Publish stores a      *)
(* snapshot and wakes the subscriber, whose channel holds one wake-up; the *)
(* handler of a browser's connection subscribes, sends what is stored, and *)
(* from then on sends at most one frame per tick of its ticker.            *)
(***************************************************************************)
VARIABLES store,       \* the snapshot in the store
          publisher,   \* "wake" while Publish is between set and the wake-up
          handler,     \* where the handler of the browser's connection is
          pending,     \* the channel holds a wake-up
          dirty,       \* the handler's flag
          frame,       \* the snapshot being written to the connection
          shown        \* what the browser shows

feedVars == <<store, publisher, handler, pending, dirty, frame, shown>>

(* store.get makes up a snapshot while nothing was published. *)
FeedInit(starting) ==
  /\ store = starting /\ frame = starting /\ shown = starting
  /\ publisher = "idle" /\ handler = "closed"
  /\ pending = FALSE /\ dirty = FALSE

PublishSet(snap) ==
  /\ publisher = "idle"
  /\ store' = snap
  /\ publisher' = "wake"
  /\ UNCHANGED <<handler, pending, dirty, frame, shown>>

(* Every connection has its channel in Server.subs, from Accept on. *)
Subscribed == handler # "closed"

(* A bug: a wake-up is kept for whoever connects next. *)
StrayWake ==
  /\ publisher = "wake"
  /\ pending' = TRUE
  /\ publisher' = "idle"
  /\ UNCHANGED <<store, handler, dirty, frame, shown>>

(* A wake-up already pending stands for this one too. *)
PublishWake ==
  /\ publisher = "wake"
  /\ pending' = Subscribed
  /\ publisher' = "idle"
  /\ UNCHANGED <<store, handler, dirty, frame, shown>>

(* A browser connects, for the first time or again: its handler subscribes *)
(* before it looks at the store.                                           *)
Accept ==
  /\ handler = "closed"
  /\ handler' = "greet"
  /\ UNCHANGED <<store, publisher, pending, dirty, frame, shown>>

(* send: the stored snapshot is taken, and then written. *)
Send ==
  /\ frame' = store
  /\ handler' = "write"
  /\ UNCHANGED <<store, publisher, shown>>

Greet     == handler = "greet" /\ Send /\ UNCHANGED <<pending, dirty>>
Tick      == handler = "loop" /\ dirty /\ dirty' = FALSE /\ Send /\ UNCHANGED pending
Heartbeat == handler = "loop" /\ Send /\ UNCHANGED <<pending, dirty>>

TakeUpdate ==
  /\ handler = "loop" /\ pending
  /\ pending' = FALSE /\ dirty' = TRUE
  /\ UNCHANGED <<store, publisher, handler, frame, shown>>

(* A bug: wake-ups that came while the frame was written are thrown away. *)
DrainingWritten ==
  /\ handler = "write"
  /\ shown' = frame
  /\ handler' = "loop"
  /\ pending' = FALSE
  /\ UNCHANGED <<store, publisher, dirty, frame>>

Written ==
  /\ handler = "write"
  /\ shown' = frame
  /\ handler' = "loop"
  /\ UNCHANGED <<store, publisher, pending, dirty, frame>>

(* The connection ends, or a write fails: the channel leaves the set. *)
Disconnect ==
  /\ handler # "closed"
  /\ handler' = "closed"
  /\ pending' = FALSE /\ dirty' = FALSE
  /\ frame' = shown
  /\ UNCHANGED <<store, publisher, shown>>

HandlerStep == Greet \/ Tick \/ TakeUpdate \/ Written
FeedStep    == PublishWake \/ Accept \/ HandlerStep \/ Heartbeat \/ Disconnect
=============================================================================
