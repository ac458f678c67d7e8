---------------------------- MODULE ProgressPage ----------------------------
(***************************************************************************)
(* From the bytes of an upload to the figures a browser shows: one item is *)
(* uploaded (S3Progress), its worker's messages reach the row of the event *)
(* loop, every tick of the spinner publishes a snapshot of the row         *)
(* (src/ui/update.go), and the page's feed carries it to a browser         *)
(* (WebFeed).  A progress message is dropped when the channel is full.     *)
(* With one message pump it is otherwise handled in its turn.  A run of    *)
(* bulkStatThreshold items and more arms a second pump (update.go, at      *)
(* BulkStatProgressMsg), which may hold one message back while the other   *)
(* goes on: the one that announces the item, or a report.                  *)
(***************************************************************************)
EXTENDS S3Progress, WebFeed

VARIABLES pumps,         \* how many message pumps are armed, 1 or 2
          announced,     \* whether the item's "Uploading" message was handled
          late,          \* the report that one of two pumps holds, if any
          row,           \* the figures of the worker's row
          done           \* bytes of finished items, Model.CompletedBytes

rowVars == <<pumps, announced, late, row, done>>
vars    == <<progressVars, feedVars, rowVars>>

Zero == [c |-> 0, w |-> 0, b |-> 0]

(* The snapshot: phase, SentBytes (liveTransferredBytes, which counts the  *)
(* rows that are uploading) and the row's committed figure.                *)
Over      == put \in {"over", "failed"}
Uploading == announced /\ ~Over
Snapshot  == [phase     |-> IF Over THEN "done"
                            ELSE IF announced THEN "uploading" ELSE "catching-up",
              sent      |-> done + (IF Uploading THEN row.w ELSE 0),
              committed |-> row.c]

NothingYet == [phase |-> "starting", sent |-> 0, committed |-> 0]

Init ==
  /\ ProgressInit /\ FeedInit(NothingYet)
  /\ pumps \in {1, 2} /\ announced \in {TRUE, pumps = 1}
  /\ late = {} /\ row = Zero /\ done = 0

(* The event loop handles a message, between two of its steps. *)
Handled(r) == publisher = "idle" /\ row' = r

(* A pump takes the report while the other holds nothing, and holds it. *)
HeldBack(r) == pumps = 2 /\ announced /\ late = {} /\ late' = {r}

(* A report is handled in its turn, held back, or dropped. *)
Sent(r) ==
  \/ Handled(r) /\ UNCHANGED late
  \/ HeldBack(r) /\ UNCHANGED row
  \/ UNCHANGED <<late, row>>

ProgressReport ==
  /\ Reported
  /\ Sent(Report)
  /\ UNCHANGED <<feedVars, pumps, announced, done>>

(* The report that finish makes of a Put that succeeds. *)
FinalReport ==
  /\ put = "final"
  /\ put' = "done"
  /\ Sent([c |-> Size, w |-> Size, b |-> Size])
  /\ UNCHANGED <<counters, kept, seed, part, tries, stored, ticker, feedVars,
                 pumps, announced, done>>

(* The worker's Done or Error message: the item's bytes move from the row  *)
(* to the total.                                                           *)
Outcome ==
  /\ publisher = "idle"
  /\ \/ put = "done"  /\ put' = "over"   /\ done' = Size
     \/ put = "error" /\ put' = "failed" /\ UNCHANGED done
  /\ row' = Zero
  /\ UNCHANGED <<counters, kept, seed, part, tries, stored, ticker, feedVars,
                 pumps, announced, late>>

(* The message that was held back is handled at last, whatever came since: *)
(* a report, or the announcement, which starts the row from zero.          *)
HandleLate ==
  \E r \in late :
    /\ Handled(r) /\ late' = {}
    /\ UNCHANGED <<progressVars, feedVars, pumps, announced, done>>

Announce ==
  /\ ~announced /\ Handled(Zero)
  /\ announced' = TRUE
  /\ UNCHANGED <<progressVars, feedVars, pumps, late, done>>

SpinnerTick == PublishSet(Snapshot) /\ UNCHANGED <<progressVars, rowVars>>

Transfer == UploadStep /\ UNCHANGED <<feedVars, rowVars>>
Feed     == FeedStep /\ UNCHANGED <<progressVars, rowVars>>

Next == \/ Transfer \/ ProgressReport \/ FinalReport \/ Outcome
        \/ HandleLate \/ Announce \/ SpinnerTick \/ Feed

Spec == Init /\ [][Next]_vars

(* The publisher and the handler are scheduled, and the select of the      *)
(* handler, which chooses at random, neglects neither its ticker nor its   *)
(* channel.  Nothing is assumed of the upload, the spinner or the          *)
(* heartbeat: the page must be right even when no other snapshot follows.  *)
Fairness ==
  /\ WF_vars(PublishWake /\ UNCHANGED <<progressVars, rowVars>>)
  /\ WF_vars((Greet \/ Written) /\ UNCHANGED <<progressVars, rowVars>>)
  /\ WF_vars(TakeUpdate /\ UNCHANGED <<progressVars, rowVars>>)
  /\ WF_vars(Tick /\ UNCHANGED <<progressVars, rowVars>>)

FairSpec == Spec /\ Fairness

(* ------------------------------ properties ----------------------------- *)
(* Types; a wake-up is pending only for a connection whose channel is in   *)
(* the set (PublishWake, Disconnect).                                      *)
Snapshots == [phase : {"starting", "catching-up", "uploading", "done"},
              sent : Nat, committed : Nat]

Figures   == [c : Nat, w : Nat, b : Nat]

TypeOK ==
  /\ committed \in Nat /\ wire \in Nat /\ buffered \in Nat /\ seed \in Nat
  /\ kept \subseteq stored /\ stored \subseteq Parts
  /\ part \in [Parts -> {"kept", "todo", "reading", "attempt", "sent", "done", "noetag", "failed"}]
  /\ tries \in [Parts -> 0..MaxTries]
  /\ ticker \in [at : {"idle", "wire", "buffered"}, c : Nat, w : Nat]
  /\ put \in {"parts", "stopOk", "stopErr", "final", "done", "error", "over", "failed"}
  /\ {store, frame, shown} \subseteq Snapshots
  /\ publisher \in {"idle", "wake"}
  /\ handler \in {"closed", "greet", "write", "loop"}
  /\ pending \in BOOLEAN /\ dirty \in BOOLEAN /\ (pending => Subscribed)
  /\ row \in Figures /\ done \in {0, Size}
  /\ pumps \in {1, 2} /\ announced \in BOOLEAN
  /\ late \subseteq Figures /\ \A q, r \in late : q = r

(* What a browser shows as committed is in the store, whatever was retried,*)
(* lost, dropped, held back or overtaken on the way ("committed" means     *)
(* confirmed by the destination, src/transfer/transfer.go).                *)
CommittedIsTrue == shown.committed <= Cardinality(stored)

(* "nested byte counts where committed <= uploaded <= buffered <= total"   *)
(* (src/transfer/transfer.go:24), which holds of every row as long as      *)
(* nothing was kept from an earlier upload and no request was repeated:    *)
(* the ticker loads the counters in that order while they advance in the   *)
(* opposite one.                                                           *)
Nested ==
  kept = {} /\ ~Retried => row.c <= row.w /\ row.w <= row.b /\ row.b <= Size

(* The bytes a browser shows as sent never go back while the upload goes   *)
(* well and one pump takes the messages (below bulkStatThreshold items):   *)
(* not between the last ticks and the final report, not when the item's    *)
(* bytes move from the row to the total, not after a reconnection.  A      *)
(* second pump may handle an older report last, and they do go back.       *)
SentNeverGoesBack ==
  [][\/ pumps = 2 \/ Retried \/ put = "failed" \/ put' = "failed"
     \/ shown'.sent >= shown.sent]_vars

(* A browser that stays connected comes to show what is stored, whichever  *)
(* wake-ups were dropped because one was pending.                          *)
PageCatchesUp == handler # "closed" ~> (shown = store \/ handler = "closed")
=============================================================================
