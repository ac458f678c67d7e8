----------------------------- MODULE S3Progress -----------------------------
(***************************************************************************)
(* The byte counters of one resumed S3 upload (Put, resumeMultipart and    *)
(* uploadMissingParts of src/transfer/s3backend): three atomic counters    *)
(* advanced by the goroutines of the parts, the ticker that loads them one *)
(* after the other and reports, and the final report.  Every part counts   *)
(* as one; a request's body as one read.                                   *)
(***************************************************************************)
EXTENDS Naturals, FiniteSets

CONSTANTS Parts,         \* the parts of the upload
          Concurrency,   \* requests at a time
          MaxTries       \* attempts the SDK makes at a request

ASSUME ProgressAssumption ==
  IsFiniteSet(Parts) /\ Concurrency \in Nat \ {0} /\ MaxTries \in Nat \ {0}

VARIABLES committed, wire, buffered,  \* uploadCounters, and Put's buffered
          kept,          \* parts found in the store with the source's bytes
          seed,          \* additions made for the kept parts, three for each
          part,          \* the goroutine of each missing part
          tries,         \* attempts made at its request
          stored,        \* parts the store holds
          ticker,        \* what the ticker has loaded
          put            \* where Put is

progressVars == <<committed, wire, buffered, kept, seed, part, tries, stored, ticker, put>>
counters     == <<committed, wire, buffered>>

Size     == Cardinality(Parts)
NoTick   == [at |-> "idle", c |-> 0, w |-> 0]
InFlight == {p \in Parts : part[p] \in {"reading", "attempt", "sent"}}
Failed   == \E p \in Parts : part[p] \in {"failed", "noetag"}
Retried  == \E p \in Parts : tries[p] > 1

ProgressInit ==
  /\ committed = 0 /\ wire = 0 /\ buffered = 0 /\ seed = 0
  /\ kept \in SUBSET Parts /\ stored = kept
  /\ part = [p \in Parts |-> IF p \in kept THEN "kept" ELSE "todo"]
  /\ tries = [p \in Parts |-> 0]
  /\ ticker = NoTick
  /\ put = "parts"

Seeded == seed = 3 * Cardinality(kept)

(* The three additions for each kept part, in their order. *)
Seed ==
  /\ put = "parts" /\ seed < 3 * Cardinality(kept)
  /\ seed' = seed + 1
  /\ \/ seed % 3 = 0 /\ committed' = committed + 1 /\ UNCHANGED <<wire, buffered>>
     \/ seed % 3 = 1 /\ wire' = wire + 1 /\ UNCHANGED <<committed, buffered>>
     \/ seed % 3 = 2 /\ buffered' = buffered + 1 /\ UNCHANGED <<committed, wire>>
  /\ UNCHANGED <<kept, part, tries, stored, ticker, put>>

(* ----------------------- the goroutine of a part ----------------------- *)
PartTo(p, pc) == part' = [part EXCEPT ![p] = pc]

(* firstErr is read without a lock: the loop may see a failure late. *)
StartPart(p) ==
  /\ put = "parts" /\ Seeded /\ part[p] = "todo"
  /\ Cardinality(InFlight) < Concurrency
  /\ PartTo(p, "reading")
  /\ UNCHANGED <<counters, kept, seed, tries, stored, ticker, put>>

(* The part is read into memory and counted, or the source fails. *)
ReadPart(p) ==
  /\ part[p] = "reading"
  /\ \/ buffered' = buffered + 1 /\ PartTo(p, "attempt")
     \/ UNCHANGED buffered /\ PartTo(p, "failed")
  /\ UNCHANGED <<committed, wire, kept, seed, tries, stored, ticker, put>>

(* A request, the first one or a retry, reads its body on to the wire. *)
Transmit(p) ==
  /\ part[p] = "attempt"
  /\ wire' = wire + 1
  /\ tries' = [tries EXCEPT ![p] = @ + 1]
  /\ PartTo(p, "sent")
  /\ UNCHANGED <<committed, buffered, kept, seed, stored, ticker, put>>

(* A bug: the bytes of all attempts are counted as sent by the last one. *)
GreedyAnswer(p) ==
  /\ part[p] = "sent"
  /\ stored' = stored \cup {p}
  /\ committed' = committed + tries[p]
  /\ PartTo(p, "done") \/ PartTo(p, "noetag")
  /\ UNCHANGED <<wire, buffered, kept, seed, tries, ticker, put>>

(* The store takes the part, and its status of 2xx commits the bytes this  *)
(* attempt sent (RoundTrip).  An answer without an ETag fails the part     *)
(* nevertheless.                                                           *)
Answer(p) ==
  /\ part[p] = "sent"
  /\ stored' = stored \cup {p}
  /\ committed' = committed + 1
  /\ PartTo(p, "done") \/ PartTo(p, "noetag")
  /\ UNCHANGED <<wire, buffered, kept, seed, tries, ticker, put>>

(* The request fails, or its answer is lost: the SDK tries again or gives  *)
(* up, at the latest after the last attempt, and at once when the run was  *)
(* cancelled.                                                              *)
NoAnswer(p) ==
  /\ part[p] = "sent"
  /\ stored' \in {stored, stored \cup {p}}
  /\ \/ tries[p] < MaxTries /\ PartTo(p, "attempt")
     \/ PartTo(p, "failed")
  /\ UNCHANGED <<counters, kept, seed, tries, ticker, put>>

(* The loop over the parts came to its end, or stopped because one failed  *)
(* or the run was cancelled; without a failure the upload is completed.    *)
(* Then Put closes the ticker's channel.                                   *)
PartsEnd ==
  /\ put = "parts" /\ Seeded /\ InFlight = {}
  /\ \/ (Failed \/ \E p \in Parts : part[p] = "todo") /\ put' = "stopErr"
     \/ (\A p \in Parts : part[p] \in {"kept", "done"}) /\ put' \in {"stopOk", "stopErr"}
  /\ UNCHANGED <<counters, kept, seed, part, tries, stored, ticker>>

(* ---------------------- the ticker and the reports --------------------- *)
LoadCommitted ==
  /\ ticker.at = "idle" /\ put \in {"parts", "stopOk", "stopErr"}
  /\ ticker' = [ticker EXCEPT !.at = "wire", !.c = committed]
  /\ UNCHANGED <<counters, kept, seed, part, tries, stored, put>>

LoadWire ==
  /\ ticker.at = "wire"
  /\ ticker' = [ticker EXCEPT !.at = "buffered", !.w = wire]
  /\ UNCHANGED <<counters, kept, seed, part, tries, stored, put>>

(* A bug: committed is loaded last. *)
LateReport == [c |-> committed, w |-> ticker.w, b |-> buffered]

(* The last load, and the call of progress with the figures of Report. *)
Report == [c |-> ticker.c, w |-> ticker.w, b |-> buffered]

Reported ==
  /\ ticker.at = "buffered"
  /\ ticker' = NoTick
  /\ UNCHANGED <<counters, kept, seed, part, tries, stored, put>>

(* A bug: finish does not wait for the ticker. *)
HastyJoin ==
  /\ put \in {"stopOk", "stopErr"}
  /\ put' = IF put = "stopOk" THEN "final" ELSE "error"
  /\ UNCHANGED <<counters, kept, seed, part, tries, stored, ticker>>

(* wg.Wait of finish: the ticker has returned. *)
Join ==
  /\ put \in {"stopOk", "stopErr"} /\ ticker.at = "idle"
  /\ put' = IF put = "stopOk" THEN "final" ELSE "error"
  /\ UNCHANGED <<counters, kept, seed, part, tries, stored, ticker>>

PartStep(p) ==
  StartPart(p) \/ ReadPart(p) \/ Transmit(p) \/ Answer(p) \/ NoAnswer(p)

UploadStep == Seed \/ PartsEnd \/ LoadCommitted \/ LoadWire \/ Join
              \/ \E p \in Parts : PartStep(p)
=============================================================================
