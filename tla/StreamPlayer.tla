----------------------------- MODULE StreamPlayer -----------------------------
(***************************************************************************)
(* One StreamPlayer (speak/stream.py) and the threads that use it: the     *)
(* producer that enqueues blocks and finishes, the request's thread that   *)
(* starts it, the threads that stop it, and the device's audio thread,     *)
(* which runs the callback and the finished-callback.  A step is what a    *)
(* thread does between two points where another may run: one section under *)
(* _lock, one queue operation, one call of the device stream.              *)
(*                                                                         *)
(* The device stream is external: a stream runs from start() until its     *)
(* callback raises CallbackStop (it plays out) or CallbackAbort, or until  *)
(* stop() or close(), and fires finished_callback once when it ends.       *)
(***************************************************************************)
EXTENDS Integers, Sequences

CONSTANTS
  Blocks,        \* the number of blocks the source has
  MaxBlocks,     \* the bound of the queue
  PrerollBlocks, \* the blocks start() waits for
  None           \* no outcome yet

ASSUME StreamPlayerAssumption ==
  /\ Blocks \in Nat /\ MaxBlocks \in Nat \ {0} /\ PrerollBlocks \in Nat
  /\ None \notin {"completed", "stopped", "died"}

(* Who calls stop: handle_stop for a client, the producer on an error of   *)
(* the source, the request's thread when start() failed or wait() timed    *)
(* out.                                                                    *)
Stoppers == {"client", "producer", "request"}
Outcomes == {"completed", "stopped", "died"}
Items    == {"block", "sentinel"}

VARIABLES
  queue,     \* _queue
  given,     \* the blocks enqueue() returned for
  producer,  \* where the producer thread is
  preroll,   \* _preroll_ready is set
  starter,   \* where the request's thread is
  published, \* _stream is set
  device,    \* the device stream
  lost,      \* _error is set
  played,    \* _played
  stopping,  \* _stopping
  outcome,   \* the result of _done
  stopper    \* where each thread is in stop()

producerVars == <<given, producer, preroll>>
starterVars  == <<starter, published>>
stopVars     == <<stopping, stopper>>
vars == <<queue, producerVars, starterVars, device, lost, played, stopVars, outcome>>

TypeOK ==
  /\ queue \in Seq(Items) /\ Len(queue) <= MaxBlocks
  /\ given \in 0..Blocks
  /\ producer \in {"read", "check", "put", "count", "over"}
  /\ preroll \in BOOLEAN
  /\ starter \in {"preroll", "open", "publish", "start", "discard", "wait", "failed"}
  /\ published \in BOOLEAN
  /\ device \in {"none", "open", "running", "draining", "aborting", "ended", "closed"}
  /\ lost \in BOOLEAN /\ played \in 0..Blocks
  /\ stopping \in BOOLEAN
  /\ outcome \in Outcomes \cup {None}
  /\ stopper \in [Stoppers -> {"off", "flag", "halt", "close", "drain", "resolve", "done"}]

Init ==
  /\ queue = <<>> /\ given = 0 /\ producer = "read"
  /\ preroll = (PrerollBlocks = 0)
  /\ starter = "preroll" /\ published = FALSE /\ device = "none"
  /\ lost = FALSE /\ played = 0 /\ stopping = FALSE /\ outcome = None
  /\ stopper = [s \in Stoppers |-> "off"]

\* A plausible bug: a stop hides the lost device.
FinishedStopFirst(died) ==
  outcome' = IF outcome # None THEN outcome
             ELSE IF stopping THEN "stopped"
             ELSE IF died THEN "died" ELSE "completed"
\* A plausible bug: the outcome is set again by every path that ends.
FinishedAgain(died) ==
  outcome' = IF died THEN "died" ELSE IF stopping THEN "stopped" ELSE "completed"
\* A plausible bug: the error is not looked at.
FinishedBlind(died) ==
  outcome' = IF outcome # None THEN outcome
             ELSE IF stopping THEN "stopped" ELSE "completed"

(* _finished: at most one resolution, and a lost device wins over a stop.  *)
Finished(died) ==
  outcome' = IF outcome # None THEN outcome
             ELSE IF died THEN "died"
             ELSE IF stopping THEN "stopped" ELSE "completed"

-----------------------------------------------------------------------------
(* The producer: enqueue for each block, then finish; the put loop of      *)
(* _put_while_consuming looks at the player's state, then at the queue.    *)

Terminal == stopping \/ outcome # None
Item     == IF given < Blocks THEN "block" ELSE "sentinel"

ReadSource ==
  /\ producer = "read" /\ producer' = "check"
  /\ preroll' = (preroll \/ given = Blocks)  \* finish() sets it first
  /\ UNCHANGED <<queue, given, starterVars, device, lost, played, stopVars, outcome>>

SourceFails ==
  /\ producer = "read" /\ producer' = "over"
  /\ stopper' = [stopper EXCEPT !["producer"] = "flag"]
  /\ UNCHANGED <<queue, given, preroll, starterVars, device, lost, played, stopping, outcome>>

CheckPlayer ==
  /\ producer = "check"
  /\ \/ ~Terminal /\ producer' = "put" /\ UNCHANGED given
     \/ Terminal /\ given < Blocks /\ producer' = "read" /\ given' = given + 1
     \/ Terminal /\ given = Blocks /\ producer' = "over" /\ UNCHANGED given
  /\ UNCHANGED <<queue, preroll, starterVars, device, lost, played, stopVars, outcome>>

\* A plausible bug: the queue is created without its bound.
PutUnbounded ==
  /\ producer = "put"
  /\ queue' = Append(queue, Item)
  /\ producer' = IF Item = "block" THEN "count" ELSE "over"
  /\ UNCHANGED <<given, preroll, starterVars, device, lost, played, stopVars, outcome>>

PutItem ==
  /\ producer = "put" /\ Len(queue) < MaxBlocks
  /\ queue' = Append(queue, Item)
  /\ producer' = IF Item = "block" THEN "count" ELSE "over"
  /\ UNCHANGED <<given, preroll, starterVars, device, lost, played, stopVars, outcome>>

\* A plausible bug: put() without a timeout never looks at the player again.
PutBlocks == producer = "put" /\ Len(queue) = MaxBlocks /\ UNCHANGED vars

PutTimesOut ==
  /\ producer = "put" /\ Len(queue) = MaxBlocks /\ producer' = "check"
  /\ UNCHANGED <<queue, given, preroll, starterVars, device, lost, played, stopVars, outcome>>

CountBlock ==
  /\ producer = "count" /\ producer' = "read"
  /\ given' = given + 1 /\ preroll' = (preroll \/ given + 1 >= PrerollBlocks)
  /\ UNCHANGED <<queue, starterVars, device, lost, played, stopVars, outcome>>

-----------------------------------------------------------------------------
(* start(): pre-roll (the wait has a timeout), open, publish, run.         *)

Preroll ==
  /\ starter = "preroll" /\ starter' = "open"
  /\ UNCHANGED <<queue, producerVars, published, device, lost, played, stopVars, outcome>>

OpenStream ==
  /\ starter = "open"
  /\ \/ starter' = "publish" /\ device' = "open"
     \/ starter' = "failed" /\ UNCHANGED device
  /\ UNCHANGED <<queue, producerVars, published, lost, played, stopVars, outcome>>

\* A plausible bug: the race with stop() is not looked at.
PublishAlways ==
  /\ starter = "publish" /\ published' = TRUE /\ starter' = "start"
  /\ UNCHANGED <<queue, producerVars, device, lost, played, stopVars, outcome>>

Publish ==
  /\ starter = "publish"
  /\ published' = ~stopping
  /\ starter' = IF stopping THEN "discard" ELSE "start"
  /\ UNCHANGED <<queue, producerVars, device, lost, played, stopVars, outcome>>

Discard ==
  /\ starter = "discard" /\ starter' = "wait"
  /\ device' = "closed" /\ Finished(lost)
  /\ UNCHANGED <<queue, producerVars, published, lost, played, stopVars>>

(* stream.start() raises on a stream that a stop has closed, and may on    *)
(* one that is open.                                                       *)
RunStream ==
  /\ starter = "start"
  /\ \/ device = "open" /\ device' = "running" /\ starter' = "wait"
     \/ starter' = "failed" /\ UNCHANGED device
  /\ UNCHANGED <<queue, producerVars, published, lost, played, stopVars, outcome>>

-----------------------------------------------------------------------------
(* The device's audio thread.  A callback that finds the queue empty plays *)
(* silence, which changes nothing.                                         *)

PlayBlock ==
  /\ device = "running" /\ queue # <<>> /\ Head(queue) = "block"
  /\ queue' = Tail(queue) /\ played' = played + 1
  /\ UNCHANGED <<producerVars, starterVars, device, lost, stopVars, outcome>>

ReachSentinel ==
  /\ device = "running" /\ queue # <<>> /\ Head(queue) = "sentinel"
  /\ queue' = Tail(queue) /\ device' = "draining"
  /\ UNCHANGED <<producerVars, starterVars, lost, played, stopVars, outcome>>

LoseDevice ==
  /\ device = "running"
  /\ lost' = TRUE /\ device' = "aborting"
  /\ queue' = IF queue = <<>> THEN queue ELSE Tail(queue)
  /\ UNCHANGED <<producerVars, starterVars, played, stopVars, outcome>>

StreamEnds ==
  /\ device \in {"draining", "aborting"}
  /\ device' = "ended" /\ Finished(lost)
  /\ UNCHANGED <<queue, producerVars, starterVars, lost, played, stopVars>>

-----------------------------------------------------------------------------
(* stop().                                                                 *)

StopsTo(s, place) == stopper' = [stopper EXCEPT ![s] = place]
Active == device \in {"running", "draining", "aborting"}

CallStop(s) ==
  /\ stopper[s] = "off"
  /\ \/ s = "client"
     \/ s = "request" /\ starter \in {"wait", "failed"} /\ outcome = None
  /\ StopsTo(s, "flag")
  /\ UNCHANGED <<queue, producerVars, starterVars, device, lost, played, stopping, outcome>>

RaiseFlag(s) ==
  /\ stopper[s] = "flag"
  /\ stopping' = TRUE /\ StopsTo(s, IF published THEN "halt" ELSE "drain")
  /\ UNCHANGED <<queue, producerVars, starterVars, device, lost, played, outcome>>

EndActive ==
  \/ Active /\ Finished(lost)
  \/ ~Active /\ UNCHANGED outcome

Halt(s) ==
  /\ stopper[s] = "halt" /\ StopsTo(s, "close")
  /\ EndActive /\ device' = IF Active THEN "ended" ELSE device
  /\ UNCHANGED <<queue, producerVars, starterVars, lost, played, stopping>>

Close(s) ==
  /\ stopper[s] = "close" /\ StopsTo(s, "drain")
  /\ EndActive /\ device' = "closed"
  /\ UNCHANGED <<queue, producerVars, starterVars, lost, played, stopping>>

\* A plausible bug: the queue is left as it is.
DrainNothing(s) ==
  /\ stopper[s] = "drain" /\ StopsTo(s, "resolve")
  /\ UNCHANGED <<queue, producerVars, starterVars, device, lost, played, stopping, outcome>>

DrainQueue(s) ==
  /\ stopper[s] = "drain" /\ StopsTo(s, "resolve")
  /\ queue' = <<>>
  /\ UNCHANGED <<producerVars, starterVars, device, lost, played, stopping, outcome>>

\* A plausible bug: the outcome is left to a stream that may never run.
ResolveNothing(s) ==
  /\ stopper[s] = "resolve" /\ StopsTo(s, "done")
  /\ UNCHANGED <<queue, producerVars, starterVars, device, lost, played, stopping, outcome>>

Resolve(s) ==
  /\ stopper[s] = "resolve" /\ StopsTo(s, "done")
  /\ Finished(lost)
  /\ UNCHANGED <<queue, producerVars, starterVars, device, lost, played, stopping>>

-----------------------------------------------------------------------------
Produce == CheckPlayer \/ PutItem \/ PutTimesOut \/ CountBlock
Start   == Preroll \/ OpenStream \/ Publish \/ Discard \/ RunStream
Callback == PlayBlock \/ ReachSentinel
Stop(s) == RaiseFlag(s) \/ Halt(s) \/ Close(s) \/ DrainQueue(s) \/ Resolve(s)

Next ==
  \/ ReadSource \/ SourceFails \/ Produce \/ Start
  \/ Callback \/ LoseDevice \/ StreamEnds
  \/ \E s \in Stoppers : CallStop(s) \/ Stop(s)

(* Threads run on and the device calls back; the source may stall for ever *)
(* and nobody has to stop the player, except the request's thread when     *)
(* start() failed.                                                         *)
Fairness ==
  /\ WF_vars(Produce) /\ WF_vars(Start) /\ WF_vars(Callback) /\ WF_vars(StreamEnds)
  /\ \A s \in Stoppers : WF_vars(Stop(s))
  /\ WF_vars(starter = "failed" /\ CallStop("request"))

Spec == Init /\ [][Next]_vars /\ Fairness

-----------------------------------------------------------------------------
(* Properties.                                                             *)

(* What `done` says is what happened ("completion is device-drain, not     *)
(* source-drain"): completed means every block of the source was played,   *)
(* and a lost device is told even when a stop raced it.                    *)
OutcomeTrue ==
  /\ outcome = "completed" => played = Blocks /\ queue = <<>> /\ ~lost
  /\ outcome # None /\ lost => outcome = "died"

(* The terminal signal resolves once, however many threads finish, stop or *)
(* discard at the same time.                                               *)
ResolvedOnce == [][outcome # None => outcome' = outcome]_vars

(* A stop leaves at most the one item in the queue that the producer was   *)
(* already putting ("retains no blocks, so a stop cannot leak memory").    *)
LeftoverBounded ==
  (\E s \in Stoppers : stopper[s] = "done") => Len(queue) <= 1

(* Once a stop returned, no device stream runs, nor will one, and next to  *)
(* nothing is kept: a stop that races start() and the producer leaves no   *)
(* orphaned stream and no queue behind.                                    *)
NoOrphan ==
  /\ (\E s \in Stoppers : stopper[s] = "done") => ~Active /\ outcome # None
  /\ LeftoverBounded

(* A producer blocked on a full queue gets out of enqueue() once the       *)
(* player stopped or died, as nobody consumes the queue any more.          *)
ProducerReleased ==
  producer \in {"check", "put"} /\ Terminal ~> producer \notin {"check", "put"}

(* A playback whose source ended, or that was stopped, ends.               *)
PlaybackEnds == producer = "over" \/ stopping ~> outcome # None
=============================================================================
