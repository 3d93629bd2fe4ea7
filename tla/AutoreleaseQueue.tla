-------------------------- MODULE AutoreleaseQueue --------------------------
(***************************************************************************)
(* An autorelease_queue with the timer that drives it.  TickRing has the   *)
(* queue and the clock; here its tick runs where the code runs it, in the  *)
(* handler of an asio timer on the background worker, and its u_clear      *)
(* where the main thread calls it.  The main thread stops and starts the   *)
(* timer (save, load and revert callbacks, collect_garbage) and in the end *)
(* destroys the queue; natives prolong lifetimes at any time.              *)
(*                                                                         *)
(* cancel() and expires_from_now() complete the waits that have not yet    *)
(* expired with an error, and their handlers return at once: such waits    *)
(* simply vanish here.  The handler of an expired wait is past recall.     *)
(***************************************************************************)
EXTENDS TickRing

CONSTANT MaxReady   (* bound on the expired waits the worker is late with  *)

ASSUME TimerAssumption == MaxReady \in Nat \ {0}

VARIABLES
  _timer_stopped,
  waiting,   (* the timer's waits that have not expired                    *)
  ready,     (* handlers of expired waits, not yet begun                   *)
  handler,   (* where the worker is                                        *)
  owner      (* the main thread: "outside" or "inside" a stop-start pair,  *)
             (* or "gone": the queue has been destroyed                    *)

timer == << _timer_stopped, waiting, ready, handler, owner >>

queueVars == << vars, timer >>

(* The handler keeps _timer_mutex throughout; start and stop hold it for   *)
(* one step.                                                               *)
MutexFree == handler \in {"idle", "begun"}

-----------------------------------------------------------------------------
(* Faulty variant: the waits before are not cancelled.                     *)
u_startTimer_accumulating == waiting' = waiting + 1

(* Faulty variant: the expiry is set after async_wait, which cancels it.   *)
u_startTimer_swapped == waiting' = 0

u_startTimer == waiting' = 1

(* The constructor ends with start().                                      *)
QueueInit ==
  /\ Init
  /\ _timer_stopped = FALSE
  /\ waiting = 1
  /\ ready = 0
  /\ handler = "idle"
  /\ owner = "outside"

stop ==
  /\ owner # "gone"
  /\ MutexFree
  /\ _timer_stopped' = TRUE
  /\ waiting' = 0
  /\ UNCHANGED << ready, handler >>

Stop == stop /\ owner' = "inside" /\ UNCHANGED vars

(* u_clear() stops once more, if the timer was stopped already.            *)
Clear == stop /\ u_clear /\ owner' = "inside"

(* shutdown() has stopped and cleared the queue; its destructor stops it   *)
(* again, and the memory is freed.                                         *)
Destroy ==
  /\ owner = "inside"
  /\ stop
  /\ owner' = "gone"
  /\ UNCHANGED vars

Start ==
  /\ owner # "gone"
  /\ MutexFree
  /\ owner' = "outside"
  /\ IF _timer_stopped
     THEN /\ _timer_stopped' = FALSE
          /\ u_startTimer
     ELSE UNCHANGED << _timer_stopped, waiting >>
  /\ UNCHANGED << vars, ready, handler >>

(* A native, or the main thread while the timer is stopped.                *)
Prolong(o) ==
  /\ owner # "gone"
  /\ \/ \E isPublic \in BOOLEAN : prolong_lifetime(o, isPublic)
     \/ not_prolong_lifetime(o)
  /\ UNCHANGED timer

(* The wait's time has come: its handler is posted to the worker.          *)
Expire ==
  /\ waiting > 0
  /\ ready + waiting <= MaxReady
  /\ ready' = ready + waiting
  /\ waiting' = 0
  /\ UNCHANGED << vars, _timer_stopped, handler, owner >>

(* The worker begins a handler, which finds no error ...                   *)
HandlerBegin ==
  /\ handler = "idle"
  /\ ready > 0
  /\ ready' = ready - 1
  /\ handler' = "begun"
  /\ UNCHANGED << vars, _timer_stopped, waiting, owner >>

(* Faulty variant: the handler does not look whether it was stopped.       *)
HandlerLock_regardless ==
  /\ handler = "begun"
  /\ owner # "gone"
  /\ handler' = "tick"
  /\ UNCHANGED << vars, _timer_stopped, waiting, ready, owner >>

(* ... and locks the mutex.                                                *)
HandlerLock ==
  /\ handler = "begun"
  /\ owner # "gone"
  /\ handler' = IF _timer_stopped THEN "idle" ELSE "tick"
  /\ UNCHANGED << vars, _timer_stopped, waiting, ready, owner >>

HandlerTick ==
  /\ handler = "tick"
  /\ tick
  /\ handler' = "release"
  /\ UNCHANGED << _timer_stopped, waiting, ready, owner >>

(* _toRelease.clear() object by object ...                                 *)
HandlerRelease(o) ==
  /\ handler = "release"
  /\ release(o)
  /\ UNCHANGED timer

(* ... and the handler starts the next wait.                               *)
HandlerRestart ==
  /\ handler = "release"
  /\ _toRelease = {}
  /\ u_startTimer
  /\ handler' = "idle"
  /\ UNCHANGED << vars, _timer_stopped, ready, owner >>

Handler ==
  \/ HandlerBegin
  \/ HandlerLock
  \/ HandlerTick
  \/ \E o \in Objects : HandlerRelease(o)
  \/ HandlerRestart

QueueNext ==
  \/ Stop
  \/ Clear
  \/ Destroy
  \/ Start
  \/ \E o \in Objects : Prolong(o)
  \/ Expire
  \/ Handler

QueueSpec == QueueInit /\ [][QueueNext]_queueVars

(* Time passes and the worker works; the game may never save nor load.     *)
QueueFairness == WF_queueVars(Expire) /\ WF_queueVars(Handler)

FairQueueSpec == QueueSpec /\ QueueFairness

-----------------------------------------------------------------------------
(* Every variable has its type; the timer is stopped exactly within the    *)
(* main thread's stop-start pairs.                                         *)
QueueTypeOK ==
  /\ TypeOK
  /\ _timer_stopped \in BOOLEAN
  /\ waiting \in Nat
  /\ ready \in 0 .. MaxReady
  /\ handler \in {"idle", "begun", "tick", "release"}
  /\ owner \in {"outside", "inside", "gone"}
  /\ owner = "outside" <=> ~_timer_stopped

(* jc_assert(callbacks_cancelled <= 1) in stop(): although a handler that  *)
(* stop could not recall restarts the timer besides start, waits do not    *)
(* multiply, and ticks do not come ever faster.                            *)
OneWait == waiting <= 1

(* Between stop and start no tick runs, nor is one half done: the main     *)
(* thread may then walk and change the queue without its mutex.            *)
QuietWhileStopped ==
  owner # "outside" => handler \notin {"tick", "release"} /\ _toRelease = {}

(* While the timer is not stopped the chain of waits is never broken:      *)
(* there is a wait, or a handler that will start the next.                 *)
KeepsGoing == ~_timer_stopped => waiting + ready > 0 \/ handler # "idle"

Prolonging(o) == UNCHANGED timer /\ \E isPublic \in BOOLEAN : prolong_lifetime(o, isPublic)

(* If the main thread leaves the timer running, whatever the queue owns it *)
(* gives up in the end, or somebody keeps prolonging the object's life.    *)
LetsGo ==
  <>[](owner = "outside") =>
    \A o \in Objects : <>[][~Prolonging(o)]_queueVars => []<>(~is_in_aqueue(o))
=============================================================================
