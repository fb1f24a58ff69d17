-------------------------------- MODULE Subprocess ------------------------------
(***************************************************************************)
(* Class Subprocess (packages/kernel/source/ipc) with the Handler in the   *)
(* worker thread and the boot and dispose of the classes Worker that use   *)
(* it (crypto, transaction pool and EVM workers).  A request is the        *)
(* promise a call of sendRequest returns; what it asks for is left out.    *)
(***************************************************************************)
EXTENDS Naturals

CONSTANTS
  Requests,  \* calls of sendRequest
  Last       \* the request "dispose" that Worker.dispose sends at the end

ASSUME SubprocessAssumption == Last \notin Requests

Ids == Requests \cup {Last}

VARIABLES
  promise,    \* the promise of each call
  callbacks,  \* callbacks: the ids that are waited for
  inbox,      \* requests posted to the worker that it has not answered
  replies,    \* replies posted by the worker that have not arrived
  stopped,    \* #stopped is set
  thread,     \* the worker thread: running, told to terminate, or gone
  draining,   \* #drainPromise is pending
  disposal,   \* where Worker.#doDispose is
  early       \* history: the calls that were waited for when Worker.dispose was called

subprocessVars == <<promise, callbacks, inbox, replies, stopped, thread, draining, disposal, early>>

\* "cut": rejected because the worker was terminated by its own dispose.
Settled == {"resolved", "rejected", "cut"}

SubprocessInit ==
  /\ promise = [c \in Ids |-> "none"]
  /\ callbacks = {} /\ inbox = {} /\ replies = {}
  /\ stopped = FALSE /\ thread = "running" /\ draining = FALSE
  /\ disposal = "idle" /\ early = {}

\* #notifyDrained, which is called when the map of callbacks has become empty.
NotifyDrained(left) == draining /\ left # {}

\* rejectPending: every call that is waited for is rejected.
RejectPending(as) ==
  /\ promise' = [c \in Ids |-> IF c \in callbacks THEN as ELSE promise[c]]
  /\ callbacks' = {}
  /\ draining' = NotifyDrained({})

\* sendRequest of a stopped worker.
Refuse(c) ==
  /\ stopped
  /\ promise' = [promise EXCEPT ![c] = "rejected"]
  /\ UNCHANGED <<callbacks, inbox, replies, stopped, thread, draining>>

\* sendRequest posts the request.
Post(c) ==
  /\ ~stopped
  /\ promise' = [promise EXCEPT ![c] = "pending"]
  /\ callbacks' = callbacks \cup {c}
  /\ inbox' = inbox \cup {c}
  /\ UNCHANGED <<replies, stopped, thread, draining>>

\* sendRequest with arguments that cannot be serialised.
PostFails(c) ==
  /\ ~stopped
  /\ promise' = [promise EXCEPT ![c] = "rejected"]
  /\ draining' = NotifyDrained(callbacks)
  /\ UNCHANGED <<callbacks, inbox, replies, stopped, thread>>

SendRequest(c) ==
  /\ c \in Requests /\ promise[c] = "none"
  /\ Refuse(c) \/ Post(c) \/ PostFails(c)
  /\ UNCHANGED <<disposal, early>>

\* Handler.#onMessage ends and posts its reply, a result or an error.
Reply(c) ==
  /\ c \in inbox /\ thread # "gone"
  /\ inbox' = inbox \ {c} /\ replies' = replies \cup {c}
  /\ UNCHANGED <<promise, callbacks, stopped, thread, draining, disposal, early>>

\* onMessage: a reply nobody waits for is ignored.
OnMessage(c) ==
  /\ c \in replies /\ replies' = replies \ {c}
  /\ \E result \in {"resolved", "rejected"} :
       promise' = [promise EXCEPT ![c] = IF c \in callbacks THEN result ELSE @]
  /\ callbacks' = callbacks \ {c}
  /\ draining' = NotifyDrained(callbacks')
  /\ UNCHANGED <<inbox, stopped, thread, disposal, early>>

\* messageerror: a reply cannot be deserialised; the worker goes on.
MessageError(c) ==
  /\ c \in replies /\ replies' = replies \ {c}
  /\ RejectPending("rejected")
  /\ UNCHANGED <<inbox, stopped, thread, disposal, early>>

\* error: the worker crashes; exit follows.
WorkerError ==
  /\ thread = "running" /\ thread' = "terminating"
  /\ stopped' = TRUE
  /\ RejectPending("rejected")
  /\ UNCHANGED <<inbox, replies, disposal, early>>

\* The thread ends by itself: its exit event is still to come.
ThreadEnds ==
  /\ thread = "running" /\ thread' = "terminating"
  /\ UNCHANGED <<promise, callbacks, inbox, replies, stopped, draining, disposal, early>>

\* exit: the thread has ended, after an error, kill or dispose; its replies came before.
Exit ==
  /\ thread = "terminating" /\ replies = {} /\ thread' = "gone"
  /\ stopped' = TRUE
  /\ RejectPending(IF disposal = "terminate" THEN "cut" ELSE "rejected")
  /\ inbox' = {}
  /\ UNCHANGED <<replies, disposal, early>>

\* kill, of a critical error.
Kill ==
  /\ thread = "running"
  /\ stopped' = TRUE /\ thread' = "terminating"
  /\ UNCHANGED <<promise, callbacks, inbox, replies, draining, disposal, early>>

\* Mutant: the worker is disposed of without waiting.
DrainNothing == UNCHANGED draining

\* drain: pending while calls are waited for.
Drain == draining' = (callbacks # {})

\* Worker.dispose begins.
DisposeStarts ==
  /\ disposal = "idle" /\ disposal' = "drain"
  /\ Drain
  /\ early' = callbacks
  /\ UNCHANGED <<promise, callbacks, inbox, replies, stopped, thread>>

\* The drain is over: the request "dispose" is sent.
DisposeSends ==
  /\ disposal = "drain" /\ ~draining /\ disposal' = "sent"
  /\ Refuse(Last) \/ Post(Last)
  /\ UNCHANGED early

\* It has been answered, or has failed: the thread is terminated.
DisposeEnds ==
  /\ disposal = "sent" /\ promise[Last] \in Settled /\ disposal' = "terminate"
  /\ stopped' = TRUE
  /\ thread' = IF thread = "running" THEN "terminating" ELSE thread
  /\ UNCHANGED <<promise, callbacks, inbox, replies, draining, early>>

DisposeWorker == DisposeStarts \/ DisposeSends \/ DisposeEnds

SubprocessNext ==
  \/ \E c \in Ids : SendRequest(c) \/ Reply(c) \/ OnMessage(c) \/ MessageError(c)
  \/ WorkerError \/ ThreadEnds \/ Exit \/ Kill \/ DisposeWorker

SubprocessSpec == SubprocessInit /\ [][SubprocessNext]_subprocessVars

\* The worker answers, its messages arrive, and a thread that is told to terminate ends.
SubprocessFairness ==
  /\ \A c \in Ids : WF_subprocessVars(Reply(c)) /\ WF_subprocessVars(OnMessage(c))
  /\ WF_subprocessVars(Exit)
  /\ WF_subprocessVars(DisposeSends \/ DisposeEnds)

-------------------------------------------------------------------------------

SubprocessTypeOK ==
  /\ promise \in [Ids -> {"none", "pending"} \cup Settled]
  /\ callbacks \subseteq Ids /\ inbox \subseteq Ids /\ replies \subseteq Ids
  /\ stopped \in BOOLEAN /\ thread \in {"running", "terminating", "gone"}
  /\ draining \in BOOLEAN
  /\ disposal \in {"idle", "drain", "sent", "terminate"}
  /\ early \subseteq Ids
  /\ callbacks \subseteq inbox \cup replies

\* The callbacks are the calls whose promise is pending: getQueueSize counts what is really under
\* way, and no call waits for an id that nothing will settle.
CallbacksArePending == callbacks = {c \in Ids : promise[c] = "pending"}

\* A drain that waits has a call to wait for, so that the last one to settle ends it
\* ("Resolves once every in-flight sendRequest has settled").
DrainHasReason == draining => callbacks # {}

\* Worker.dispose does not "cut off requests that other service providers issued before us":
\* none of those is rejected because the thread was terminated by it.
EarlyCallsFinish == \A c \in early : promise[c] # "cut"

\* A promise settles once, with the first outcome.
SettledStays == [][\A c \in Ids : promise[c] \in Settled => promise'[c] = promise[c]]_subprocessVars

\* Every call settles and a dispose ends, whatever fails: "Reject everything in flight to avoid a
\* silent hang".
CallsSettle ==
  []<>(/\ \A c \in Ids : promise[c] # "pending"
       /\ disposal = "idle" \/ (disposal = "terminate" /\ thread = "gone"))

================================================================================
