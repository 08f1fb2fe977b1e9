---------------------------- MODULE MixerDelivery ----------------------------
(***************************************************************************)
(* One `mixer` run from serve_mixer to the exit code: the KafkaSink's      *)
(* produce/poll loop, the release task that awaits it, the consumer task   *)
(* beside it, and the shutdown the lifespan performs.                      *)
(*                                                                         *)
(* The release task hands over its events one by one (MixerScheduler says  *)
(* which and when; here it may always hand over the next one).  deliver    *)
(* submits _produce_and_poll to the executor, whose worker threads run     *)
(* beside the event loop: a cancelled await leaves its job where it was.   *)
(* The client library is external: a produced message waits in its local   *)
(* queue until the broker takes it or it fails, oldest first in a topic,   *)
(* and the delivery report waits until a poll or a flush calls it back.    *)
(***************************************************************************)
EXTENDS Integers, SequencesExt, FiniteSets

CONSTANTS
    FeedTopics,     \* the topics created at open
    Feed,           \* the released events in order: Feed[i] is i's topic
    QueueLimit,     \* the client's queue.buffering.max.messages
    WithConsumer,   \* consumer_launch is not None
    Faults          \* what may go wrong: "broker", "consume", "close", "open"

ASSUME DeliveryAssumption ==
    /\ Feed \in Seq(FeedTopics)
    /\ QueueLimit \in Nat \ {0}
    /\ WithConsumer \in BOOLEAN
    /\ Faults \subseteq {"broker", "consume", "close", "open"}

VARIABLES
    phase,      \* where serve_mixer and its lifespan are
    release,    \* the release task: where it is, or how it ended
    next,       \* the event it hands over next
    jobs,       \* _produce_and_poll calls in the executor, by event
    queue,      \* the client's local queue: events not yet acknowledged
    reports,    \* delivery reports no poll has called back: [ev, ok]
    errors,     \* delivery_errors: the events reported to have failed
    log,        \* what the broker has taken, in order
    consumer,   \* the consumer task
    shouldExit, \* server.should_exit
    stored,     \* task_exception, in the order the callbacks stored them
    raised,     \* the exception in flight out of serve_mixer, or "none"
    sink, source    \* the two clients: "none", "open" or "closed"

server   == <<phase, shouldExit, stored, raised, sink, source>>
client   == <<queue, reports, errors, log>>
tasks    == <<release, next, consumer>>
deliveryVars == <<server, client, tasks, jobs>>

Events   == 1..Len(Feed)
Failures == {"delivery", "buffer", "consume"}
Job      == [ev : Events, step : {"queued", "produced", "full", "polled"}]
Reports  == [ev : Events, ok : BOOLEAN]

RangeOf(s) == {s[i] : i \in DOMAIN s}

DeliveryInit ==
    /\ phase = "start"
    /\ release = "none" /\ consumer = "none" /\ next = 1
    /\ jobs = {} /\ queue = << >> /\ reports = {} /\ errors = {}
    /\ log = << >>
    /\ shouldExit = FALSE /\ stored = << >> /\ raised = "none"
    /\ sink = "none" /\ source = "none"
-----------------------------------------------------------------------------
(* Opening: first the sink, then the source; a source that does not open   *)
(* closes the sink first.                                                  *)
OpenSink ==
    /\ phase = "start"
    /\ \/ /\ sink' = "open"
          /\ phase' = IF WithConsumer THEN "source" ELSE "serving"
          /\ release' = IF WithConsumer THEN "none" ELSE "sleeping"
          /\ UNCHANGED raised
       \/ /\ "open" \in Faults
          /\ phase' = "over" /\ raised' = "open"
          /\ UNCHANGED <<sink, release>>
    /\ UNCHANGED <<next, consumer, jobs, client, shouldExit, stored,
                   source>>

(* The lifespan then starts the release task and the consumer task.        *)
OpenSource ==
    /\ phase = "source"
    /\ \/ /\ source' = "open"
          /\ phase' = "serving" /\ release' = "sleeping"
          /\ consumer' = "running"
          /\ UNCHANGED <<sink, raised>>
       \/ /\ "open" \in Faults
          /\ phase' = "over" /\ raised' = "open"
          /\ sink' = "closed"
          /\ UNCHANGED <<source, release, consumer>>
    /\ UNCHANGED <<next, jobs, client, shouldExit, stored>>
-----------------------------------------------------------------------------
(* The release task.                                                       *)

(* Plausible bug: the done callback does not ask the server to exit.       *)
TaskFails_NoExit(exc) ==
    /\ stored' = Append(stored, exc)
    /\ UNCHANGED shouldExit

(* The done callback of either task stores its exception and asks the      *)
(* server to exit.                                                         *)
TaskFails(exc) ==
    /\ stored' = Append(stored, exc)
    /\ shouldExit' = TRUE

(* Plausible bug: deliver does not await its executor job.                 *)
Deliver_NoAwait ==
    /\ release = "sleeping" /\ next <= Len(Feed)
    /\ jobs' = jobs \cup {[ev |-> next, step |-> "queued"]}
    /\ next' = next + 1
    /\ UNCHANGED <<release, consumer, client, server>>

(* deliver, up to its await: an error already reported raises at once.     *)
Deliver ==
    /\ release = "sleeping" /\ next <= Len(Feed)
    /\ IF errors # {}
         THEN /\ release' = "failed"
              /\ TaskFails("delivery")
              /\ UNCHANGED jobs
         ELSE /\ release' = "awaiting"
              /\ jobs' = jobs \cup {[ev |-> next, step |-> "queued"]}
              /\ UNCHANGED <<stored, shouldExit>>
    /\ UNCHANGED <<next, consumer, client, phase, raised, sink, source>>

(* deliver, after its await: a full queue's BufferError comes out of the   *)
(* job, a reported failure is raised, else the task goes on.               *)
Delivered ==
    /\ release = "awaiting"
    /\ \E j \in jobs :
         /\ j.ev = next /\ j.step \in {"polled", "full"}
         /\ jobs' = jobs \ {j}
         /\ \/ /\ j.step = "full" \/ errors # {}
               /\ release' = "failed" /\ UNCHANGED next
               /\ TaskFails(IF j.step = "full" THEN "buffer" ELSE "delivery")
            \/ /\ j.step = "polled" /\ errors = {}
               /\ release' = "sleeping" /\ next' = next + 1
               /\ UNCHANGED <<stored, shouldExit>>
    /\ UNCHANGED <<consumer, client, phase, raised, sink, source>>

(* The last event is delivered: schedule_releases returns.                 *)
Drain ==
    /\ release = "sleeping" /\ next > Len(Feed)
    /\ release' = "drained"
    /\ UNCHANGED <<next, consumer, jobs, client, server>>
-----------------------------------------------------------------------------
(* A worker thread of the executor: produce, then poll(0).                 *)
Advanced(j, to) == jobs' = (jobs \ {j}) \cup {[j EXCEPT !.step = to]}

JobProduce(j) ==
    /\ j \in jobs /\ j.step = "queued"
    /\ IF Len(queue) < QueueLimit
         THEN queue' = Append(queue, j.ev) /\ Advanced(j, "produced")
         ELSE UNCHANGED queue /\ Advanced(j, "full")
    /\ UNCHANGED <<reports, errors, log, tasks, server>>

(* The callbacks of a set of reports extend the error list.                *)
CallBack(called) ==
    /\ reports' = reports \ called
    /\ errors' = errors \cup {r.ev : r \in {r \in called : ~r.ok}}

JobPoll(j) ==
    /\ j \in jobs /\ j.step = "produced"
    /\ \E called \in SUBSET reports : CallBack(called)
    /\ Advanced(j, "polled")
    /\ UNCHANGED <<queue, log, tasks, server>>

(* A cancelled await leaves a finished job behind; nobody looks at it.     *)
JobForgotten(j) ==
    /\ j \in jobs /\ j.step \in {"polled", "full"}
    /\ release # "awaiting"
    /\ jobs' = jobs \ {j}
    /\ UNCHANGED <<client, tasks, server>>
-----------------------------------------------------------------------------
(* The client library and the broker.                                      *)
OldestOfTopic(i) == \A j \in 1..(i - 1) : Feed[queue[j]] # Feed[queue[i]]

BrokerTakes(i) ==
    /\ OldestOfTopic(i)
    /\ log' = Append(log, queue[i])
    /\ queue' = RemoveAt(queue, i)
    /\ reports' = reports \cup {[ev |-> queue[i], ok |-> TRUE]}
    /\ UNCHANGED <<errors, jobs, tasks, server>>

BrokerRefuses(i) ==
    /\ "broker" \in Faults
    /\ OldestOfTopic(i)
    /\ queue' = RemoveAt(queue, i)
    /\ reports' = reports \cup {[ev |-> queue[i], ok |-> FALSE]}
    /\ UNCHANGED <<errors, log, jobs, tasks, server>>
-----------------------------------------------------------------------------
(* The consumer task, the server and the operator.                         *)
ConsumerFails ==
    /\ consumer = "running" /\ "consume" \in Faults
    /\ consumer' = "failed"
    /\ TaskFails("consume")
    /\ UNCHANGED <<release, next, jobs, client, phase, raised, sink, source>>

Interrupt ==
    /\ phase = "serving" /\ ~shouldExit
    /\ shouldExit' = TRUE
    /\ UNCHANGED <<phase, stored, raised, sink, source,
                   client, tasks, jobs>>

(* The lifespan cancels the release task and awaits it: the cancellation   *)
(* lands at the sleep or at the await of the executor, where a job no      *)
(* worker has picked up is cancelled with it.                              *)
CancelRelease ==
    /\ phase = "serving" /\ shouldExit
    /\ phase' = "cancelConsumer"
    /\ release' = IF release \in {"sleeping", "awaiting"} THEN "cancelled"
                                                          ELSE release
    /\ jobs' \in {jobs, {j \in jobs : j.step # "queued"}}
    /\ UNCHANGED <<next, consumer, client, shouldExit, stored, raised,
                   sink, source>>

CancelConsumer ==
    /\ phase = "cancelConsumer"
    /\ phase' = "flush"
    /\ consumer' = IF consumer = "running" THEN "cancelled" ELSE consumer
    /\ UNCHANGED <<release, next, jobs, client, shouldExit, stored, raised,
                   sink, source>>

(* Plausible bug: without try/finally a failed flush skips the source.     *)
CloseSink_NoFinally ==
    /\ phase = "flush" /\ queue = << >>
    /\ sink' = "closed"
    /\ CallBack(reports)
    /\ raised' = IF errors' # {} THEN "delivery" ELSE raised
    /\ phase' = IF errors' # {} THEN "served" ELSE "closeSource"
    /\ UNCHANGED <<queue, log, tasks, jobs, shouldExit, stored, source>>

(* sink.aclose: flush returns when the local queue is empty and has called *)
(* every report back; a reported failure is raised.                        *)
CloseSink ==
    /\ phase = "flush" /\ queue = << >>
    /\ sink' = "closed"
    /\ CallBack(reports)
    /\ raised' = IF errors' # {} THEN "delivery" ELSE raised
    /\ phase' = "closeSource"
    /\ UNCHANGED <<queue, log, tasks, jobs, shouldExit, stored, source>>

(* The finally clause: source.aclose, whose own error replaces the sink's. *)
CloseSource ==
    /\ phase = "closeSource"
    /\ phase' = "served"
    /\ IF source = "open"
         THEN /\ source' = "closed"
              /\ raised' \in {raised} \cup
                   (IF "close" \in Faults THEN {"consume"} ELSE {})
         ELSE UNCHANGED <<source, raised>>
    /\ UNCHANGED <<client, tasks, jobs, shouldExit, stored, sink>>

(* server.serve() returns.  An ASGI server runs the lifespan in a task of  *)
(* its own and only logs what its shutdown raised.  serve_mixer then       *)
(* raises the first exception a task stored.                               *)
Return ==
    /\ phase = "served"
    /\ phase' = "over"
    /\ raised' = IF stored # << >> THEN stored[1] ELSE "none"
    /\ UNCHANGED <<shouldExit, stored, sink, source, client,
                   tasks, jobs>>
-----------------------------------------------------------------------------
ReleaseStep == Deliver \/ Delivered \/ Drain
JobStep     == \E j \in jobs : JobProduce(j) \/ JobPoll(j) \/ JobForgotten(j)
BrokerStep  == \E i \in DOMAIN queue : BrokerTakes(i) \/ BrokerRefuses(i)
ServerStep  == \/ OpenSink \/ OpenSource
               \/ CancelRelease \/ CancelConsumer
               \/ CloseSink \/ CloseSource \/ Return

(* The process has exited: worker threads and client are gone with it.     *)
Exited == phase = "over" /\ UNCHANGED deliveryVars

DeliveryNext ==
    \/ phase # "over" /\ (\/ ReleaseStep \/ JobStep \/ BrokerStep
                          \/ ServerStep \/ ConsumerFails \/ Interrupt)
    \/ Exited

DeliverySpec == DeliveryInit /\ [][DeliveryNext]_deliveryVars

(* The event loop, the executor, the client (message.timeout.ms bounds a   *)
(* message's stay in the queue) and the server all keep running.           *)
DeliveryFairSpec ==
    /\ DeliverySpec
    /\ WF_deliveryVars(ReleaseStep) /\ WF_deliveryVars(JobStep /\ phase # "over")
    /\ WF_deliveryVars(BrokerStep /\ phase # "over") /\ WF_deliveryVars(ServerStep)
-----------------------------------------------------------------------------
(* cmd_mixer: the funnel turns its own errors into exit 1; anything else   *)
(* leaves the process as a traceback.                                      *)
ExitCode == IF raised = "none" THEN "0"
            ELSE IF raised = "buffer" THEN "traceback" ELSE "1"
-----------------------------------------------------------------------------
(* The variables hold what serve_mixer and the sink put into them.         *)
DeliveryTypeOK ==
    /\ phase \in {"start", "source", "serving", "cancelConsumer", "flush",
                  "closeSource", "served", "over"}
    /\ release \in {"none", "sleeping", "awaiting", "drained", "failed",
                    "cancelled"}
    /\ consumer \in {"none", "running", "failed", "cancelled"}
    /\ next \in 1..(Len(Feed) + 1)
    /\ jobs \in SUBSET Job
    /\ queue \in Seq(Events)
    /\ reports \in SUBSET Reports
    /\ errors \in SUBSET Events
    /\ log \in Seq(Events)
    /\ shouldExit \in BOOLEAN
    /\ stored \in Seq(Failures)
    /\ raised \in Failures \cup {"none", "open"}
    /\ sink \in {"none", "open", "closed"}
    /\ source \in {"none", "open", "closed"}

(* Per topic the broker takes the events in release order and none twice,  *)
(* although produce runs in worker threads a cancellation leaves behind.   *)
InOrder ==
    \A i, j \in DOMAIN log :
      i < j /\ Feed[log[i]] = Feed[log[j]] => log[i] < log[j]

(* An event a topic has gone past was refused by the broker, and the       *)
(* refusal is on the error list or on its way there: never a silent gap.   *)
NoSilentGap ==
    \A i \in DOMAIN log : \A ev \in 1..(log[i] - 1) :
      Feed[ev] = Feed[log[i]] =>
        \/ ev \in RangeOf(log)
        \/ ev \in errors
        \/ [ev |-> ev, ok |-> FALSE] \in reports

(* What a topic's log holds is its feed, in order and without a gap that   *)
(* nobody hears of.                                                        *)
OrderKept == DeliveryTypeOK /\ InOrder /\ NoSilentGap

(* However the run ends, no client stays open: not when the source does    *)
(* not open, not when the sink's close raises.                             *)
ClientsClosed == phase = "over" => sink # "open" /\ source # "open"

(* A task that failed makes the process exit with an error.                *)
TaskFailureIsExit == phase = "over" /\ stored # << >> => ExitCode # "0"

(* The process ends tidily and says how it ended.                          *)
EndsHonestly == ClientsClosed /\ TaskFailureIsExit

(* Exit 0 means delivered: every event the release task has gone past is   *)
(* in the broker's log.  serve.py:125 lists a failed delivery and a failed *)
(* flush among what serve_mixer raises; the code does not keep it.         *)
ExitZeroMeansDelivered ==
    phase = "over" /\ ExitCode = "0" => 1..(next - 1) \subseteq RangeOf(log)

(* A failed task brings the whole process down, whatever is still queued.  *)
FailureShutsDown == (release = "failed" \/ consumer = "failed") ~> phase = "over"
=============================================================================
