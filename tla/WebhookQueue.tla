---------------------------- MODULE WebhookQueue ----------------------------
(***************************************************************************)
(* Audit events and registry webhooks: httpserver/audit.go writes the row  *)
(* of an event and then hands the event to the dispatcher of webhook.go,   *)
(* whose bounded channel is emptied by one goroutine.  The URL is an       *)
(* administrator's setting and is read when an event is delivered; whoever *)
(* answers there may have the event posted again at another address.       *)
(*                                                                         *)
(* "sent" and the field "saved" of the worker are history: the requests    *)
(* that reached an address, and the URLs that have been in force since the *)
(* delivery under way began.  A name ending in "Faulty" is a deliberately  *)
(* wrong variant of the definition that follows it; nothing uses it but    *)
(* the mutation runs.                                                      *)
(***************************************************************************)
EXTENDS Naturals, Sequences

CONSTANTS
    Handlers,     \* goroutines serving requests
    Actions,      \* actions of audit events
    Reported,     \* those of them with a webhook group
    URLs,         \* addresses that administrators save
    Locations,    \* addresses that redirects name
    Capacity,     \* of the channel
    MaxRequests,  \* requests that http.Client makes for one call of Do, ten
    MaxEvents,    \* bound on events
    MaxFaults,    \* bound on failing database calls
    MaxRestarts,  \* bound on restarts of the process
    None

VARIABLES
    rows,      \* the events of audit_events, in the order of their insertion
    request,   \* request[h]: what handler h is at, and its event
    events,    \* the channel
    url,       \* the saved destination, None when it is empty
    worker,    \* the dispatcher's goroutine
    issued,    \* number of events so far
    sent,
    faults,
    restarts

budget == <<faults, restarts>>
vars == <<rows, request, events, url, worker, issued, sent, budget>>

NoEvent == [id |-> 0, by |-> None, action |-> None]

IdleHandler == [at |-> "idle", event |-> NoEvent]
IdleWorker == [at |-> "receive", event |-> NoEvent, url |-> None, nr |-> 0, saved |-> {}]

Init ==
    /\ rows = <<>>
    /\ request = [h \in Handlers |-> IdleHandler]
    /\ events = <<>>
    /\ url = None
    /\ worker = IdleWorker
    /\ issued = 0
    /\ sent = <<>>
    /\ faults = 0
    /\ restarts = 0

-----------------------------------------------------------------------------
(***************************************************************************)
(* Handlers: insertAuditEvent.                                             *)
(***************************************************************************)
Goto(h, step) ==
    request' = [request EXCEPT ![h] = [at |-> step, event |-> request[h].event]]

\* The operation is done; its event gets an identifier of its own.
Audit(h) ==
    /\ request[h].at = "idle"
    /\ issued < MaxEvents
    /\ issued' = issued + 1
    /\ \E action \in Actions :
          request' = [request EXCEPT ![h] =
                        [at |-> "insert", event |-> [id |-> issued + 1, by |-> h, action |-> action]]]
    /\ UNCHANGED <<rows, events, url, worker, sent, budget>>

InsertAuditEvent(h) ==
    /\ request[h].at = "insert"
    /\ rows' = Append(rows, request[h].event)
    /\ Goto(h, "enqueue")
    /\ UNCHANGED <<events, url, worker, issued, sent, budget>>

AfterFailedInsertFaulty == "enqueue"
AfterFailedInsert == "idle"

\* The error is the answer to the request.
InsertFails(h) ==
    /\ request[h].at = "insert"
    /\ faults < MaxFaults
    /\ faults' = faults + 1
    /\ Goto(h, AfterFailedInsert)
    /\ UNCHANGED <<rows, events, url, worker, issued, sent, restarts>>

HasRoom == Len(events) < Capacity

\* The select has a default: what the full channel does not take is dropped.
Enqueue(h) ==
    /\ request[h].at = "enqueue"
    /\ IF request[h].event.action \in Reported /\ HasRoom
       THEN events' = Append(events, request[h].event)
       ELSE UNCHANGED events
    /\ Goto(h, "idle")
    /\ UNCHANGED <<rows, url, worker, issued, sent, budget>>

\* handleUIRegistryWebhookSettingsUpdate; the empty URL ends delivery.
SaveURL ==
    /\ url' \in URLs \cup {None}
    /\ worker' = [worker EXCEPT !.saved = IF worker.at = "receive" THEN {} ELSE @ \cup {url'}]
    /\ UNCHANGED <<rows, request, events, issued, sent, budget>>

-----------------------------------------------------------------------------
(***************************************************************************)
(* The dispatcher: run and deliver.                                        *)
(***************************************************************************)
Receive ==
    /\ worker.at = "receive"
    /\ events # <<>>
    /\ worker' = [at |-> "load", event |-> Head(events), url |-> None, nr |-> 0,
                  saved |-> {url}]
    /\ events' = Tail(events)
    /\ UNCHANGED <<rows, request, url, issued, sent, budget>>

\* The destination of this delivery is the one that is saved now.
DestinationFaulty == IF sent = <<>> THEN url ELSE sent[Len(sent)].url
Destination == url

LoadSettings ==
    /\ worker.at = "load"
    /\ worker' = IF Destination = None THEN IdleWorker
                 ELSE [worker EXCEPT !.at = "post", !.url = Destination]
    /\ UNCHANGED <<rows, request, events, url, issued, sent, budget>>

AfterFailedDeliveryFaulty == [worker EXCEPT !.at = "stopped"]
AfterFailedDelivery == IdleWorker

LoadFails ==
    /\ worker.at = "load"
    /\ faults < MaxFaults
    /\ faults' = faults + 1
    /\ worker' = AfterFailedDelivery
    /\ UNCHANGED <<rows, request, events, url, issued, sent, restarts>>

\* The request of the worker has reached its address; its answer names a location
\* that the client goes to, or None.
Reaches(location) ==
    sent' = Append(sent, [event |-> worker.event, url |-> worker.url, nr |-> worker.nr + 1,
                          location |-> location, saved |-> worker.saved])

\* The payload arrives, whatever status comes back or however late.  The redirects
\* that turn a POST into a GET carry no event any more.
Arrives ==
    /\ worker.at = "post"
    /\ Reaches(None)
    /\ worker' = IdleWorker
    /\ UNCHANGED <<rows, request, events, url, issued, budget>>

\* The client has no CheckRedirect and the body can be read again, so that an answer
\* 307 or 308 has the event posted again, at the Location of the answer.
RedirectedFaulty(location) == [worker EXCEPT !.nr = @ + 1]
Redirected(location) == [worker EXCEPT !.url = location, !.nr = @ + 1]

FollowRedirect ==
    /\ worker.at = "post"
    /\ worker.nr + 1 < MaxRequests
    /\ \E location \in Locations :
          /\ Reaches(location)
          /\ worker' = Redirected(location)
    /\ UNCHANGED <<rows, request, events, url, issued, budget>>

\* No connection, or the two seconds are over: there is no second attempt.
Lost ==
    /\ worker.at = "post"
    /\ worker' = AfterFailedDelivery
    /\ UNCHANGED <<rows, request, events, url, issued, sent, budget>>

\* Shutdown waits for requests at most, a crash for nothing; the channel is lost.
Restart ==
    /\ restarts < MaxRestarts
    /\ restarts' = restarts + 1
    /\ request' = [h \in Handlers |-> IdleHandler]
    /\ events' = <<>>
    /\ worker' = IdleWorker
    /\ UNCHANGED <<rows, url, issued, sent, faults>>

-----------------------------------------------------------------------------
HandlerStep(h) == InsertAuditEvent(h) \/ Enqueue(h)
WorkerStep == Receive \/ LoadSettings \/ Arrives \/ FollowRedirect \/ Lost

Next ==
    \/ \E h \in Handlers : Audit(h) \/ HandlerStep(h) \/ InsertFails(h)
    \/ SaveURL
    \/ WorkerStep
    \/ LoadFails
    \/ Restart

Spec == Init /\ [][Next]_vars

(***************************************************************************)
(* Goroutines run, and no delivery takes longer than its two seconds.      *)
(***************************************************************************)
Fairness ==
    /\ \A h \in Handlers : WF_vars(HandlerStep(h))
    /\ WF_vars(WorkerStep)

FairSpec == Spec /\ Fairness

-----------------------------------------------------------------------------
(***************************************************************************)
(* Properties.                                                             *)
(***************************************************************************)
Event == [id : Nat, by : Handlers \cup {None}, action : Actions \cup {None}]
Delivery == [event : Event, url : URLs \cup Locations, nr : Nat,
             location : Locations \cup {None}, saved : SUBSET (URLs \cup {None})]

(* Every variable has its type. *)
TypeOK ==
    /\ rows \in Seq(Event)
    /\ request \in [Handlers -> [at : {"idle", "insert", "enqueue"}, event : Event]]
    /\ events \in Seq(Event)
    /\ Len(events) <= Capacity
    /\ url \in URLs \cup {None}
    /\ worker \in [at : {"receive", "load", "post"}, event : Event,
                   url : URLs \cup Locations \cup {None}, nr : Nat, saved : SUBSET (URLs \cup {None})]
    /\ issued \in Nat
    /\ sent \in Seq(Delivery)

(* README.md:225: webhooks report "registry pull, push, delete" activity,
   "best-effort".  What arrives was written to the audit log before.  Each event is
   delivered once at most, after what the same client did earlier; its first request
   goes to a URL that was saved at some time since this delivery began, so that once
   the URL is removed what is still queued stays here.  Any further request of a
   delivery follows the one before it, to the address that its answer named. *)
DeliveriesFollowTheLog ==
    /\ \A i \in DOMAIN sent : \E k \in DOMAIN rows : rows[k] = sent[i].event
    /\ \A i, j \in DOMAIN sent :
          i < j /\ sent[j].nr = 1 /\ sent[i].event.by = sent[j].event.by
          => sent[i].event.id < sent[j].event.id
    /\ \A i \in DOMAIN sent :
          IF sent[i].nr = 1 THEN sent[i].url \in sent[i].saved
          ELSE /\ i > 1
               /\ sent[i - 1].event = sent[i].event
               /\ sent[i - 1].nr + 1 = sent[i].nr
               /\ sent[i - 1].location = sent[i].url

(* One goroutine empties the channel for the life of the process: whatever fails
   in one delivery, each event behind it gets its turn. *)
EveryQueuedEventIsTried ==
    \A id \in 1 .. MaxEvents :
        LET Queued == \E k \in DOMAIN events : events[k].id = id
        IN  Queued ~> ~Queued

=============================================================================
