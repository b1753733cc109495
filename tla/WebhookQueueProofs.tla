------------------------ MODULE WebhookQueueProofs --------------------------
(***************************************************************************)
(* Proofs about WebhookQueue, for any handlers, actions, destinations and  *)
(* redirects, any capacity of the channel, and any number of events,       *)
(* requests, faults and restarts.                                          *)
(***************************************************************************)
EXTENDS WebhookQueue, TLAPS

Worker == [at : {"receive", "load", "post"}, event : Event,
           url : URLs \cup Locations \cup {None}, nr : Nat, saved : SUBSET (URLs \cup {None})]

Types ==
    /\ rows \in Seq(Event)
    /\ request \in [Handlers -> [at : {"idle", "insert", "enqueue"}, event : Event]]
    /\ events \in Seq(Event)
    /\ url \in URLs \cup {None}
    /\ worker \in Worker
    /\ worker.at = "post" => worker.url \in URLs \cup Locations
    /\ issued \in Nat
    /\ sent \in Seq(Delivery)

Logged(e) == \E k \in DOMAIN rows : rows[k] = e

\* Everything behind the insertion is in the log.
Recorded ==
    /\ \A h \in Handlers : request[h].at = "enqueue" => Logged(request[h].event)
    /\ \A i \in DOMAIN events : Logged(events[i])
    /\ worker.at # "receive" => Logged(worker.event)
    /\ \A i \in DOMAIN sent : Logged(sent[i].event)

\* Of the events of one client, e is earlier than f.
Before(e, f) == e.by = f.by => e.id < f.id

\* At each station an event is earlier than those at the stations before it.
RequestsAreLast ==
    \A h \in Handlers : request[h].at # "idle" =>
        /\ request[h].event.by = h
        /\ request[h].event.id <= issued
        /\ \A i \in DOMAIN events : Before(events[i], request[h].event)
        /\ worker.at # "receive" => Before(worker.event, request[h].event)
        /\ \A i \in DOMAIN sent : Before(sent[i].event, request[h].event)

ChannelIsOrdered ==
    /\ \A i \in DOMAIN events : events[i].id <= issued
    /\ \A i, j \in DOMAIN events : i < j => Before(events[i], events[j])
    /\ \A i \in DOMAIN events :
          /\ worker.at # "receive" => Before(worker.event, events[i])
          /\ \A j \in DOMAIN sent : Before(sent[j].event, events[i])

SentIsOrdered ==
    /\ worker.at # "receive" =>
          /\ worker.event.id <= issued
          /\ worker.nr = 0 => \A i \in DOMAIN sent : Before(sent[i].event, worker.event)
    /\ \A i \in DOMAIN sent : sent[i].event.id <= issued
    /\ \A i, j \in DOMAIN sent :
          i < j /\ sent[j].nr = 1 => Before(sent[i].event, sent[j].event)

Ordered == RequestsAreLast /\ ChannelIsOrdered /\ SentIsOrdered

\* The destination of a first request has been in force since the delivery began.
Destined ==
    /\ worker.at # "receive" => url \in worker.saved
    /\ worker.at = "post" /\ worker.nr = 0 => worker.url \in worker.saved
    /\ \A i \in DOMAIN sent : sent[i].nr = 1 => sent[i].url \in sent[i].saved

\* A request of event e, number nr of its delivery, at address a follows what was
\* sent before it, the first i requests.
Follows(i, e, nr, a) ==
    /\ i > 0
    /\ sent[i].event = e
    /\ sent[i].nr = nr
    /\ sent[i].location = a

\* A further request follows the answer to the one before it.
Chained ==
    /\ worker.at = "load" => worker.nr = 0
    /\ worker.at = "post" /\ worker.nr # 0 =>
          Follows(Len(sent), worker.event, worker.nr, worker.url)
    /\ \A i \in DOMAIN sent : sent[i].nr # 1 =>
          Follows(i - 1, sent[i].event, sent[i].nr - 1, sent[i].url)

Inductive == Types /\ Recorded /\ Ordered /\ Destined /\ Chained

-----------------------------------------------------------------------------
(* What Append makes of a sequence. *)
LEMMA AppendProperties ==
    ASSUME NEW S, NEW s \in Seq(S), NEW e \in S
    PROVE  /\ Append(s, e) \in Seq(S)
           /\ DOMAIN s = 1 .. Len(s) /\ Len(s) \in Nat
           /\ DOMAIN Append(s, e) = 1 .. Len(s) + 1
           /\ \A i \in DOMAIN s : Append(s, e)[i] = s[i]
           /\ Append(s, e)[Len(s) + 1] = e
OBVIOUS

(* What Head and Tail make of one that is not empty. *)
LEMMA TailProperties ==
    ASSUME NEW S, NEW s \in Seq(S), s # <<>>
    PROVE  /\ Head(s) \in S /\ Head(s) = s[1] /\ 1 \in DOMAIN s
           /\ Tail(s) \in Seq(S)
           /\ DOMAIN s = 1 .. Len(s) /\ Len(s) \in Nat
           /\ \A i \in DOMAIN Tail(s) : i + 1 \in DOMAIN s /\ i \in Nat /\ Tail(s)[i] = s[i + 1]
OBVIOUS

(* The invariant holds when the process starts. *)
LEMMA InitiallyInductive == Init => Inductive
BY DEF Init, Inductive, Types, Recorded, Ordered, RequestsAreLast, ChannelIsOrdered,
       SentIsOrdered, Destined, Chained, IdleHandler, IdleWorker, Worker, NoEvent, Event

-----------------------------------------------------------------------------
(* Identifiers are numbers. *)
LEMMA Numbers ==
    ASSUME Types
    PROVE  /\ issued \in Nat /\ issued + 1 \in Nat /\ worker.event.id \in Nat
           /\ \A i \in DOMAIN events : events[i].id \in Nat
           /\ \A i \in DOMAIN sent : sent[i].event.id \in Nat
           /\ \A h \in Handlers : request[h].event.id \in Nat
<1>1. \A i \in DOMAIN events : events[i] \in Event BY DEF Types
<1>2. \A i \in DOMAIN sent : sent[i] \in Delivery BY DEF Types
<1>. QED BY <1>1, <1>2 DEF Types, Worker, Event, Delivery

(* A new event is later than all others. *)
LEMMA AuditKeepsInductive ==
    ASSUME Inductive, NEW h \in Handlers, Audit(h)
    PROVE  Inductive'
<1> USE DEF Inductive, Audit
<1>1. PICK action \in Actions :
         request' = [request EXCEPT ![h] =
            [at |-> "insert", event |-> [id |-> issued + 1, by |-> h, action |-> action]]]
  OBVIOUS
<1>2. Types' BY <1>1 DEF Types, Event
<1>3. Recorded' BY <1>1 DEF Types, Recorded, Logged
<1>4. RequestsAreLast'
  <2>1. ASSUME NEW g \in Handlers, g # h PROVE request'[g] = request[g]
    BY <1>1, <2>1 DEF Types
  <2>2. request'[h].event.by = h /\ request'[h].event.id = issued + 1
    BY <1>1 DEF Types
  <2>. QED
    BY <2>1, <2>2, Numbers
       DEF Ordered, RequestsAreLast, ChannelIsOrdered, SentIsOrdered, Before
<1>5. ChannelIsOrdered' BY Numbers DEF Ordered, ChannelIsOrdered, Before
<1>6. SentIsOrdered' BY Numbers DEF Ordered, SentIsOrdered, Before
<1>7. Destined' /\ Chained' BY DEF Destined, Chained, Follows
<1>. QED BY <1>2, <1>3, <1>4, <1>5, <1>6, <1>7 DEF Ordered

(* The log only grows, by the event that is about to be queued. *)
LEMMA InsertKeepsInductive ==
    ASSUME Inductive, NEW h \in Handlers, InsertAuditEvent(h)
    PROVE  Inductive'
<1> USE DEF Inductive, InsertAuditEvent, Goto
<1>1. request[h].event \in Event BY DEF Types
<1>2. /\ rows' \in Seq(Event)
      /\ \A k \in DOMAIN rows : k \in DOMAIN rows' /\ rows'[k] = rows[k]
      /\ Len(rows) + 1 \in DOMAIN rows' /\ rows'[Len(rows) + 1] = request[h].event
  BY <1>1, AppendProperties DEF Types
<1>3. \A e : Logged(e) => Logged(e)' BY <1>2 DEF Logged
<1>4. Logged(request[h].event)' BY <1>2 DEF Types, Logged
<1>5. Types' BY <1>2 DEF Types
<1>6. Recorded' BY <1>3, <1>4 DEF Types, Recorded
<1>7. Ordered'
  BY DEF Types, Ordered, RequestsAreLast, ChannelIsOrdered, SentIsOrdered
<1>8. Destined' /\ Chained' BY DEF Destined, Chained, Follows
<1>. QED BY <1>5, <1>6, <1>7, <1>8

(* A handler that goes on, or gives up, is behind the channel no more. *)
LEMMA GivingUpKeepsInductive ==
    ASSUME Inductive, NEW h \in Handlers, Goto(h, "idle"),
           UNCHANGED <<rows, events, url, worker, issued, sent>>
    PROVE  Inductive'
<1> USE DEF Inductive, Goto
<1>1. Types' BY DEF Types
<1>2. Recorded' BY DEF Types, Recorded, Logged
<1>3. Ordered' BY DEF Types, Ordered, RequestsAreLast, ChannelIsOrdered, SentIsOrdered
<1>4. Destined' /\ Chained' BY DEF Destined, Chained, Follows
<1>. QED BY <1>1, <1>2, <1>3, <1>4

(* What enters the channel is in the log and later than what its client has there. *)
LEMMA EnqueueKeepsInductive ==
    ASSUME Inductive, NEW h \in Handlers, Enqueue(h)
    PROVE  Inductive'
<1> USE DEF Inductive, Enqueue, Goto
<1>1. CASE UNCHANGED events BY <1>1, GivingUpKeepsInductive
<1>2. CASE events' = Append(events, request[h].event)
  <2>1. request[h].event \in Event BY DEF Types
  <2>2. /\ events' \in Seq(Event)
        /\ DOMAIN events = 1 .. Len(events) /\ Len(events) \in Nat
        /\ DOMAIN events' = 1 .. Len(events) + 1
        /\ \A i \in DOMAIN events : events'[i] = events[i]
        /\ events'[Len(events) + 1] = request[h].event
    BY <1>2, <2>1, AppendProperties DEF Types
  <2>3. \A i \in DOMAIN events' : i \in DOMAIN events \/ i = Len(events) + 1 BY <2>2
  <2>4. Types' BY <2>2 DEF Types
  <2>5. Recorded' BY <2>2, <2>3 DEF Types, Recorded, Logged
  <2>6. RequestsAreLast'
    <3>1. ASSUME NEW g \in Handlers, request'[g].at # "idle"
          PROVE  g # h /\ request'[g] = request[g]
      BY <3>1 DEF Types
    <3>2. request[h].event.by = h BY DEF Ordered, RequestsAreLast
    <3>3. ASSUME NEW g \in Handlers, request'[g].at # "idle", NEW i \in DOMAIN events'
          PROVE  Before(events'[i], request'[g].event)
      <4>1. CASE i \in DOMAIN events
        BY <2>2, <3>1, <3>3, <4>1 DEF Ordered, RequestsAreLast
      <4>2. CASE i = Len(events) + 1
        <5>1. request[g].event.by = g BY <3>1, <3>3 DEF Ordered, RequestsAreLast
        <5>. QED BY <2>2, <3>1, <3>2, <3>3, <4>2, <5>1 DEF Before
      <4>. QED BY <2>3, <4>1, <4>2
    <3>4. UNCHANGED <<worker, issued, sent>> OBVIOUS
    <3>. QED BY <3>1, <3>3, <3>4 DEF Ordered, RequestsAreLast, Before
  <2>7. ChannelIsOrdered'
    <3>1. ASSUME NEW i \in DOMAIN events', NEW j \in DOMAIN events', i < j
          PROVE  Before(events'[i], events'[j])
      BY <2>2, <2>3, <3>1 DEF Types, Ordered, RequestsAreLast, ChannelIsOrdered
    <3>2. ASSUME NEW i \in DOMAIN events'
          PROVE  /\ events'[i].id <= issued
                 /\ worker.at # "receive" => Before(worker.event, events'[i])
                 /\ \A j \in DOMAIN sent : Before(sent[j].event, events'[i])
      <4>1. CASE i \in DOMAIN events BY <2>2, <4>1 DEF Ordered, ChannelIsOrdered
      <4>2. CASE i = Len(events) + 1 BY <2>2, <4>2 DEF Types, Ordered, RequestsAreLast
      <4>. QED BY <2>3, <4>1, <4>2
    <3>3. UNCHANGED <<worker, issued, sent>> OBVIOUS
    <3>. QED BY <3>1, <3>2, <3>3 DEF ChannelIsOrdered, Before
  <2>8. SentIsOrdered' BY DEF Ordered, SentIsOrdered, Before
  <2>9. Destined' /\ Chained' BY DEF Destined, Chained, Follows
  <2>. QED BY <2>4, <2>5, <2>6, <2>7, <2>8, <2>9 DEF Ordered
<1>. QED BY <1>1, <1>2

-----------------------------------------------------------------------------
(* A URL that is saved during a delivery is one of those in force since it began. *)
LEMMA SaveURLKeepsInductive ==
    ASSUME Inductive, SaveURL
    PROVE  Inductive'
<1> USE DEF Inductive, SaveURL
<1>1. Types' BY DEF Types, Worker
<1>2. /\ worker'.at = worker.at /\ worker'.event = worker.event /\ worker'.url = worker.url
      /\ worker'.nr = worker.nr
      /\ worker.at # "receive" => worker'.saved = worker.saved \cup {url'}
  BY DEF Types, Worker
<1>3. Recorded' BY <1>2 DEF Types, Recorded, Logged
<1>4. Ordered'
  BY <1>2 DEF Types, Ordered, RequestsAreLast, ChannelIsOrdered, SentIsOrdered, Before
<1>5. Destined' /\ Chained' BY <1>2 DEF Types, Destined, Chained, Follows
<1>. QED BY <1>1, <1>3, <1>4, <1>5

(* The event received is earlier than those left in the channel. *)
LEMMA ReceiveKeepsInductive ==
    ASSUME Inductive, Receive
    PROVE  Inductive'
<1> USE DEF Inductive, Receive
<1>1. /\ Head(events) \in Event /\ Head(events) = events[1] /\ 1 \in DOMAIN events
      /\ events' \in Seq(Event)
      /\ DOMAIN events = 1 .. Len(events) /\ Len(events) \in Nat
      /\ \A i \in DOMAIN events' :
            i + 1 \in DOMAIN events /\ i \in Nat /\ events'[i] = events[i + 1]
  BY TailProperties DEF Types
<1>2. /\ worker'.at = "load" /\ worker'.event = events[1] /\ worker'.saved = {url}
      /\ worker'.nr = 0 /\ worker' \in Worker
  BY <1>1 DEF Types, Worker
<1>3. Types' BY <1>1, <1>2 DEF Types
<1>4. Recorded' BY <1>1, <1>2 DEF Types, Recorded, Logged
<1>5. RequestsAreLast' BY <1>1, <1>2 DEF Ordered, RequestsAreLast, Before
<1>6. ChannelIsOrdered'
  <2>1. \A i, j \in DOMAIN events' : i < j => Before(events'[i], events'[j])
    BY <1>1 DEF Ordered, ChannelIsOrdered
  <2>2. \A i \in DOMAIN events' : 1 < i + 1 /\ Before(events[1], events'[i])
    BY <1>1 DEF Ordered, ChannelIsOrdered
  <2>. QED BY <1>1, <1>2, <2>1, <2>2 DEF Ordered, ChannelIsOrdered, Before
<1>7. SentIsOrdered' BY <1>1, <1>2 DEF Ordered, ChannelIsOrdered, SentIsOrdered, Before
<1>8. Destined' /\ Chained' BY <1>2 DEF Destined, Chained, Follows
<1>. QED BY <1>3, <1>4, <1>5, <1>6, <1>7, <1>8 DEF Ordered

(* A worker that goes back to the channel leaves nothing to compare with. *)
LEMMA IdleWorkerKeepsInductive ==
    ASSUME Inductive, worker' = IdleWorker,
           UNCHANGED <<rows, request, events, url, issued, sent>>
    PROVE  Inductive'
<1> USE DEF Inductive
<1>1. worker'.at = "receive" BY DEF IdleWorker
<1>2. Types' BY DEF Types, IdleWorker, NoEvent, Event, Worker
<1>3. Recorded' BY <1>1 DEF Recorded, Logged
<1>4. Ordered' BY <1>1 DEF Ordered, RequestsAreLast, ChannelIsOrdered, SentIsOrdered, Before
<1>5. Destined' /\ Chained' BY <1>1 DEF Destined, Chained, Follows
<1>. QED BY <1>2, <1>3, <1>4, <1>5

(* The destination that is read is in force at that moment. *)
LEMMA LoadKeepsInductive ==
    ASSUME Inductive, LoadSettings
    PROVE  Inductive'
<1> USE DEF Inductive, LoadSettings, Destination
<1>1. CASE url = None BY <1>1, IdleWorkerKeepsInductive
<1>2. CASE url # None
  <2>1. /\ worker'.at = "post" /\ worker'.event = worker.event /\ worker'.url = url
        /\ worker'.saved = worker.saved
        /\ worker'.nr = worker.nr /\ worker.nr = 0 /\ worker' \in Worker
    BY <1>2 DEF Types, Chained, Worker
  <2>2. Types' BY <1>2, <2>1 DEF Types
  <2>3. Recorded' BY <2>1 DEF Recorded, Logged
  <2>4. Ordered' BY <2>1 DEF Ordered, RequestsAreLast, ChannelIsOrdered, SentIsOrdered, Before
  <2>5. Destined' /\ Chained' BY <2>1 DEF Destined, Chained, Follows
  <2>. QED BY <2>2, <2>3, <2>4, <2>5
<1>. QED BY <1>1, <1>2

(* What reaches an address is later than what arrived before from the same client, or
   follows the request before it; and so will the next request of this worker. *)
LEMMA RequestKeepsInductive ==
    ASSUME Inductive, worker.at = "post", NEW location \in Locations \cup {None},
           Reaches(location), UNCHANGED <<rows, request, events, url, issued>>,
           worker' \in Worker, worker'.at # "load",
           worker'.at = "post" =>
              /\ worker'.event = worker.event /\ worker'.saved = worker.saved
              /\ worker'.nr = worker.nr + 1
              /\ worker'.url = location /\ location \in Locations
    PROVE  Inductive'
<1> USE DEF Inductive
<1> DEFINE d == [event |-> worker.event, url |-> worker.url, nr |-> worker.nr + 1,
                 location |-> location, saved |-> worker.saved]
<1>1. d \in Delivery BY DEF Types, Delivery, Worker
<1>2. /\ sent' \in Seq(Delivery)
      /\ DOMAIN sent = 1 .. Len(sent) /\ Len(sent) \in Nat
      /\ DOMAIN sent' = 1 .. Len(sent) + 1
      /\ \A i \in DOMAIN sent : sent'[i] = sent[i]
      /\ sent'[Len(sent) + 1] = d
      /\ Len(sent') = Len(sent) + 1
  BY <1>1, AppendProperties DEF Types, Reaches
<1>3. \A i \in DOMAIN sent' : i \in DOMAIN sent \/ i = Len(sent) + 1 BY <1>2
<1>4. /\ d.event = worker.event /\ d.url = worker.url /\ d.saved = worker.saved
      /\ d.nr = worker.nr + 1 /\ d.location = location /\ worker.nr \in Nat
      /\ worker'.at \in {"receive", "post"}
  BY DEF Types, Worker
<1> HIDE DEF d
<1>5. Types' BY <1>2 DEF Types
<1>6. Recorded' BY <1>2, <1>3, <1>4 DEF Recorded, Logged
<1>7. RequestsAreLast' BY <1>2, <1>3, <1>4 DEF Ordered, RequestsAreLast, Before
<1>8. ChannelIsOrdered' BY <1>2, <1>3, <1>4 DEF Ordered, ChannelIsOrdered, Before
<1>9. SentIsOrdered'
  <2>1. ASSUME NEW i \in DOMAIN sent', NEW j \in DOMAIN sent', i < j, sent'[j].nr = 1
        PROVE  Before(sent'[i].event, sent'[j].event)
    <3>1. i \in DOMAIN sent BY <1>2, <1>3, <2>1
    <3>2. CASE j \in DOMAIN sent BY <1>2, <2>1, <3>1, <3>2 DEF Ordered, SentIsOrdered
    <3>3. CASE j = Len(sent) + 1
      <4>1. worker.nr = 0 BY <1>2, <1>4, <2>1, <3>3
      <4>. QED BY <1>2, <1>4, <3>1, <3>3, <4>1 DEF Ordered, SentIsOrdered
    <3>. QED BY <1>3, <3>2, <3>3
  <2>2. \A i \in DOMAIN sent' : sent'[i].event.id <= issued
    BY <1>2, <1>3, <1>4 DEF Ordered, SentIsOrdered
  <2>3. worker'.at # "receive" => worker'.nr # 0 /\ worker'.event.id <= issued
    BY <1>4 DEF Ordered, SentIsOrdered
  <2>. QED BY <2>1, <2>2, <2>3 DEF SentIsOrdered, Before
<1>10. Destined'
  <2>1. ASSUME NEW i \in DOMAIN sent', sent'[i].nr = 1
        PROVE  sent'[i].url \in sent'[i].saved
    <3>1. CASE i \in DOMAIN sent BY <1>2, <2>1, <3>1 DEF Destined
    <3>2. CASE i = Len(sent) + 1
      <4>1. worker.nr = 0 BY <1>2, <1>4, <2>1, <3>2
      <4>. QED BY <1>2, <1>4, <3>2, <4>1 DEF Destined
    <3>. QED BY <1>3, <3>1, <3>2
  <2>2. worker'.at = "post" => worker'.nr # 0 BY <1>4
  <2>. QED BY <1>4, <2>1, <2>2 DEF Destined
<1>11. Chained'
  <2>1. ASSUME worker'.at = "post"
        PROVE  Follows(Len(sent), worker.event, worker.nr, worker.url)'
    BY <1>2, <1>4, <2>1 DEF Follows
  <2>2. ASSUME NEW i \in DOMAIN sent', sent'[i].nr # 1
        PROVE  Follows(i - 1, sent[i].event, sent[i].nr - 1, sent[i].url)'
    <3>1. CASE i \in DOMAIN sent
      <4>1. Follows(i - 1, sent[i].event, sent[i].nr - 1, sent[i].url)
        BY <1>2, <2>2, <3>1 DEF Chained
      <4>2. i - 1 \in DOMAIN sent BY <1>2, <3>1, <4>1 DEF Follows
      <4>. QED BY <1>2, <3>1, <4>1, <4>2 DEF Follows
    <3>2. CASE i = Len(sent) + 1
      <4>1. worker.nr # 0 BY <1>2, <1>4, <2>2, <3>2
      <4>2. Follows(Len(sent), worker.event, worker.nr, worker.url) BY <4>1 DEF Chained
      <4>3. Len(sent) \in DOMAIN sent BY <1>2, <4>2 DEF Follows
      <4>. QED BY <1>2, <1>4, <3>2, <4>2, <4>3 DEF Follows
    <3>. QED BY <1>3, <3>1, <3>2
  <2>. QED BY <1>4, <2>1, <2>2 DEF Chained
<1>. QED BY <1>5, <1>6, <1>7, <1>8, <1>9, <1>10, <1>11 DEF Ordered

(* The last request of a delivery. *)
LEMMA ArrivalKeepsInductive ==
    ASSUME Inductive, Arrives
    PROVE  Inductive'
<1>1. IdleWorker \in Worker /\ IdleWorker.at = "receive"
  BY DEF IdleWorker, NoEvent, Worker, Event
<1>. QED BY <1>1, RequestKeepsInductive DEF Arrives

(* A request whose answer names another address. *)
LEMMA RedirectKeepsInductive ==
    ASSUME Inductive, FollowRedirect
    PROVE  Inductive'
<1>1. PICK location \in Locations : Reaches(location) /\ worker' = Redirected(location)
  BY DEF FollowRedirect
<1>2. worker \in Worker /\ worker.at = "post" /\ worker.nr + 1 \in Nat
  BY DEF Inductive, Types, Worker, FollowRedirect
<1>3. /\ worker'.at = worker.at /\ worker'.event = worker.event /\ worker'.url = location
      /\ worker'.saved = worker.saved /\ worker'.nr = worker.nr + 1
  BY <1>1, <1>2 DEF Worker, Redirected
<1>4. worker' \in Worker BY <1>1, <1>2 DEF Worker, Redirected
<1>. QED BY <1>1, <1>2, <1>3, <1>4, RequestKeepsInductive DEF FollowRedirect

(* A restart empties everything but the log and what has arrived. *)
LEMMA RestartKeepsInductive ==
    ASSUME Inductive, Restart
    PROVE  Inductive'
<1> USE DEF Inductive, Restart
<1>1. /\ worker'.at = "receive"
      /\ \A h \in Handlers : request'[h].at = "idle"
      /\ events' = <<>>
  BY DEF IdleWorker, IdleHandler
<1>2. Types' BY DEF Types, IdleWorker, IdleHandler, NoEvent, Event, Worker
<1>3. Recorded' BY <1>1 DEF Recorded, Logged
<1>4. Ordered' BY <1>1 DEF Ordered, RequestsAreLast, ChannelIsOrdered, SentIsOrdered, Before
<1>5. Destined' /\ Chained' BY <1>1 DEF Destined, Chained, Follows
<1>. QED BY <1>2, <1>3, <1>4, <1>5

-----------------------------------------------------------------------------
(* The invariant holds at every time. *)
LEMMA InductiveAlways == Spec => []Inductive
<1>1. Inductive /\ [Next]_vars => Inductive'
  <2> SUFFICES ASSUME Inductive, [Next]_vars PROVE Inductive' OBVIOUS
  <2>1. ASSUME NEW h \in Handlers, Audit(h) \/ HandlerStep(h) \/ InsertFails(h)
        PROVE  Inductive'
    <3>1. CASE Audit(h) BY <3>1, AuditKeepsInductive
    <3>2. CASE InsertAuditEvent(h) BY <3>2, InsertKeepsInductive
    <3>3. CASE Enqueue(h) BY <3>3, EnqueueKeepsInductive
    <3>4. CASE InsertFails(h)
      BY <3>4, GivingUpKeepsInductive DEF InsertFails, AfterFailedInsert
    <3>. QED BY <2>1, <3>1, <3>2, <3>3, <3>4 DEF HandlerStep
  <2>2. CASE SaveURL BY <2>2, SaveURLKeepsInductive
  <2>3. CASE WorkerStep
    <3>1. CASE Receive BY <3>1, ReceiveKeepsInductive
    <3>2. CASE LoadSettings BY <3>2, LoadKeepsInductive
    <3>3. CASE Arrives BY <3>3, ArrivalKeepsInductive
    <3>4. CASE FollowRedirect BY <3>4, RedirectKeepsInductive
    <3>5. CASE Lost BY <3>5, IdleWorkerKeepsInductive DEF Lost, AfterFailedDelivery
    <3>. QED BY <2>3, <3>1, <3>2, <3>3, <3>4, <3>5 DEF WorkerStep
  <2>4. CASE LoadFails
    BY <2>4, IdleWorkerKeepsInductive DEF LoadFails, AfterFailedDelivery
  <2>5. CASE Restart BY <2>5, RestartKeepsInductive
  <2>6. CASE UNCHANGED vars
    BY <2>6 DEF vars, Inductive, Types, Recorded, Logged, Ordered, RequestsAreLast,
                ChannelIsOrdered, SentIsOrdered, Before, Destined, Chained, Follows
  <2>. QED BY <2>1, <2>2, <2>3, <2>4, <2>5, <2>6 DEF Next
<1>. QED BY <1>1, InitiallyInductive, PTL DEF Spec

(* The channel never holds more than its capacity, so no handler waits for the
   dispatcher. *)
LEMMA ChannelIsBounded ==
    ASSUME Capacity \in Nat, Types, Len(events) <= Capacity, [Next]_vars
    PROVE  Len(events') <= Capacity
<1> USE DEF Types
<1>1. ASSUME NEW h \in Handlers, Enqueue(h)
      PROVE  Len(events') <= Capacity
  <2>1. request[h].event \in Event
    OBVIOUS
  <2>2. CASE events' = Append(events, request[h].event) /\ HasRoom
    <3>1. Len(events') = Len(events) + 1 /\ Len(events) \in Nat
      BY <2>1, <2>2
    <3>. QED
      BY <2>2, <3>1 DEF HasRoom
  <2>. QED
    BY <1>1, <2>2 DEF Enqueue
<1>2. CASE Receive
  <2>1. Len(events') = Len(events) - 1 /\ Len(events) \in Nat
    BY <1>2 DEF Receive
  <2>. QED
    BY <2>1
<1>3. CASE Restart
  BY <1>3 DEF Restart
<1>4. ASSUME ~Receive, ~Restart, \A h \in Handlers : ~Enqueue(h)
      PROVE  events' = events
  BY <1>4 DEF Next, HandlerStep, WorkerStep, Audit, InsertAuditEvent, InsertFails, SaveURL,
              LoadSettings, Arrives, FollowRedirect, Lost, LoadFails, vars
<1>. QED
  BY <1>1, <1>2, <1>3, <1>4

(* Every variable has its type, the channel's bound included. *)
THEOREM TypeCorrect ==
    ASSUME Capacity \in Nat
    PROVE  Spec => []TypeOK
<1> DEFINE Bounded == Types /\ Len(events) <= Capacity
<1>1. Init => Bounded
  BY InitiallyInductive DEF Inductive, Init
<1>2. Bounded /\ Types' /\ [Next]_vars => Bounded'
  BY ChannelIsBounded
<1>3. Inductive => Types
  BY DEF Inductive
<1>4. Bounded => TypeOK
  BY DEF Types, Worker, TypeOK
<1>. QED
  BY <1>1, <1>2, <1>3, <1>4, InductiveAlways, PTL DEF Spec

(* Whatever is dropped, lost, redirected or cut off by a restart: what arrives at a
   webhook is in the audit log; a delivery begins once for an event, in the order of
   its client's operations and at a URL that was saved at some time since it began;
   and each further request of it goes where the answer to the one before sent it. *)
THEOREM DeliveriesAreFaithful == Spec => []DeliveriesFollowTheLog
<1>1. ASSUME Inductive, NEW i \in DOMAIN sent, sent[i].nr # 1
      PROVE  /\ i > 1 /\ sent[i - 1].event = sent[i].event
             /\ sent[i - 1].nr + 1 = sent[i].nr /\ sent[i - 1].location = sent[i].url
  <2>1. Follows(i - 1, sent[i].event, sent[i].nr - 1, sent[i].url)
    BY <1>1 DEF Inductive, Chained
  <2>2. DOMAIN sent = 1 .. Len(sent) /\ Len(sent) \in Nat /\ sent[i] \in Delivery
    BY <1>1 DEF Inductive, Types
  <2>. QED BY <2>1, <2>2 DEF Follows, Delivery
<1>2. Inductive => DeliveriesFollowTheLog
  BY <1>1 DEF Inductive, Recorded, Logged, Ordered, SentIsOrdered, Before, Destined,
         DeliveriesFollowTheLog
<1>. QED BY <1>2, InductiveAlways, PTL

=============================================================================
