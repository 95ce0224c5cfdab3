---------------------------- MODULE EventDelivery ----------------------------
(***************************************************************************)
(* The path of one incident's events from the outbox to a consumer group:  *)
(* the relay (apps/worker/main.py), the shard's Redis stream with its      *)
(* pending-entries list, and the consumers (packages/events/consumer.py)   *)
(* with their ledger of consumed events.                                   *)
(*                                                                         *)
(* An event is its outbox sequence number, a stream entry the index of its *)
(* position.  Events of one incident share a shard (streams.py), so one    *)
(* stream is enough; every group has a pending list and a ledger of its    *)
(* own.  A publish may fail before or after Redis has the entry; a relay   *)
(* or a consumer dies between any two calls, or is so slow that its        *)
(* messages are taken from it.  What a handler does is left out: it        *)
(* succeeds, fails, or refuses the event for good.                         *)
(***************************************************************************)
EXTENDS Naturals, Sequences, FiniteSets, SequencesExt

CONSTANTS
    MaxEvents,           \* bound: outbox rows
    Relays, Consumers,   \* processes
    MaxPublishAttempts,  \* outbox_max_publish_attempts
    BatchSize,           \* outbox_batch_size, and count of XREADGROUP and XAUTOCLAIM
    MaxDeliveries,       \* consumer_max_deliveries
    MaxFaults,           \* bound: failed publishes and handlers, crashes, slow consumers
    NoOne                \* the consumer identity of a process that is gone

ASSUME DeliveryAssumption ==
    /\ {MaxPublishAttempts, BatchSize, MaxDeliveries} \subseteq Nat \ {0}
    /\ {MaxEvents, MaxFaults} \subseteq Nat
    /\ NoOne \notin Consumers
    /\ IsFiniteSet(Relays) /\ IsFiniteSet(Consumers)

Events == 1..MaxEvents

VARIABLES
    commits,     \* outbox_events rows in the order their transactions committed
    published,   \* those with published_at
    given_up,    \* those whose publishing some pass gave up on (history)
    relay,       \* per relay: the batch it read and where it is in it
    stream,      \* the events of the shard's entries
    last,        \* the group's last-delivered entry
    pending,     \* the group's pending entries: consumer, times_delivered, idle
    consumer,    \* per consumer: the messages it read and where it is
    ledger,      \* consumed_events
    dead,        \* events of the dead-letter stream
    handled,     \* per event: how often the handler succeeded (history)
    faults

outbox_vars == <<commits, published, given_up, relay>>
group_vars == <<last, pending, consumer, ledger, dead, handled>>
vars == <<outbox_vars, stream, group_vars, faults>>

IdleRelay == [at |-> "idle", batch |-> <<>>, attempt |-> 1]
NewConsumer == [at |-> "reclaim", batch |-> <<>>]

Init ==
    /\ commits = <<>> /\ published = {} /\ given_up = {}
    /\ relay = [r \in Relays |-> IdleRelay]
    /\ stream = <<>> /\ last = 0
    /\ pending = <<>>
    /\ consumer = [c \in Consumers |-> NewConsumer]
    /\ ledger = {} /\ dead = {}
    /\ handled = [e \in Events |-> 0]
    /\ faults = 0

committed == ToSet(commits)

Fault == faults < MaxFaults /\ faults' = faults + 1

(* The first n of S in ascending order (one sequence): ORDER BY and LIMIT, *)
(* and the COUNT of a read of the stream.                                  *)
First(n, S) ==
    {s \in [1..(IF n < Cardinality(S) THEN n ELSE Cardinality(S)) -> S] :
        /\ \A i, j \in DOMAIN s : i < j => s[i] < s[j]
        /\ \A x \in S \ ToSet(s), i \in DOMAIN s : s[i] < x}

-----------------------------------------------------------------------------
(* The relay *)

(* A business transaction commits with its event.  The sequence number was *)
(* drawn when the row was flushed: commits need not be in that order.      *)
Commit(e) ==
    /\ e \notin committed
    /\ commits' = Append(commits, e)
    /\ UNCHANGED <<published, given_up, relay, stream, group_vars, faults>>

unpublished == committed \ published

Faulty_get_unpublished_outbox_events ==
    {Reverse(batch) : batch \in First(BatchSize, unpublished)}

\* A plain SELECT by sequence: every relay reads the same rows.
get_unpublished_outbox_events == First(BatchSize, unpublished)

ReadBatch(r) ==
    /\ relay[r].at = "idle"
    /\ unpublished # {}
    /\ \E batch \in get_unpublished_outbox_events :
          relay' = [relay EXCEPT ![r] = [at |-> "publish", batch |-> batch, attempt |-> 1]]
    /\ UNCHANGED <<commits, published, given_up, stream, group_vars, faults>>

Publishing(r) == relay[r].at = "publish"

\* RedisStreamEventPublisher.publish: one XADD.
xadd(r) == stream' = Append(stream, Head(relay[r].batch))

Publish(r) ==
    /\ Publishing(r)
    /\ xadd(r)
    /\ relay' = [relay EXCEPT ![r].at = "mark"]
    /\ UNCHANGED <<commits, published, given_up, group_vars, faults>>

\* The rest of the batch, then the next poll.
next_row(r) ==
    relay' = [relay EXCEPT ![r] = IF Len(@.batch) = 1 THEN IdleRelay
                ELSE [at |-> "publish", batch |-> Tail(@.batch), attempt |-> 1]]

try_again(r) ==
    /\ relay[r].attempt < MaxPublishAttempts
    /\ relay' = [relay EXCEPT ![r].attempt = @ + 1]
    /\ UNCHANGED <<published, given_up>>

Faulty_after_failure(r) ==
    \/ try_again(r)
    \/ /\ relay[r].attempt >= MaxPublishAttempts
       /\ next_row(r)
       /\ published' = published \cup {Head(relay[r].batch)}
       /\ given_up' = given_up \cup {Head(relay[r].batch)}

\* _publish_with_retry, then mark_outbox_event_publish_failed and the next row.
after_failure(r) ==
    \/ try_again(r)
    \/ /\ relay[r].attempt >= MaxPublishAttempts
       /\ next_row(r)
       /\ given_up' = given_up \cup {Head(relay[r].batch)}
       /\ UNCHANGED published

\* The call raised; the entry may be on the stream all the same.
PublishFails(r) ==
    /\ Publishing(r)
    /\ Fault
    /\ xadd(r) \/ UNCHANGED stream
    /\ after_failure(r)
    /\ UNCHANGED <<commits, group_vars>>

\* mark_outbox_event_published and its commit, row by row.
MarkPublished(r) ==
    /\ relay[r].at = "mark"
    /\ published' = published \cup {Head(relay[r].batch)}
    /\ next_row(r)
    /\ UNCHANGED <<commits, given_up, stream, group_vars, faults>>

RelayCrash(r) ==
    /\ relay[r].at # "idle"
    /\ Fault
    /\ relay' = [relay EXCEPT ![r] = IdleRelay]
    /\ UNCHANGED <<commits, published, given_up, stream, group_vars>>

-----------------------------------------------------------------------------
(* The consumers *)

Deliver(c, messages, next) ==
    consumer' = [consumer EXCEPT
        ![c] = IF messages = <<>> THEN [at |-> next, batch |-> <<>>]
               ELSE [at |-> "check", batch |-> messages]]

Faulty_stale == DOMAIN pending

stale == {m \in DOMAIN pending : pending[m].idle}

Faulty_reclaim_from(c) == {m \in stale : pending[m].owner = c}

\* XAUTOCLAIM takes over stale entries, whoever they were delivered to.
reclaim_from(c) == stale

Reclaim(c) ==
    /\ consumer[c].at = "reclaim"
    /\ \E claimed \in First(BatchSize, reclaim_from(c)) :
       /\ pending' = [m \in DOMAIN pending |->
                        IF m \in ToSet(claimed)
                          THEN [owner |-> c, count |-> pending[m].count + 1, idle |-> FALSE]
                          ELSE pending[m]]
       /\ Deliver(c, claimed, "read")
    /\ UNCHANGED <<outbox_vars, stream, last, ledger, dead, handled, faults>>

\* XREADGROUP: entries no consumer of the group was given yet.
ReadNew(c) ==
    /\ consumer[c].at = "read"
    /\ \E new \in First(BatchSize, last + 1 .. Len(stream)) :
       /\ last' = last + Len(new)
       /\ pending' = [m \in DOMAIN pending \cup ToSet(new) |->
                        IF m \in ToSet(new) THEN [owner |-> c, count |-> 1, idle |-> FALSE]
                        ELSE pending[m]]
       /\ Deliver(c, new, "reclaim")
    /\ UNCHANGED <<outbox_vars, stream, ledger, dead, handled, faults>>

Message(c) == Head(consumer[c].batch)
Event(c) == stream[Message(c)]

\* _delivery_count: 1 when the entry is no longer pending.
delivery_count(m) == IF m \in DOMAIN pending THEN pending[m].count ELSE 1

classify_delivery(count) == IF count > MaxDeliveries THEN "poison" ELSE "process"

Goto(c, position) == consumer' = [consumer EXCEPT ![c].at = position]

(* The rest of the batch, then the stale entries (again): a consumer reads *)
(* new entries when it finds none of those.                                *)
Finish(c) ==
    consumer' = [consumer EXCEPT ![c] =
        IF Len(@.batch) = 1 THEN NewConsumer ELSE [at |-> "check", batch |-> Tail(@.batch)]]

is_duplicate(e) == e \in ledger

\* _handle_message up to the handler.
Check(c) ==
    /\ consumer[c].at = "check"
    /\ Goto(c, IF classify_delivery(delivery_count(Message(c))) = "poison" THEN "dead_letter"
               ELSE IF is_duplicate(Event(c)) THEN "ack"
               ELSE "handle")
    /\ UNCHANGED <<outbox_vars, stream, last, pending, ledger, dead, handled, faults>>

Handle(c) ==
    /\ consumer[c].at = "handle"
    /\ handled' = [handled EXCEPT ![Event(c)] = @ + 1]
    /\ Goto(c, "mark")
    /\ UNCHANGED <<outbox_vars, stream, last, pending, ledger, dead, faults>>

\* A failure leaves the entry pending; PermanentProcessingError does not.
HandlerFails(c) ==
    /\ consumer[c].at = "handle"
    /\ Fault
    /\ Finish(c) \/ Goto(c, "dead_letter")
    /\ UNCHANGED <<outbox_vars, stream, last, pending, ledger, dead, handled>>

MarkProcessed(c) ==
    /\ consumer[c].at = "mark"
    /\ ledger' = ledger \cup {Event(c)}
    /\ Goto(c, "ack")
    /\ UNCHANGED <<outbox_vars, stream, last, pending, dead, handled, faults>>

DeadLetter(c) ==
    /\ consumer[c].at = "dead_letter"
    /\ dead' = dead \cup {Event(c)}
    /\ Goto(c, "ack")
    /\ UNCHANGED <<outbox_vars, stream, last, pending, ledger, handled, faults>>

\* XACK removes the entry whoever it is pending for.
Ack(c) ==
    /\ consumer[c].at = "ack"
    /\ pending' = [m \in DOMAIN pending \ {Message(c)} |-> pending[m]]
    /\ Finish(c)
    /\ UNCHANGED <<outbox_vars, stream, last, ledger, dead, handled, faults>>

Held(m) == \E c \in Consumers : m \in ToSet(consumer[c].batch)

\* claim_min_idle_ms passes for an entry; a live consumer may still hold it.
GrowStale(m) ==
    /\ m \in DOMAIN pending /\ ~pending[m].idle
    /\ pending' = [pending EXCEPT ![m].idle = TRUE]
    /\ IF Held(m) THEN Fault ELSE UNCHANGED faults
    /\ UNCHANGED <<outbox_vars, stream, last, consumer, ledger, dead, handled>>

(* The process dies, or a call of Redis or of the ledger raises; the next  *)
(* one has another identity (consumer_identity).                           *)
ConsumerCrash(c) ==
    /\ consumer[c].batch # <<>>
    /\ Fault
    /\ consumer' = [consumer EXCEPT ![c] = NewConsumer]
    /\ pending' = [m \in DOMAIN pending |->
                     [pending[m] EXCEPT !.owner = IF @ = c THEN NoOne ELSE @]]
    /\ UNCHANGED <<outbox_vars, stream, last, ledger, dead, handled>>

-----------------------------------------------------------------------------
RelayStep(r) == ReadBatch(r) \/ Publish(r) \/ MarkPublished(r)
ConsumerStep(c) ==
    \/ Reclaim(c) \/ ReadNew(c) \/ Check(c) \/ Handle(c) \/ MarkProcessed(c)
    \/ DeadLetter(c) \/ Ack(c)

Next ==
    \/ \E e \in Events : Commit(e)
    \/ \E r \in Relays : RelayStep(r) \/ PublishFails(r) \/ RelayCrash(r)
    \/ \E c \in Consumers : ConsumerStep(c) \/ HandlerFails(c) \/ ConsumerCrash(c)
    \/ \E m \in DOMAIN pending : GrowStale(m)

(* Both loops run for ever, and an entry that nobody works on ages.        *)
(* Transactions need not commit, and no fault need happen.                 *)
Fairness ==
    /\ \A r \in Relays : WF_vars(RelayStep(r))
    /\ \A c \in Consumers : WF_vars(ConsumerStep(c))
    /\ \A m \in 1..(MaxEvents * (Cardinality(Relays) + MaxFaults)) :
          WF_vars(~Held(m) /\ GrowStale(m))

Spec == Init /\ [][Next]_vars /\ Fairness

-----------------------------------------------------------------------------
(* Properties *)

Undelivered(e) == \E m \in last + 1 .. Len(stream) : stream[m] = e
Pending(e) == \E m \in DOMAIN pending : stream[m] = e

(* No crash, failed publish or lost consumer loses an event: until it is   *)
(* handled and in the ledger, or dead-lettered, it is still unpublished,   *)
(* undelivered or pending (the three crash points of main.py's docstring,  *)
(* ACK after mark_processed in _handle_message).                           *)
NothingIsLost ==
    \A e \in committed :
        \/ e \notin published
        \/ Undelivered(e) \/ Pending(e)
        \/ e \in ledger /\ handled[e] > 0
        \/ e \in dead

Copies(e) == Cardinality({m \in DOMAIN stream : stream[m] = e})

(* A handler runs again for an event only where something went wrong: once *)
(* per copy on the stream and once more per fault at most.  A consumer     *)
(* slower than claim_min_idle_ms counts as a fault; one that is busy for   *)
(* less is not overtaken (XAUTOCLAIM's min_idle_time).                     *)
DuplicatesAreBounded == \A e \in Events : handled[e] <= Copies(e) + faults

(* Every committed event is handled or dead-lettered in the end.           *)
EventuallySettled == \A e \in Events : e \in committed ~> e \in ledger \cup dead

Before(a, b, s) == \E i \in DOMAIN s : s[i] = a /\ b \notin ToSet(SubSeq(s, 1, i))

(* However many relays read the same rows, crash and publish again, the    *)
(* first entry of an event precedes those of all later ones on the stream, *)
(* with two exceptions: some pass gave up on publishing it and went on     *)
(* with the next row (relay_once), or the later event's transaction        *)
(* committed first.                                                        *)
DisorderHasACause ==
    \A a, b \in ToSet(stream) :
        a < b /\ Before(b, a, stream) => a \in given_up \/ Before(b, a, commits)

(* The documentation: "Per-aggregate (per `incident_id`) ordering is       *)
(* guaranteed.  The outbox `sequence` is global and monotonic".  The       *)
(* sequence number is drawn at the flush, and a relay that polls between   *)
(* two commits finds the later number alone.                               *)
EmissionOrderKept == \A a, b \in ToSet(stream) : a < b => ~Before(b, a, stream)

=============================================================================
