------------------------ MODULE EventDeliveryProofs ------------------------
(***************************************************************************)
(* Theorems about EventDelivery, for any number of events, relays,         *)
(* consumers and faults and every batch size and limit.                    *)
(***************************************************************************)
EXTENDS EventDelivery, FiniteSetTheorems, SequenceTheorems, TLAPS

-----------------------------------------------------------------------------
(* Types *)

RelayRows == [at : {"idle", "publish", "mark"}, batch : Seq(Events), attempt : Nat]
Entries == [owner : Consumers \cup {NoOne}, count : Nat, idle : BOOLEAN]
Working == {"check", "handle", "mark", "dead_letter", "ack"}
ConsumerRows == [at : Working \cup {"reclaim", "read"}, batch : Seq(Nat)]

OutboxTypes ==
    /\ commits \in Seq(Events)
    /\ published \subseteq Events
    /\ relay \in [Relays -> RelayRows]
    /\ \A r \in Relays : relay[r].at # "idle" => relay[r].batch # <<>>
    /\ stream \in Seq(Events)
    /\ faults \in Nat

(* A consumer works on a batch of entries the group was given, each once.  *)
BatchOK(c) ==
    /\ consumer[c].at \in Working <=> consumer[c].batch # <<>>
    /\ \A i \in DOMAIN consumer[c].batch : consumer[c].batch[i] \in 1..last
    /\ \A i, j \in DOMAIN consumer[c].batch :
            consumer[c].batch[i] = consumer[c].batch[j] => i = j

GroupTypes ==
    /\ last \in Nat /\ last <= Len(stream)
    /\ DOMAIN pending \subseteq 1..last
    /\ \A m \in DOMAIN pending : pending[m] \in Entries
    /\ consumer \in [Consumers -> ConsumerRows]
    /\ \A c \in Consumers : BatchOK(c)
    /\ ledger \subseteq Events
    /\ dead \subseteq Events
    /\ handled \in [Events -> Nat]

TypeInv == OutboxTypes /\ GroupTypes

-----------------------------------------------------------------------------
(* Nothing is lost *)

Settled(e) == (e \in ledger /\ handled[e] > 0) \/ e \in dead
Covered(e) == Undelivered(e) \/ Pending(e) \/ Settled(e)

(* What was published, and what a relay is about to mark as published, is  *)
(* on its way or settled; a consumer acknowledges settled events only.     *)
RelayCovers ==
    /\ \A e \in published : Covered(e)
    /\ \A r \in Relays : relay[r].at = "mark" => Covered(Head(relay[r].batch))

ConsumerSettles ==
    /\ \A e \in ledger : handled[e] > 0
    /\ \A c \in Consumers : consumer[c].at = "mark" => handled[Event(c)] > 0
    /\ \A c \in Consumers : consumer[c].at = "ack" => Settled(Event(c))

-----------------------------------------------------------------------------
(* Duplicates *)

(* What may still be handled once for event e: an entry nobody was given,  *)
(* an entry that is stale or that nobody holds, and an entry in a          *)
(* consumer's batch that it has not handled yet.                           *)
Free(m) == m \notin 1..last \/ (m \in DOMAIN pending /\ (pending[m].idle \/ ~Held(m)))
Ahead(c, m) ==
    /\ m \in ToSet(consumer[c].batch)
    /\ m = Message(c) => consumer[c].at \in {"check", "handle"}

Tokens(e) ==
    {t \in (Consumers \cup {NoOne}) \X DOMAIN stream :
        /\ stream[t[2]] = e
        /\ IF t[1] = NoOne THEN Free(t[2]) ELSE Ahead(t[1], t[2])}

TokensBound == \A e \in Events : handled[e] + Cardinality(Tokens(e)) <= Copies(e) + faults

-----------------------------------------------------------------------------
(* Order *)

(* What is smaller than an entry of the stream, or than a row in a relay's *)
(* batch, is on the stream or in that batch too, was given up on, or was   *)
(* committed later.                                                        *)
StreamOrderly ==
    /\ published \subseteq ToSet(stream)
    /\ ToSet(stream) \subseteq committed
    /\ \A b \in ToSet(stream), a \in committed :
            a < b => a \in ToSet(stream) \cup given_up \/ Before(b, a, commits)
    /\ DisorderHasACause

BatchOrderly(r) ==
    LET batch == relay[r].batch IN
    /\ ToSet(batch) \subseteq committed
    /\ relay[r].at = "mark" => Head(batch) \in ToSet(stream)
    /\ \A i, j \in DOMAIN batch : i < j => batch[i] < batch[j]
    /\ \A b \in ToSet(batch), a \in committed : a < b =>
            a \in ToSet(stream) \cup ToSet(batch) \cup given_up \/ Before(b, a, commits)

OrderInv == StreamOrderly /\ \A r \in Relays : BatchOrderly(r)

-----------------------------------------------------------------------------
(* Sequences *)

LEMMA EventsAreNumbers == Events \subseteq Nat /\ IsFiniteSet(Events)
  BY DeliveryAssumption, FS_Interval DEF Events

LEMMA FirstProperties ==
    ASSUME NEW n \in Nat \ {0}, NEW S, IsFiniteSet(S), NEW s \in First(n, S)
    PROVE  /\ s \in Seq(S)
           /\ Len(s) <= n /\ Len(s) <= Cardinality(S)
           /\ ToSet(s) \subseteq S
           /\ S # {} => s # <<>>
           /\ \A i, j \in DOMAIN s : i < j => s[i] < s[j]
           /\ \A x \in S \ ToSet(s), i \in DOMAIN s : s[i] < x
<1> DEFINE k == IF n < Cardinality(S) THEN n ELSE Cardinality(S)
<1>1. Cardinality(S) \in Nat /\ (S # {} => Cardinality(S) # 0)
  BY FS_CardinalityType, FS_EmptySet
<1>2. k \in Nat /\ k <= n /\ k <= Cardinality(S) /\ (S # {} => k # 0)
  BY <1>1
<1>3. /\ s \in [1..k -> S]
      /\ \A i, j \in DOMAIN s : i < j => s[i] < s[j]
      /\ \A x \in S \ ToSet(s), i \in DOMAIN s : s[i] < x
  BY DEF First
<1> HIDE DEF k
<1>4. s \in Seq(S) /\ Len(s) = k
  BY <1>2, <1>3
<1>5. ToSet(s) \subseteq S
  BY <1>3 DEF ToSet
<1>6. QED
  BY <1>2, <1>3, <1>4, <1>5

(* The first entries of an interval are its lower part. *)
LEMMA LowerPart ==
    ASSUME NEW a \in Nat, NEW n \in Nat, NEW s \in Seq(a + 1 .. n),
           \A i, j \in DOMAIN s : i < j => s[i] < s[j],
           \A x \in (a + 1 .. n) \ ToSet(s), i \in DOMAIN s : s[i] < x
    PROVE  ToSet(s) = a + 1 .. a + Len(s)
<1> DEFINE k == Len(s)
           T == ToSet(s)
<1>1. k \in Nat /\ DOMAIN s = 1..k /\ s \in [1..k -> a + 1 .. n]
  BY LenProperties
<1>2. T \subseteq a + 1 .. n /\ \A i \in 1..k : s[i] \in T
  BY <1>1 DEF ToSet
<1>up. \A i, j \in 1..k : i < j => s[i] < s[j]
  BY <1>1
<1>3. Cardinality(T) = k
  <2>1. s \in [1..k -> T] /\ \A y \in T : \E i \in 1..k : s[i] = y
    BY <1>1, <1>2 DEF ToSet
  <2>2. ASSUME NEW i \in 1..k, NEW j \in 1..k, s[i] = s[j] PROVE i = j
    <3>1. i \in Nat /\ j \in Nat /\ s[i] \in Nat /\ s[j] \in Nat
      BY <1>1
    <3>2. ~(i < j) /\ ~(j < i)
      BY <1>up, <2>2, <3>1
    <3>3. QED
      BY <3>1, <3>2
  <2> HIDE DEF k, T
  <2>3. s \in Bijection(1..k, T)
    BY <2>1, <2>2 DEF Bijection, Injection, Surjection, IsInjective
  <2>4. ExistsBijection(1..k, T)
    BY <2>3 DEF ExistsBijection
  <2>5. QED
    BY <1>1, <2>4, FS_CountingElements
<1>4. CASE k = 0
  <2>1. T = {}
    BY <1>1, <1>4 DEF ToSet
  <2>2. QED
    BY <1>4, <2>1
<1>5. CASE k # 0
  <2>1. k \in 1..k /\ s[k] \in a + 1 .. n
    BY <1>1, <1>5
  <2>2. \A x \in a + 1 .. s[k] : x \in T
    <3>1. ASSUME NEW x \in a + 1 .. s[k], x \notin T PROVE FALSE
      <4>1. x \in a + 1 .. n /\ x \in Int /\ s[k] \in Int
        BY <2>1
      <4>2. s[k] < x
        BY <1>1, <2>1, <3>1, <4>1
      <4>3. QED
        BY <4>1, <4>2
    <3>2. QED
      BY <3>1
  <2>3. \A y \in T : y \in a + 1 .. s[k]
    <3>1. ASSUME NEW y \in T PROVE y \in a + 1 .. s[k]
      <4>1. PICK i \in 1..k : y = s[i]
        BY <1>1 DEF ToSet
      <4>2. i \in Nat /\ k \in Nat /\ i <= k
        BY <1>1
      <4>3. y \in a + 1 .. n /\ (y = s[k] \/ y < s[k])
        BY <1>2, <1>up, <2>1, <4>1, <4>2
      <4>4. QED
        BY <2>1, <4>3
    <3>2. QED
      BY <3>1
  <2>4. T = a + 1 .. s[k]
    BY <2>2, <2>3
  <2>5. a + 1 \in Int /\ s[k] \in Int /\ s[k] >= a + 1
    BY <2>1
  <2>6. Cardinality(a + 1 .. s[k]) = s[k] - a
    BY <2>5, FS_Interval
  <2>7. s[k] = a + k
    BY <1>1, <1>3, <2>1, <2>4, <2>6
  <2>8. QED
    BY <2>4, <2>7
<1>6. QED
  BY <1>4, <1>5

LEMMA TailProperties ==
    ASSUME NEW S, NEW s \in Seq(S), s # <<>>
    PROVE  /\ Head(s) \in S /\ Head(s) = s[1] /\ 1 \in DOMAIN s
           /\ Tail(s) \in Seq(S)
           /\ DOMAIN Tail(s) = 1..(Len(s) - 1)
           /\ \A i \in DOMAIN Tail(s) : i + 1 \in DOMAIN s /\ Tail(s)[i] = s[i + 1]
           /\ Len(s) = 1 => Tail(s) = <<>>
           /\ Len(s) # 1 => Tail(s) # <<>>
           /\ ToSet(s) = {Head(s)} \cup ToSet(Tail(s))
<1>1. /\ Head(s) \in S /\ Head(s) = s[1] /\ 1 \in DOMAIN s
      /\ Tail(s) \in Seq(S)
      /\ DOMAIN Tail(s) = 1..(Len(s) - 1)
      /\ \A i \in DOMAIN Tail(s) : i + 1 \in DOMAIN s /\ Tail(s)[i] = s[i + 1]
      /\ Len(s) = 1 => Tail(s) = <<>>
      /\ Len(s) # 1 => Tail(s) # <<>>
  <2>1. /\ Len(s) \in Nat \ {0} /\ DOMAIN s = 1..Len(s)
        /\ Head(s) \in S /\ Head(s) = s[1]
    BY HeadTailProperties, LenProperties, EmptySeq
  <2>2. Tail(s) \in Seq(S) /\ Len(Tail(s)) = Len(s) - 1
    BY HeadTailProperties
  <2>3. DOMAIN Tail(s) = 1..(Len(s) - 1)
    BY <2>2, LenProperties
  <2>4. \A i \in 1..(Len(s) - 1) : i + 1 \in DOMAIN s /\ Tail(s)[i] = s[i + 1]
    BY <2>1, HeadTailProperties
  <2>5. Len(s) = 1 <=> Tail(s) = <<>>
    <3>1. PICK t \in Seq(S) : t = Tail(s)
      BY <2>2
    <3>2. (t = <<>> => Len(t) = 0) /\ (t # <<>> => Len(t) \in Nat \ {0})
      BY EmptySeq
    <3>3. QED
      BY <2>1, <2>2, <3>1, <3>2
  <2>6. QED
    BY <2>1, <2>2, <2>3, <2>4, <2>5
<1>2. ASSUME NEW i \in DOMAIN s, i # 1
      PROVE  i - 1 \in DOMAIN Tail(s) /\ Tail(s)[i - 1] = s[i]
  BY <1>2
<1>3. ASSUME NEW x \in ToSet(s) PROVE x \in {Head(s)} \cup ToSet(Tail(s))
  <2>1. PICK i \in DOMAIN s : x = s[i]
    BY DEF ToSet
  <2>2. CASE i = 1
    BY <1>1, <2>1, <2>2
  <2>3. CASE i # 1
    BY <1>2, <2>1, <2>3 DEF ToSet
  <2>4. QED
    BY <2>2, <2>3
<1>4. ASSUME NEW x \in ToSet(Tail(s)) PROVE x \in ToSet(s)
  <2>1. PICK i \in DOMAIN Tail(s) : x = Tail(s)[i]
    BY DEF ToSet
  <2>2. i + 1 \in DOMAIN s /\ x = s[i + 1]
    BY <1>1, <2>1
  <2>3. QED
    BY <2>2 DEF ToSet
<1>5. Head(s) \in ToSet(s)
  BY <1>1 DEF ToSet
<1>6. ToSet(s) = {Head(s)} \cup ToSet(Tail(s))
  BY <1>3, <1>4, <1>5
<1>7. QED
  BY <1>1, <1>6

LEMMA AppendToSet ==
    ASSUME NEW S, NEW s \in Seq(S), NEW e \in S
    PROVE  /\ Append(s, e) \in Seq(S)
           /\ Len(Append(s, e)) = Len(s) + 1
           /\ DOMAIN Append(s, e) = DOMAIN s \cup {Len(s) + 1}
           /\ Len(s) + 1 \notin DOMAIN s
           /\ \A i \in DOMAIN s : Append(s, e)[i] = s[i]
           /\ Append(s, e)[Len(s) + 1] = e
           /\ ToSet(Append(s, e)) = ToSet(s) \cup {e}
<1>1. /\ Append(s, e) \in Seq(S)
      /\ Len(Append(s, e)) = Len(s) + 1
      /\ DOMAIN Append(s, e) = DOMAIN s \cup {Len(s) + 1}
      /\ Len(s) + 1 \notin DOMAIN s
      /\ \A i \in DOMAIN s : Append(s, e)[i] = s[i]
      /\ Append(s, e)[Len(s) + 1] = e
  OBVIOUS
<1> DEFINE t == Append(s, e)
<1> HIDE DEF t
<1>2. ToSet(t) = ToSet(s) \cup {e}
  <2>1. /\ DOMAIN t = DOMAIN s \cup {Len(s) + 1}
        /\ \A i \in DOMAIN s : t[i] = s[i]
        /\ t[Len(s) + 1] = e
    BY <1>1 DEF t
  <2>2. QED
    BY <2>1 DEF ToSet
<1>3. QED
  BY <1>1, <1>2 DEF t

-----------------------------------------------------------------------------
(* Type correctness *)

LEMMA TypeInit == Init => TypeInv
<1> SUFFICES ASSUME Init PROVE TypeInv
  OBVIOUS
<1>1. OutboxTypes
  BY DEF Init, OutboxTypes, RelayRows, IdleRelay
<1>2. <<>> \in Seq(Nat) /\ DOMAIN <<>> = {}
  OBVIOUS
<1>3. GroupTypes
  BY <1>2 DEF Init, GroupTypes, BatchOK, ConsumerRows, NewConsumer, Working
<1>4. QED
  BY <1>1, <1>3 DEF TypeInv

(* What follows the head of a relay's batch. *)
LEMMA NextRow ==
    ASSUME OutboxTypes, NEW r \in Relays, relay[r].at # "idle", next_row(r)
    PROVE  /\ relay' \in [Relays -> RelayRows]
           /\ relay'[r].at \in {"idle", "publish"}
           /\ relay'[r].batch = Tail(relay[r].batch)
           /\ relay'[r].at # "idle" => relay'[r].batch # <<>>
           /\ \A q \in Relays : q # r => relay'[q] = relay[q]
<1> DEFINE batch == relay[r].batch
           new == IF Len(batch) = 1 THEN IdleRelay
                  ELSE [at |-> "publish", batch |-> Tail(batch), attempt |-> 1]
<1>1. batch \in Seq(Events) /\ batch # <<>>
  BY DEF OutboxTypes, RelayRows
<1>2. /\ Tail(batch) \in Seq(Events)
      /\ Len(batch) = 1 => Tail(batch) = <<>>
      /\ Len(batch) # 1 => Tail(batch) # <<>>
  BY <1>1, TailProperties
<1>3. relay' = [relay EXCEPT ![r] = new]
  BY DEF next_row
<1> HIDE DEF batch
<1>4. /\ new \in RelayRows /\ new.at \in {"idle", "publish"} /\ new.batch = Tail(batch)
      /\ new.at # "idle" => new.batch # <<>>
  BY <1>2 DEF RelayRows, IdleRelay
<1> HIDE DEF new
<1>5. QED
  BY <1>3, <1>4 DEF OutboxTypes, batch

(* Every step of the outbox side keeps the consumers' state and at most    *)
(* appends to the stream.                                                  *)
Streams ==
    /\ stream' \in Seq(Events)
    /\ Len(stream') \in {Len(stream), Len(stream) + 1}
    /\ DOMAIN stream \subseteq DOMAIN stream'
    /\ \A m \in DOMAIN stream : stream'[m] = stream[m]

LEMMA StreamUnchanged ==
    ASSUME OutboxTypes, UNCHANGED stream
    PROVE  Streams
  BY DEF OutboxTypes, Streams

LEMMA Xadd ==
    ASSUME OutboxTypes, NEW r \in Relays, relay[r].at # "idle", xadd(r)
    PROVE  /\ Streams
           /\ Head(relay[r].batch) \in Events
           /\ Len(stream') = Len(stream) + 1
           /\ stream'[Len(stream')] = Head(relay[r].batch)
           /\ ToSet(stream') = ToSet(stream) \cup {Head(relay[r].batch)}
<1>1. Head(relay[r].batch) \in Events
  BY TailProperties DEF OutboxTypes, RelayRows
<1>2. stream \in Seq(Events)
  BY DEF OutboxTypes
<1>3. QED
  BY <1>1, <1>2, AppendToSet DEF xadd, Streams

LEMMA GroupKept ==
    ASSUME GroupTypes, stream \in Seq(Events), Streams, UNCHANGED group_vars
    PROVE  GroupTypes'
<1>1. UNCHANGED <<last, pending, consumer, ledger, dead, handled>>
  BY DEF group_vars
<1>2. last \in Nat /\ last <= Len(stream) /\ Len(stream) \in Nat
  BY DEF GroupTypes
<1>3. last' <= Len(stream')
  BY <1>1, <1>2 DEF Streams
<1>4. QED
  BY <1>1, <1>3 DEF GroupTypes, BatchOK

(* The outbox side of every step. *)
LEMMA OutboxKept ==
    ASSUME OutboxTypes, UNCHANGED <<outbox_vars, stream>>, faults' \in Nat
    PROVE  OutboxTypes' /\ Streams
  BY DEF OutboxTypes, outbox_vars, Streams

LEMMA FaultType == ASSUME faults \in Nat, Fault PROVE faults' \in Nat /\ faults' > 0
  BY DEF Fault

LEMMA CommitTypes ==
    ASSUME TypeInv, NEW e \in Events, Commit(e)
    PROVE  TypeInv' /\ Streams
<1>1. OutboxTypes /\ GroupTypes
  BY DEF TypeInv
<1>2. Append(commits, e) \in Seq(Events)
  BY <1>1, AppendToSet DEF OutboxTypes
<1>3. OutboxTypes' /\ Streams
  BY <1>1, <1>2 DEF Commit, OutboxTypes, Streams
<1>4. GroupTypes'
  BY <1>1, <1>3, GroupKept DEF Commit, OutboxTypes
<1>5. QED
  BY <1>3, <1>4 DEF TypeInv

LEMMA UnpublishedFinite ==
    ASSUME OutboxTypes
    PROVE  unpublished \subseteq Events /\ IsFiniteSet(unpublished)
<1>1. unpublished \subseteq Events
  BY DEF OutboxTypes, unpublished, committed, ToSet
<1>2. QED
  BY <1>1, EventsAreNumbers, FS_Subset

LEMMA ReadBatchTypes ==
    ASSUME TypeInv, NEW r \in Relays, ReadBatch(r)
    PROVE  /\ TypeInv' /\ Streams
           /\ \E batch \in First(BatchSize, unpublished) :
                /\ batch # <<>> /\ batch \in Seq(Events)
                /\ relay' = [relay EXCEPT ![r] =
                                [at |-> "publish", batch |-> batch, attempt |-> 1]]
                /\ relay'[r].batch = batch /\ relay'[r].at = "publish"
<1>1. OutboxTypes /\ GroupTypes
  BY DEF TypeInv
<1>2. PICK batch \in First(BatchSize, unpublished) :
          relay' = [relay EXCEPT ![r] = [at |-> "publish", batch |-> batch, attempt |-> 1]]
  BY DEF ReadBatch, get_unpublished_outbox_events
<1>3. unpublished \subseteq Events /\ IsFiniteSet(unpublished) /\ unpublished # {}
  BY <1>1, UnpublishedFinite DEF ReadBatch
<1>4. BatchSize \in Nat \ {0}
  BY DeliveryAssumption
<1>5. batch \in Seq(unpublished) /\ batch # <<>>
  BY <1>3, <1>4, FirstProperties
<1>6. batch \in Seq(Events)
  BY <1>3, <1>5
<1> DEFINE new == [at |-> "publish", batch |-> batch, attempt |-> 1]
<1>7. new \in RelayRows /\ new.batch = batch /\ new.at = "publish"
  BY <1>6 DEF RelayRows
<1>8. relay' = [relay EXCEPT ![r] = new]
  BY <1>2
<1> HIDE DEF new
<1>9. OutboxTypes' /\ Streams
  BY <1>1, <1>5, <1>7, <1>8 DEF ReadBatch, OutboxTypes, Streams
<1>10. GroupTypes'
  BY <1>1, <1>9, GroupKept DEF ReadBatch, OutboxTypes
<1>11. QED
  BY <1>1, <1>2, <1>5, <1>6, <1>7, <1>8, <1>9, <1>10 DEF TypeInv, OutboxTypes

LEMMA PublishTypes ==
    ASSUME TypeInv, NEW r \in Relays, Publish(r)
    PROVE  /\ TypeInv' /\ Streams
           /\ relay'[r].at = "mark" /\ relay'[r].batch = relay[r].batch
           /\ \A q \in Relays : q # r => relay'[q] = relay[q]
<1>1. OutboxTypes /\ GroupTypes
  BY DEF TypeInv
<1>2. Streams
  BY <1>1, Xadd DEF Publish, Publishing
<1>3. /\ relay' \in [Relays -> RelayRows]
      /\ relay'[r].at = "mark" /\ relay'[r].batch = relay[r].batch
      /\ \A q \in Relays : q # r => relay'[q] = relay[q]
  BY <1>1 DEF OutboxTypes, RelayRows, Publish
<1>4. OutboxTypes'
  BY <1>1, <1>2, <1>3 DEF OutboxTypes, Publish, Publishing, Streams
<1>5. GroupTypes'
  BY <1>1, <1>2, GroupKept DEF Publish, OutboxTypes
<1>6. QED
  BY <1>2, <1>3, <1>4, <1>5 DEF TypeInv

LEMMA PublishFailsTypes ==
    ASSUME TypeInv, NEW r \in Relays, PublishFails(r)
    PROVE  /\ TypeInv' /\ Streams
           /\ UNCHANGED published
           /\ relay'[r].at \in {"idle", "publish"}
           /\ \A q \in Relays : q # r => relay'[q] = relay[q]
           /\ \/ relay'[r].batch = relay[r].batch /\ UNCHANGED given_up
              \/ /\ relay'[r].batch = Tail(relay[r].batch)
                 /\ given_up' = given_up \cup {Head(relay[r].batch)}
<1>1. OutboxTypes /\ GroupTypes
  BY DEF TypeInv
<1>2. Streams
  BY <1>1, Xadd, StreamUnchanged DEF PublishFails, Publishing
<1>3. UNCHANGED published /\ faults' \in Nat
  BY <1>1, FaultType DEF PublishFails, after_failure, try_again, OutboxTypes
<1>4. /\ relay' \in [Relays -> RelayRows]
      /\ relay'[r].at \in {"idle", "publish"}
      /\ \/ relay'[r].batch = relay[r].batch /\ UNCHANGED given_up
         \/ /\ relay'[r].batch = Tail(relay[r].batch)
            /\ given_up' = given_up \cup {Head(relay[r].batch)}
      /\ relay'[r].at # "idle" => relay'[r].batch # <<>>
      /\ \A q \in Relays : q # r => relay'[q] = relay[q]
  <2>1. CASE try_again(r)
    <3>1. relay' = [relay EXCEPT ![r].attempt = @ + 1] /\ UNCHANGED given_up
      BY <2>1 DEF try_again
    <3>2. relay \in [Relays -> RelayRows] /\ relay[r] \in RelayRows
      BY <1>1 DEF OutboxTypes
    <3>3. relay[r].at = "publish" /\ relay[r].batch # <<>>
      BY <1>1 DEF OutboxTypes, PublishFails, Publishing
    <3>4. PICK new : new = [relay[r] EXCEPT !.attempt = @ + 1]
      OBVIOUS
    <3>5. new \in RelayRows /\ new.at = relay[r].at /\ new.batch = relay[r].batch
      BY <3>2, <3>4 DEF RelayRows
    <3>6. relay' = [relay EXCEPT ![r] = new]
      BY <3>1, <3>4
    <3>7. QED
      BY <3>1, <3>2, <3>3, <3>5, <3>6
  <2>2. CASE ~try_again(r)
    BY <1>1, <2>2, NextRow DEF PublishFails, Publishing, after_failure
  <2>3. QED
    BY <2>1, <2>2
<1>5. OutboxTypes'
  BY <1>1, <1>2, <1>3, <1>4 DEF OutboxTypes, PublishFails, Streams
<1>6. GroupTypes'
  BY <1>1, <1>2, GroupKept DEF PublishFails, OutboxTypes
<1>7. QED
  BY <1>2, <1>3, <1>4, <1>5, <1>6 DEF TypeInv

LEMMA MarkPublishedTypes ==
    ASSUME TypeInv, NEW r \in Relays, MarkPublished(r)
    PROVE  /\ TypeInv' /\ Streams
           /\ relay'[r].at \in {"idle", "publish"}
           /\ relay'[r].batch = Tail(relay[r].batch)
           /\ \A q \in Relays : q # r => relay'[q] = relay[q]
<1>1. OutboxTypes /\ GroupTypes
  BY DEF TypeInv
<1>2. Streams
  BY <1>1, StreamUnchanged DEF MarkPublished
<1>3. /\ relay' \in [Relays -> RelayRows]
      /\ relay'[r].at \in {"idle", "publish"}
      /\ relay'[r].batch = Tail(relay[r].batch)
      /\ relay'[r].at # "idle" => relay'[r].batch # <<>>
      /\ \A q \in Relays : q # r => relay'[q] = relay[q]
  BY <1>1, NextRow DEF MarkPublished
<1>4. relay[r].batch \in Seq(Events) /\ relay[r].batch # <<>>
  BY <1>1 DEF OutboxTypes, RelayRows, MarkPublished
<1>5. Head(relay[r].batch) \in Events
  BY <1>4, TailProperties
<1>6. OutboxTypes'
  BY <1>1, <1>2, <1>3, <1>5 DEF OutboxTypes, MarkPublished, Streams
<1>7. GroupTypes'
  BY <1>1, <1>2, GroupKept DEF MarkPublished, OutboxTypes
<1>8. QED
  BY <1>2, <1>3, <1>6, <1>7 DEF TypeInv

LEMMA RelayCrashTypes ==
    ASSUME TypeInv, NEW r \in Relays, RelayCrash(r)
    PROVE  /\ TypeInv' /\ Streams
           /\ relay'[r] = IdleRelay
           /\ \A q \in Relays : q # r => relay'[q] = relay[q]
<1>1. OutboxTypes /\ GroupTypes
  BY DEF TypeInv
<1>2. Streams /\ faults' \in Nat
  BY <1>1, StreamUnchanged, FaultType DEF RelayCrash, OutboxTypes
<1>3. IdleRelay \in RelayRows /\ IdleRelay.at = "idle"
  BY DEF IdleRelay, RelayRows
<1>4. OutboxTypes'
  BY <1>1, <1>2, <1>3 DEF OutboxTypes, RelayCrash
<1>5. GroupTypes'
  BY <1>1, <1>2, GroupKept DEF RelayCrash, OutboxTypes
<1>6. QED
  BY <1>1, <1>2, <1>4, <1>5 DEF TypeInv, OutboxTypes, RelayCrash

(* What a consumer works on is an entry of the stream. *)
LEMMA Current ==
    ASSUME TypeInv, NEW c \in Consumers, consumer[c].at \in Working
    PROVE  /\ consumer[c].batch \in Seq(Nat) /\ consumer[c].batch # <<>>
           /\ Message(c) = consumer[c].batch[1] /\ 1 \in DOMAIN consumer[c].batch
           /\ Message(c) \in 1..last
           /\ Message(c) \in DOMAIN stream
           /\ Event(c) \in Events
           /\ Message(c) \in ToSet(consumer[c].batch)
<1>1. consumer[c] \in ConsumerRows /\ BatchOK(c)
  BY DEF TypeInv, GroupTypes
<1>2. consumer[c].batch \in Seq(Nat) /\ consumer[c].batch # <<>>
  BY <1>1 DEF BatchOK, ConsumerRows
<1>3. Message(c) = consumer[c].batch[1] /\ 1 \in DOMAIN consumer[c].batch
  BY <1>2, TailProperties DEF Message
<1>4. Message(c) \in 1..last
  BY <1>1, <1>3 DEF BatchOK
<1>5. stream \in Seq(Events) /\ last \in Nat /\ last <= Len(stream)
  BY DEF TypeInv, GroupTypes, OutboxTypes
<1>6. Message(c) \in DOMAIN stream
  BY <1>4, <1>5
<1>7. Event(c) \in Events
  BY <1>5, <1>6 DEF Event
<1>8. QED
  BY <1>2, <1>3, <1>4, <1>6, <1>7 DEF ToSet

(* A consumer that only moves to another position of its loop. *)
LEMMA GotoRow ==
    ASSUME GroupTypes, NEW c \in Consumers, consumer[c].at \in Working,
           NEW p \in Working, Goto(c, p), last' = last
    PROVE  /\ consumer' \in [Consumers -> ConsumerRows]
           /\ \A d \in Consumers : BatchOK(d)'
           /\ consumer'[c].at = p
           /\ \A d \in Consumers : consumer'[d].batch = consumer[d].batch
           /\ \A d \in Consumers : d # c => consumer'[d] = consumer[d]
<1>1. /\ consumer' \in [Consumers -> ConsumerRows]
      /\ consumer'[c].at = p
      /\ \A d \in Consumers : consumer'[d].batch = consumer[d].batch
      /\ \A d \in Consumers : d # c => consumer'[d] = consumer[d]
  BY DEF GroupTypes, ConsumerRows, Goto
<1>2. ASSUME NEW d \in Consumers PROVE BatchOK(d)'
  <2>1. BatchOK(d) /\ consumer'[d].batch = consumer[d].batch
    BY <1>1 DEF GroupTypes
  <2>2. consumer'[d].at \in Working <=> consumer[d].at \in Working
    BY <1>1
  <2>3. QED
    BY <2>1, <2>2 DEF BatchOK
<1>3. QED
  BY <1>1, <1>2

(* One that is done with the head of its batch. *)
LEMMA FinishRow ==
    ASSUME GroupTypes, NEW c \in Consumers, consumer[c].at \in Working,
           Finish(c), last' = last
    PROVE  /\ consumer' \in [Consumers -> ConsumerRows]
           /\ \A d \in Consumers : BatchOK(d)'
           /\ consumer'[c].at \in {"check", "reclaim"}
           /\ consumer'[c].batch = Tail(consumer[c].batch)
           /\ \A d \in Consumers : d # c => consumer'[d] = consumer[d]
<1> DEFINE batch == consumer[c].batch
           new == IF Len(batch) = 1 THEN NewConsumer
                  ELSE [at |-> "check", batch |-> Tail(batch)]
<1>1. batch \in Seq(Nat) /\ batch # <<>> /\ BatchOK(c)
  BY DEF GroupTypes, ConsumerRows, BatchOK
<1>2. consumer' = [consumer EXCEPT ![c] = new]
  BY DEF Finish
<1>3. /\ Tail(batch) \in Seq(Nat)
      /\ Len(batch) = 1 => Tail(batch) = <<>>
      /\ Len(batch) # 1 => Tail(batch) # <<>>
      /\ DOMAIN Tail(batch) = 1..(Len(batch) - 1)
      /\ \A i \in DOMAIN Tail(batch) : i + 1 \in DOMAIN batch /\ Tail(batch)[i] = batch[i + 1]
  BY <1>1, TailProperties
<1>4. /\ \A i \in DOMAIN Tail(batch) : Tail(batch)[i] \in 1..last
      /\ \A i, j \in DOMAIN Tail(batch) : Tail(batch)[i] = Tail(batch)[j] => i = j
  <2>1. /\ \A i \in DOMAIN batch : batch[i] \in 1..last
        /\ \A i, j \in DOMAIN batch : batch[i] = batch[j] => i = j
    BY <1>1 DEF BatchOK
  <2> HIDE DEF batch
  <2>2. \A i \in DOMAIN Tail(batch) : Tail(batch)[i] \in 1..last
    BY <1>3, <2>1
  <2>3. ASSUME NEW i \in DOMAIN Tail(batch), NEW j \in DOMAIN Tail(batch),
               Tail(batch)[i] = Tail(batch)[j]
        PROVE  i = j
    <3>1. i \in Nat /\ j \in Nat
      BY <1>3
    <3>2. i + 1 = j + 1
      BY <1>3, <2>1, <2>3
    <3>3. QED
      BY <3>1, <3>2
  <2>4. QED
    BY <2>2, <2>3
<1>5. /\ new \in ConsumerRows /\ new.batch = Tail(batch)
      /\ new.at \in {"check", "reclaim"}
      /\ new.at \in Working <=> new.batch # <<>>
  <2> HIDE DEF batch
  <2>1. QED
    BY <1>3 DEF ConsumerRows, NewConsumer, Working
<1> HIDE DEF new
<1>6. /\ consumer' \in [Consumers -> ConsumerRows]
      /\ consumer'[c] = new
      /\ \A d \in Consumers : d # c => consumer'[d] = consumer[d]
  BY <1>2, <1>5 DEF GroupTypes
<1>7. ASSUME NEW d \in Consumers PROVE BatchOK(d)'
  <2>1. CASE d = c
    <3>1. PICK t : t = Tail(batch)
      OBVIOUS
    <3>2. consumer'[d].batch = t /\ (consumer'[d].at \in Working <=> t # <<>>)
      BY <1>5, <1>6, <2>1, <3>1
    <3>3. /\ \A i \in DOMAIN t : t[i] \in 1..last'
          /\ \A i, j \in DOMAIN t : t[i] = t[j] => i = j
      BY <1>4, <3>1
    <3>4. QED
      BY <3>2, <3>3 DEF BatchOK
  <2>2. CASE d # c
    BY <1>6, <2>2 DEF BatchOK, GroupTypes
  <2>3. QED
    BY <2>1, <2>2
<1>8. QED
  BY <1>5, <1>6, <1>7

(* And one that was given a batch by Redis. *)
LEMMA DeliverRow ==
    ASSUME GroupTypes, NEW c \in Consumers, NEW messages \in Seq(Nat),
           NEW p \in {"reclaim", "read"}, Deliver(c, messages, p),
           last' \in Nat, last <= last',
           \A i \in DOMAIN messages : messages[i] \in 1..last',
           \A i, j \in DOMAIN messages : i < j => messages[i] < messages[j]
    PROVE  /\ consumer' \in [Consumers -> ConsumerRows]
           /\ \A d \in Consumers : BatchOK(d)'
           /\ consumer'[c].at \in {"check", p}
           /\ consumer'[c].batch = messages
           /\ \A d \in Consumers : d # c => consumer'[d] = consumer[d]
<1> DEFINE new == IF messages = <<>> THEN [at |-> p, batch |-> <<>>]
                  ELSE [at |-> "check", batch |-> messages]
<1>1. consumer' = [consumer EXCEPT ![c] = new]
  BY DEF Deliver
<1>2. /\ new \in ConsumerRows /\ new.batch = messages
      /\ new.at \in {"check", p}
      /\ new.at \in Working <=> new.batch # <<>>
  BY DEF ConsumerRows, Working
<1> HIDE DEF new
<1>3. /\ consumer' \in [Consumers -> ConsumerRows]
      /\ consumer'[c] = new
      /\ \A d \in Consumers : d # c => consumer'[d] = consumer[d]
  BY <1>1, <1>2 DEF GroupTypes
<1>4. \A i, j \in DOMAIN messages : messages[i] = messages[j] => i = j
  <2>1. ASSUME NEW i \in DOMAIN messages, NEW j \in DOMAIN messages,
               messages[i] = messages[j]
        PROVE  i = j
    <3>1. i \in Nat /\ j \in Nat /\ messages[i] \in Nat /\ messages[j] \in Nat
      OBVIOUS
    <3>2. ~(i < j) /\ ~(j < i)
      BY <2>1, <3>1
    <3>3. QED
      BY <3>1, <3>2
  <2>2. QED
    BY <2>1
<1>5. ASSUME NEW d \in Consumers PROVE BatchOK(d)'
  <2>1. CASE d = c
    BY <1>2, <1>3, <1>4, <2>1 DEF BatchOK
  <2>2. CASE d # c
    <3>1. BatchOK(d) /\ consumer'[d] = consumer[d] /\ last \in Nat
      BY <1>3, <2>2 DEF GroupTypes
    <3>2. QED
      BY <3>1 DEF BatchOK
  <2>3. QED
    BY <2>1, <2>2
<1>6. QED
  BY <1>2, <1>3, <1>5

LEMMA EntriesFinite ==
    ASSUME TypeInv
    PROVE  /\ stale \subseteq 1..last /\ IsFiniteSet(stale)
           /\ IsFiniteSet(last + 1 .. Len(stream))
           /\ BatchSize \in Nat \ {0}
<1>1. last \in Nat /\ Len(stream) \in Nat /\ DOMAIN pending \subseteq 1..last
  BY DEF TypeInv, GroupTypes, OutboxTypes
<1>2. stale \subseteq 1..last
  BY <1>1 DEF stale
<1>3. IsFiniteSet(1..last) /\ IsFiniteSet(last + 1 .. Len(stream))
  BY <1>1, FS_Interval
<1>4. QED
  BY <1>2, <1>3, FS_Subset, DeliveryAssumption

(* What XAUTOCLAIM hands over. *)
LEMMA ReclaimTypes ==
    ASSUME TypeInv, NEW c \in Consumers, Reclaim(c)
    PROVE  /\ TypeInv'
           /\ UNCHANGED <<outbox_vars, stream, last, ledger, dead, handled, faults>>
           /\ DOMAIN pending' = DOMAIN pending
           /\ consumer'[c].at \in {"check", "read"}
           /\ ToSet(consumer'[c].batch) \subseteq stale
           /\ \A m \in DOMAIN pending : IF m \in ToSet(consumer'[c].batch)
                  THEN pending'[m] = [owner |-> c, count |-> pending[m].count + 1, idle |-> FALSE]
                  ELSE pending'[m] = pending[m]
           /\ \A d \in Consumers : d # c => consumer'[d] = consumer[d]
<1>1. OutboxTypes /\ GroupTypes
  BY DEF TypeInv
<1>2. PICK claimed \in First(BatchSize, stale) :
        /\ pending' = [m \in DOMAIN pending |->
                        IF m \in ToSet(claimed)
                          THEN [owner |-> c, count |-> pending[m].count + 1, idle |-> FALSE]
                          ELSE pending[m]]
        /\ Deliver(c, claimed, "read")
  BY DEF Reclaim, reclaim_from
<1>3. UNCHANGED <<outbox_vars, stream, last, ledger, dead, handled, faults>>
  BY DEF Reclaim
<1>4. /\ claimed \in Seq(stale) /\ ToSet(claimed) \subseteq stale
      /\ \A i, j \in DOMAIN claimed : i < j => claimed[i] < claimed[j]
  BY EntriesFinite, FirstProperties
<1>5. stale \subseteq 1..last /\ last \in Nat
  BY <1>1, EntriesFinite DEF GroupTypes
<1>6. claimed \in Seq(Nat) /\ \A i \in DOMAIN claimed : claimed[i] \in 1..last
  <2>1. claimed \in [1..Len(claimed) -> stale] /\ Len(claimed) \in Nat
    BY <1>4, LenProperties
  <2>2. \A i \in DOMAIN claimed : claimed[i] \in stale
    BY <2>1
  <2>3. \A m \in stale : m \in 1..last /\ m \in Nat
    BY <1>5
  <2>4. claimed \in [1..Len(claimed) -> Nat]
    BY <2>1, <2>2, <2>3
  <2>5. QED
    BY <2>1, <2>2, <2>3, <2>4
<1>7. /\ consumer' \in [Consumers -> ConsumerRows]
      /\ \A d \in Consumers : BatchOK(d)'
      /\ consumer'[c].at \in {"check", "read"}
      /\ consumer'[c].batch = claimed
      /\ \A d \in Consumers : d # c => consumer'[d] = consumer[d]
  BY <1>1, <1>2, <1>3, <1>4, <1>5, <1>6, DeliverRow
<1>8. DOMAIN pending' = DOMAIN pending /\ \A m \in DOMAIN pending' : pending'[m] \in Entries
  BY <1>1, <1>2 DEF GroupTypes, Entries
<1>9. GroupTypes'
  BY <1>1, <1>3, <1>7, <1>8 DEF GroupTypes
<1>10. OutboxTypes'
  BY <1>1, <1>3, OutboxKept DEF OutboxTypes
<1>11. QED
  BY <1>2, <1>3, <1>4, <1>7, <1>8, <1>9, <1>10 DEF TypeInv

(* What XREADGROUP hands over: the entries that follow the last one. *)
LEMMA ReadNewTypes ==
    ASSUME TypeInv, NEW c \in Consumers, ReadNew(c)
    PROVE  /\ TypeInv'
           /\ UNCHANGED <<outbox_vars, stream, ledger, dead, handled, faults>>
           /\ last <= last' /\ ToSet(consumer'[c].batch) = last + 1 .. last'
           /\ DOMAIN pending' = DOMAIN pending \cup (last + 1 .. last')
           /\ consumer'[c].at \in {"check", "reclaim"}
           /\ \A m \in DOMAIN pending' : IF m \in ToSet(consumer'[c].batch)
                  THEN pending'[m] = [owner |-> c, count |-> 1, idle |-> FALSE]
                  ELSE pending'[m] = pending[m]
           /\ \A d \in Consumers : d # c => consumer'[d] = consumer[d]
<1>1. OutboxTypes /\ GroupTypes
  BY DEF TypeInv
<1> DEFINE rest == last + 1 .. Len(stream)
<1>2. PICK new \in First(BatchSize, rest) :
        /\ last' = last + Len(new)
        /\ pending' = [m \in DOMAIN pending \cup ToSet(new) |->
                        IF m \in ToSet(new) THEN [owner |-> c, count |-> 1, idle |-> FALSE]
                        ELSE pending[m]]
        /\ Deliver(c, new, "reclaim")
  BY DEF ReadNew
<1>3. UNCHANGED <<outbox_vars, stream, ledger, dead, handled, faults>>
  BY DEF ReadNew
<1>4. /\ last \in Nat /\ Len(stream) \in Nat /\ last <= Len(stream)
      /\ Cardinality(rest) = Len(stream) - last
      /\ IsFiniteSet(rest) /\ BatchSize \in Nat \ {0}
  <2>1. last \in Nat /\ Len(stream) \in Nat /\ last <= Len(stream)
    BY <1>1 DEF GroupTypes, OutboxTypes
  <2>2. last + 1 \in Int /\ Len(stream) \in Int
    BY <2>1
  <2>3. Cardinality(rest) = IF last + 1 > Len(stream) THEN 0 ELSE Len(stream) - (last + 1) + 1
    BY <2>2, FS_Interval
  <2>4. Cardinality(rest) = Len(stream) - last
    BY <2>1, <2>3
  <2>5. QED
    BY <2>1, <2>4, EntriesFinite
<1>5. /\ new \in Seq(rest) /\ ToSet(new) \subseteq rest
      /\ Len(new) <= Cardinality(rest)
      /\ \A i, j \in DOMAIN new : i < j => new[i] < new[j]
      /\ \A x \in rest \ ToSet(new), i \in DOMAIN new : new[i] < x
  <2> HIDE DEF rest
  <2>1. QED
    BY <1>4, FirstProperties
<1>6. new \in Seq(Nat) /\ Len(new) \in Nat /\ DOMAIN new = 1..Len(new)
  BY <1>4, <1>5
<1>7. ToSet(new) = last + 1 .. last + Len(new)
  BY <1>4, <1>5, <1>6, LowerPart
<1>8. last' \in Nat /\ last <= last' /\ last' <= Len(stream) /\ last' = last + Len(new)
  BY <1>2, <1>4, <1>5, <1>6
<1>9. \A i \in DOMAIN new : new[i] \in 1..last'
  <2>1. \A i \in DOMAIN new : new[i] \in last + 1 .. last'
    BY <1>7, <1>8 DEF ToSet
  <2>2. QED
    BY <1>4, <1>8, <2>1
<1>10. /\ consumer' \in [Consumers -> ConsumerRows]
       /\ \A d \in Consumers : BatchOK(d)'
       /\ consumer'[c].at \in {"check", "reclaim"}
       /\ consumer'[c].batch = new
       /\ \A d \in Consumers : d # c => consumer'[d] = consumer[d]
  BY <1>1, <1>2, <1>5, <1>6, <1>8, <1>9, DeliverRow
<1>11. /\ DOMAIN pending' = DOMAIN pending \cup (last + 1 .. last')
       /\ \A m \in DOMAIN pending' : pending'[m] \in Entries
  BY <1>1, <1>2, <1>7, <1>8 DEF GroupTypes, Entries
<1>12. DOMAIN pending' \subseteq 1..last'
  BY <1>1, <1>4, <1>8, <1>11 DEF GroupTypes
<1>13. GroupTypes'
  BY <1>1, <1>3, <1>8, <1>10, <1>11, <1>12 DEF GroupTypes
<1>14. OutboxTypes'
  BY <1>1, <1>3, OutboxKept DEF OutboxTypes
<1>15. QED
  BY <1>2, <1>3, <1>7, <1>8, <1>10, <1>11, <1>13, <1>14 DEF TypeInv

LEMMA CheckTypes ==
    ASSUME TypeInv, NEW c \in Consumers, Check(c)
    PROVE  /\ TypeInv'
           /\ UNCHANGED <<outbox_vars, stream, last, pending, ledger, dead, handled, faults>>
           /\ consumer'[c].at \in {"dead_letter", "ack", "handle"}
           /\ consumer'[c].at = "ack" => Event(c) \in ledger
           /\ \A d \in Consumers : consumer'[d].batch = consumer[d].batch
           /\ \A d \in Consumers : d # c => consumer'[d] = consumer[d]
<1>1. OutboxTypes /\ GroupTypes
  BY DEF TypeInv
<1>2. UNCHANGED <<outbox_vars, stream, last, pending, ledger, dead, handled, faults>>
  BY DEF Check
<1>3. PICK p \in {"dead_letter", "ack", "handle"} :
          Goto(c, p) /\ (p = "ack" => is_duplicate(Event(c)))
  BY DEF Check
<1>4. p \in Working /\ consumer[c].at \in Working
  BY DEF Working, Check
<1>5. /\ consumer' \in [Consumers -> ConsumerRows]
      /\ \A d \in Consumers : BatchOK(d)'
      /\ consumer'[c].at = p
      /\ \A d \in Consumers : consumer'[d].batch = consumer[d].batch
      /\ \A d \in Consumers : d # c => consumer'[d] = consumer[d]
  BY <1>1, <1>2, <1>3, <1>4, GotoRow
<1>6. GroupTypes'
  BY <1>1, <1>2, <1>5 DEF GroupTypes
<1>7. OutboxTypes'
  BY <1>1, <1>2, OutboxKept DEF OutboxTypes
<1>8. QED
  BY <1>2, <1>3, <1>5, <1>6, <1>7 DEF TypeInv, is_duplicate

LEMMA HandleTypes ==
    ASSUME TypeInv, NEW c \in Consumers, Handle(c)
    PROVE  /\ TypeInv'
           /\ UNCHANGED <<outbox_vars, stream, last, pending, ledger, dead, faults>>
           /\ consumer'[c].at = "mark"
           /\ Event(c) \in Events
           /\ handled' = [handled EXCEPT ![Event(c)] = handled[Event(c)] + 1]
           /\ \A d \in Consumers : consumer'[d].batch = consumer[d].batch
           /\ \A d \in Consumers : d # c => consumer'[d] = consumer[d]
<1>1. OutboxTypes /\ GroupTypes
  BY DEF TypeInv
<1>2. UNCHANGED <<outbox_vars, stream, last, pending, ledger, dead, faults>>
  BY DEF Handle
<1>3. "mark" \in Working /\ consumer[c].at \in Working
  BY DEF Working, Handle
<1>4. /\ consumer' \in [Consumers -> ConsumerRows]
      /\ \A d \in Consumers : BatchOK(d)'
      /\ consumer'[c].at = "mark"
      /\ \A d \in Consumers : consumer'[d].batch = consumer[d].batch
      /\ \A d \in Consumers : d # c => consumer'[d] = consumer[d]
  BY <1>1, <1>2, <1>3, GotoRow DEF Handle
<1>5. Event(c) \in Events /\ handled' = [handled EXCEPT ![Event(c)] = handled[Event(c)] + 1]
  BY <1>3, Current DEF Handle
<1>6. handled' \in [Events -> Nat]
  BY <1>1, <1>5 DEF GroupTypes
<1>7. GroupTypes'
  BY <1>1, <1>2, <1>4, <1>6 DEF GroupTypes
<1>8. OutboxTypes'
  BY <1>1, <1>2, OutboxKept DEF OutboxTypes
<1>9. QED
  BY <1>2, <1>4, <1>5, <1>7, <1>8 DEF TypeInv

LEMMA HandlerFailsTypes ==
    ASSUME TypeInv, NEW c \in Consumers, HandlerFails(c)
    PROVE  /\ TypeInv'
           /\ UNCHANGED <<outbox_vars, stream, last, pending, ledger, dead, handled>>
           /\ \/ /\ consumer'[c].at \in {"check", "reclaim"}
                 /\ consumer'[c].batch = Tail(consumer[c].batch)
              \/ /\ consumer'[c].at = "dead_letter"
                 /\ consumer'[c].batch = consumer[c].batch
           /\ faults' = faults + 1
           /\ \A d \in Consumers : d # c => consumer'[d] = consumer[d]
<1>1. OutboxTypes /\ GroupTypes
  BY DEF TypeInv
<1>2. /\ UNCHANGED <<outbox_vars, stream, last, pending, ledger, dead, handled>>
      /\ faults' = faults + 1 /\ faults' \in Nat
  BY <1>1 DEF HandlerFails, Fault, OutboxTypes
<1>3. "dead_letter" \in Working /\ consumer[c].at \in Working
  BY DEF Working, HandlerFails
<1>4. /\ consumer' \in [Consumers -> ConsumerRows]
      /\ \A d \in Consumers : BatchOK(d)'
      /\ \/ /\ consumer'[c].at \in {"check", "reclaim"}
            /\ consumer'[c].batch = Tail(consumer[c].batch)
         \/ /\ consumer'[c].at = "dead_letter"
            /\ consumer'[c].batch = consumer[c].batch
      /\ \A d \in Consumers : d # c => consumer'[d] = consumer[d]
  <2>1. CASE Finish(c)
    BY <1>1, <1>2, <1>3, <2>1, FinishRow
  <2>2. CASE Goto(c, "dead_letter")
    BY <1>1, <1>2, <1>3, <2>2, GotoRow
  <2>3. QED
    BY <2>1, <2>2 DEF HandlerFails
<1>5. GroupTypes'
  BY <1>1, <1>2, <1>4 DEF GroupTypes
<1>6. OutboxTypes'
  BY <1>1, <1>2, OutboxKept
<1>7. QED
  BY <1>2, <1>4, <1>5, <1>6 DEF TypeInv

LEMMA MarkProcessedTypes ==
    ASSUME TypeInv, NEW c \in Consumers, MarkProcessed(c)
    PROVE  /\ TypeInv'
           /\ UNCHANGED <<outbox_vars, stream, last, pending, dead, handled, faults>>
           /\ ledger' = ledger \cup {Event(c)}
           /\ consumer'[c].at = "ack"
           /\ \A d \in Consumers : consumer'[d].batch = consumer[d].batch
           /\ \A d \in Consumers : d # c => consumer'[d] = consumer[d]
<1>1. OutboxTypes /\ GroupTypes
  BY DEF TypeInv
<1>2. /\ UNCHANGED <<outbox_vars, stream, last, pending, dead, handled, faults>>
      /\ ledger' = ledger \cup {Event(c)}
  BY DEF MarkProcessed
<1>3. "ack" \in Working /\ consumer[c].at \in Working
  BY DEF Working, MarkProcessed
<1>4. /\ consumer' \in [Consumers -> ConsumerRows]
      /\ \A d \in Consumers : BatchOK(d)'
      /\ consumer'[c].at = "ack"
      /\ \A d \in Consumers : consumer'[d].batch = consumer[d].batch
      /\ \A d \in Consumers : d # c => consumer'[d] = consumer[d]
  BY <1>1, <1>2, <1>3, GotoRow DEF MarkProcessed
<1>5. Event(c) \in Events
  BY <1>3, Current
<1>6. GroupTypes'
  BY <1>1, <1>2, <1>4, <1>5 DEF GroupTypes
<1>7. OutboxTypes'
  BY <1>1, <1>2, OutboxKept DEF OutboxTypes
<1>8. QED
  BY <1>2, <1>4, <1>6, <1>7 DEF TypeInv

LEMMA DeadLetterTypes ==
    ASSUME TypeInv, NEW c \in Consumers, DeadLetter(c)
    PROVE  /\ TypeInv'
           /\ UNCHANGED <<outbox_vars, stream, last, pending, ledger, handled, faults>>
           /\ dead' = dead \cup {Event(c)}
           /\ consumer'[c].at = "ack"
           /\ \A d \in Consumers : consumer'[d].batch = consumer[d].batch
           /\ \A d \in Consumers : d # c => consumer'[d] = consumer[d]
<1>1. OutboxTypes /\ GroupTypes
  BY DEF TypeInv
<1>2. /\ UNCHANGED <<outbox_vars, stream, last, pending, ledger, handled, faults>>
      /\ dead' = dead \cup {Event(c)}
  BY DEF DeadLetter
<1>3. "ack" \in Working /\ consumer[c].at \in Working
  BY DEF Working, DeadLetter
<1>4. /\ consumer' \in [Consumers -> ConsumerRows]
      /\ \A d \in Consumers : BatchOK(d)'
      /\ consumer'[c].at = "ack"
      /\ \A d \in Consumers : consumer'[d].batch = consumer[d].batch
      /\ \A d \in Consumers : d # c => consumer'[d] = consumer[d]
  BY <1>1, <1>2, <1>3, GotoRow DEF DeadLetter
<1>5. Event(c) \in Events
  BY <1>3, Current
<1>6. GroupTypes'
  BY <1>1, <1>2, <1>4, <1>5 DEF GroupTypes
<1>7. OutboxTypes'
  BY <1>1, <1>2, OutboxKept DEF OutboxTypes
<1>8. QED
  BY <1>2, <1>4, <1>6, <1>7 DEF TypeInv

LEMMA AckTypes ==
    ASSUME TypeInv, NEW c \in Consumers, Ack(c)
    PROVE  /\ TypeInv'
           /\ UNCHANGED <<outbox_vars, stream, last, ledger, dead, handled, faults>>
           /\ pending' = [m \in DOMAIN pending \ {Message(c)} |-> pending[m]]
           /\ consumer'[c].at \in {"check", "reclaim"}
           /\ consumer'[c].batch = Tail(consumer[c].batch)
           /\ \A d \in Consumers : d # c => consumer'[d] = consumer[d]
<1>1. OutboxTypes /\ GroupTypes
  BY DEF TypeInv
<1>2. /\ UNCHANGED <<outbox_vars, stream, last, ledger, dead, handled, faults>>
      /\ pending' = [m \in DOMAIN pending \ {Message(c)} |-> pending[m]]
  BY DEF Ack
<1>3. consumer[c].at \in Working
  BY DEF Working, Ack
<1>4. /\ consumer' \in [Consumers -> ConsumerRows]
      /\ \A d \in Consumers : BatchOK(d)'
      /\ consumer'[c].at \in {"check", "reclaim"}
      /\ consumer'[c].batch = Tail(consumer[c].batch)
      /\ \A d \in Consumers : d # c => consumer'[d] = consumer[d]
  BY <1>1, <1>2, <1>3, FinishRow DEF Ack
<1>5. GroupTypes'
  BY <1>1, <1>2, <1>4 DEF GroupTypes
<1>6. OutboxTypes'
  BY <1>1, <1>2, OutboxKept DEF OutboxTypes
<1>7. QED
  BY <1>2, <1>4, <1>5, <1>6 DEF TypeInv

LEMMA GrowStaleTypes ==
    ASSUME TypeInv, NEW m \in DOMAIN pending, GrowStale(m)
    PROVE  /\ TypeInv'
           /\ UNCHANGED <<outbox_vars, stream, last, consumer, ledger, dead, handled>>
           /\ DOMAIN pending' = DOMAIN pending
           /\ \A n \in DOMAIN pending : n # m => pending'[n] = pending[n]
           /\ IF Held(m) THEN faults' = faults + 1 ELSE faults' = faults
<1>1. OutboxTypes /\ GroupTypes
  BY DEF TypeInv
<1>2. /\ UNCHANGED <<outbox_vars, stream, last, consumer, ledger, dead, handled>>
      /\ IF Held(m) THEN faults' = faults + 1 ELSE faults' = faults
      /\ faults' \in Nat
      /\ pending' = [pending EXCEPT ![m].idle = TRUE]
  BY <1>1 DEF GrowStale, Fault, OutboxTypes
<1>3. /\ DOMAIN pending' = DOMAIN pending
      /\ \A n \in DOMAIN pending : n # m => pending'[n] = pending[n]
      /\ pending[m] \in Entries
  BY <1>1, <1>2 DEF GroupTypes
<1>4. pending'[m] \in Entries
  BY <1>2, <1>3 DEF Entries
<1>5. \A n \in DOMAIN pending' : pending'[n] \in Entries
  BY <1>1, <1>3, <1>4 DEF GroupTypes
<1>6. GroupTypes'
  BY <1>1, <1>2, <1>3, <1>5 DEF GroupTypes, BatchOK
<1>7. OutboxTypes'
  BY <1>1, <1>2, OutboxKept
<1>8. QED
  BY <1>2, <1>3, <1>6, <1>7 DEF TypeInv

LEMMA ConsumerCrashTypes ==
    ASSUME TypeInv, NEW c \in Consumers, ConsumerCrash(c)
    PROVE  /\ TypeInv'
           /\ UNCHANGED <<outbox_vars, stream, last, ledger, dead, handled>>
           /\ DOMAIN pending' = DOMAIN pending
           /\ \A m \in DOMAIN pending : pending'[m].idle = pending[m].idle
           /\ consumer'[c] = NewConsumer
           /\ faults' = faults + 1
           /\ \A d \in Consumers : d # c => consumer'[d] = consumer[d]
<1>1. OutboxTypes /\ GroupTypes
  BY DEF TypeInv
<1>2. /\ UNCHANGED <<outbox_vars, stream, last, ledger, dead, handled>>
      /\ faults' = faults + 1 /\ faults' \in Nat
      /\ consumer' = [consumer EXCEPT ![c] = NewConsumer]
      /\ pending' = [m \in DOMAIN pending |->
                       [pending[m] EXCEPT !.owner = IF @ = c THEN NoOne ELSE @]]
  BY <1>1 DEF ConsumerCrash, Fault, OutboxTypes
<1>3. DOMAIN pending' = DOMAIN pending
  BY <1>2
<1>4. ASSUME NEW m \in DOMAIN pending
      PROVE  pending'[m] \in Entries /\ pending'[m].idle = pending[m].idle
  <2>1. pending[m] \in Entries
    BY <1>1 DEF GroupTypes
  <2>2. pending'[m] = [pending[m] EXCEPT !.owner = IF @ = c THEN NoOne ELSE @]
    BY <1>2
  <2>3. QED
    BY <2>1, <2>2 DEF Entries
<1>5. NewConsumer \in ConsumerRows /\ NewConsumer.batch = <<>> /\ NewConsumer.at \notin Working
  BY EmptySeq DEF ConsumerRows, NewConsumer, Working
<1>6. /\ consumer' \in [Consumers -> ConsumerRows]
      /\ consumer'[c] = NewConsumer
      /\ \A d \in Consumers : d # c => consumer'[d] = consumer[d]
  BY <1>1, <1>2, <1>5 DEF GroupTypes
<1>7. ASSUME NEW d \in Consumers PROVE BatchOK(d)'
  <2>1. CASE d = c
    <3>1. DOMAIN <<>> = {}
      OBVIOUS
    <3>2. QED
      BY <1>5, <1>6, <2>1, <3>1 DEF BatchOK
  <2>2. CASE d # c
    BY <1>1, <1>2, <1>6, <2>2 DEF BatchOK, GroupTypes
  <2>3. QED
    BY <2>1, <2>2
<1>8. GroupTypes'
  BY <1>1, <1>2, <1>3, <1>4, <1>6, <1>7 DEF GroupTypes
<1>9. OutboxTypes'
  BY <1>1, <1>2, OutboxKept
<1>10. QED
  BY <1>2, <1>3, <1>4, <1>6, <1>8, <1>9 DEF TypeInv

LEMMA TypeStep == TypeInv /\ [Next]_vars => TypeInv'
<1> SUFFICES ASSUME TypeInv, [Next]_vars PROVE TypeInv'
  OBVIOUS
<1>1. CASE UNCHANGED vars
  BY <1>1 DEF vars, outbox_vars, group_vars, TypeInv, OutboxTypes, GroupTypes, BatchOK
<1>2. ASSUME NEW e \in Events, Commit(e) PROVE TypeInv'
  BY <1>2, CommitTypes
<1>3. ASSUME NEW r \in Relays, RelayStep(r) \/ PublishFails(r) \/ RelayCrash(r) PROVE TypeInv'
  BY <1>3, ReadBatchTypes, PublishTypes, MarkPublishedTypes, PublishFailsTypes,
     RelayCrashTypes DEF RelayStep
<1>4. ASSUME NEW c \in Consumers, ConsumerStep(c) \/ HandlerFails(c) \/ ConsumerCrash(c)
      PROVE  TypeInv'
  BY <1>4, ReclaimTypes, ReadNewTypes, CheckTypes, HandleTypes, MarkProcessedTypes,
     DeadLetterTypes, AckTypes, HandlerFailsTypes, ConsumerCrashTypes DEF ConsumerStep
<1>5. ASSUME NEW m \in DOMAIN pending, GrowStale(m) PROVE TypeInv'
  BY <1>5, GrowStaleTypes
<1>6. QED
  BY <1>1, <1>2, <1>3, <1>4, <1>5 DEF Next

-----------------------------------------------------------------------------
(* Nothing is lost *)

DeliveryInv == TypeInv /\ RelayCovers /\ ConsumerSettles

(* A step of the outbox side leaves the events that are on their way there. *)
LEMMA OutboxStepKeeps ==
    ASSUME TypeInv, ConsumerSettles, Streams, UNCHANGED group_vars
    PROVE  /\ \A e \in Events : Covered(e) => Covered(e)'
           /\ ConsumerSettles'
<1>1. UNCHANGED <<last, pending, consumer, ledger, dead, handled>>
  BY DEF group_vars
<1>2. /\ stream \in Seq(Events) /\ last \in Nat /\ last <= Len(stream)
      /\ Len(stream) \in Nat /\ DOMAIN stream = 1..Len(stream)
      /\ DOMAIN pending \subseteq 1..last
  BY DEF TypeInv, OutboxTypes, GroupTypes
<1>3. Len(stream') \in Nat /\ Len(stream') >= Len(stream)
  BY <1>2 DEF Streams
<1>4. ASSUME NEW e \in Events, Undelivered(e) PROVE Undelivered(e)'
  <2>1. PICK m \in last + 1 .. Len(stream) : stream[m] = e
    BY <1>4 DEF Undelivered
  <2>2. m \in last + 1 .. Len(stream') /\ m \in DOMAIN stream
    BY <1>2, <1>3
  <2>3. stream'[m] = e
    BY <2>1, <2>2 DEF Streams
  <2>4. QED
    BY <1>1, <2>2, <2>3 DEF Undelivered
<1>5. ASSUME NEW e \in Events, Pending(e) PROVE Pending(e)'
  <2>1. PICK m \in DOMAIN pending : stream[m] = e
    BY <1>5 DEF Pending
  <2>2. m \in DOMAIN stream
    BY <1>2
  <2>3. QED
    BY <1>1, <2>1, <2>2 DEF Pending, Streams
<1>6. ASSUME NEW e \in Events, Settled(e) PROVE Settled(e)'
  BY <1>1, <1>6 DEF Settled
<1>7. \A e \in Events : Covered(e) => Covered(e)'
  BY <1>4, <1>5, <1>6 DEF Covered
<1>8. ASSUME NEW c \in Consumers, consumer[c].at \in Working
      PROVE  Event(c)' = Event(c) /\ Event(c) \in Events
  BY <1>1, <1>8, Current DEF Streams, Event, Message
<1>9. ASSUME NEW c \in Consumers, consumer'[c].at = "mark" PROVE handled'[Event(c)'] > 0
  BY <1>1, <1>8, <1>9 DEF ConsumerSettles, Working
<1>10. ASSUME NEW c \in Consumers, consumer'[c].at = "ack" PROVE Settled(Event(c))'
  <2>1. consumer[c].at \in Working /\ Settled(Event(c))
    BY <1>1, <1>10 DEF ConsumerSettles, Working
  <2>2. QED
    BY <1>1, <1>8, <2>1 DEF Settled
<1>11. QED
  BY <1>1, <1>7, <1>9, <1>10 DEF ConsumerSettles

(* A step of the group side: what is no longer undelivered is pending, and *)
(* what is no longer pending is settled.                                   *)
LEMMA GroupStepKeeps ==
    ASSUME TypeInv, RelayCovers, UNCHANGED <<outbox_vars, stream>>,
           ledger \subseteq ledger', dead \subseteq dead',
           \A e \in Events : handled[e] > 0 => handled'[e] > 0,
           \A m \in last + 1 .. Len(stream) :
                m \in last' + 1 .. Len(stream) \/ m \in DOMAIN pending',
           \A m \in DOMAIN pending : m \in DOMAIN pending' \/ Settled(stream[m])
    PROVE  RelayCovers' /\ \A e \in Events : Settled(e) => Settled(e)'
<1>1. UNCHANGED <<commits, published, relay, stream>>
  BY DEF outbox_vars
<1>2. \A e \in Events : Settled(e) => Settled(e)'
  BY DEF Settled
<1>3. ASSUME NEW e \in Events, Covered(e) PROVE Covered(e)'
  <2>1. CASE Undelivered(e)
    BY <1>1, <2>1 DEF Undelivered, Covered, Pending
  <2>2. CASE Pending(e)
    <3>1. PICK m \in DOMAIN pending : stream[m] = e
      BY <2>2 DEF Pending
    <3>2. QED
      BY <1>1, <1>2, <3>1 DEF Pending, Covered
  <2>3. QED
    BY <1>2, <1>3, <2>1, <2>2 DEF Covered
<1>4. \A e \in published : e \in Events
  BY DEF TypeInv, OutboxTypes
<1>5. ASSUME NEW r \in Relays, relay'[r].at = "mark" PROVE Covered(Head(relay[r].batch))'
  <2>1. PICK e : e = Head(relay[r].batch)
    OBVIOUS
  <2>2. relay[r].batch \in Seq(Events) /\ relay[r].batch # <<>>
    BY <1>1, <1>5 DEF TypeInv, OutboxTypes, RelayRows
  <2>3. e \in Events /\ Covered(e)
    BY <1>1, <1>5, <2>1, <2>2, TailProperties DEF RelayCovers
  <2>4. Covered(e)'
    BY <1>3, <2>3
  <2>5. e = Head(relay'[r].batch)
    BY <1>1, <2>1
  <2>6. QED
    BY <2>4, <2>5
<1>6. QED
  BY <1>1, <1>2, <1>3, <1>4, <1>5 DEF RelayCovers

(* A step that changes one consumer, and no other keeps acknowledging      *)
(* what it was acknowledging.                                              *)
LEMMA OthersSettle ==
    ASSUME TypeInv, ConsumerSettles, NEW c \in Consumers, UNCHANGED stream,
           \A d \in Consumers : d # c => consumer'[d] = consumer[d],
           \A e \in Events : Settled(e) => Settled(e)',
           \A e \in Events : handled[e] > 0 => handled'[e] > 0,
           \A e \in ledger' : handled'[e] > 0,
           consumer'[c].at = "mark" => handled'[Event(c)'] > 0,
           consumer'[c].at = "ack" => Settled(Event(c))'
    PROVE  ConsumerSettles'
<1>1. ASSUME NEW d \in Consumers, d # c, consumer[d].at \in Working
      PROVE  Event(d)' = Event(d) /\ Event(d) \in Events
  BY <1>1, Current DEF Event, Message
<1>2. ASSUME NEW d \in Consumers, d # c, consumer'[d].at = "mark"
      PROVE  handled'[Event(d)'] > 0
  BY <1>1, <1>2 DEF ConsumerSettles, Working
<1>3. ASSUME NEW d \in Consumers, d # c, consumer'[d].at = "ack"
      PROVE  Settled(Event(d))'
  <2>1. consumer[d].at \in Working /\ Settled(Event(d))
    BY <1>3 DEF ConsumerSettles, Working
  <2>2. PICK e \in Events : e = Event(d) /\ e = Event(d)'
    BY <1>1, <1>3, <2>1
  <2>3. Settled(e)'
    BY <2>1, <2>2
  <2>4. QED
    BY <2>2, <2>3 DEF Settled
<1>4. QED
  BY <1>2, <1>3 DEF ConsumerSettles

LEMMA OutboxDelivers ==
    ASSUME DeliveryInv, NEW r \in Relays,
           (RelayStep(r) /\ ~ReadBatch(r)) \/ PublishFails(r)
    PROVE  DeliveryInv'
<1>1. TypeInv /\ RelayCovers /\ ConsumerSettles
  BY DEF DeliveryInv
<1>2. TypeInv' /\ Streams /\ UNCHANGED group_vars
  BY <1>1, PublishTypes, MarkPublishedTypes, PublishFailsTypes
     DEF RelayStep, Publish, MarkPublished, PublishFails
<1>3. ConsumerSettles' /\ \A e \in Events : Covered(e) => Covered(e)'
  BY <1>1, <1>2, OutboxStepKeeps
<1>4. PICK h : h = Head(relay[r].batch)
  OBVIOUS
<1>5. /\ relay[r].batch \in Seq(Events) /\ relay[r].batch # <<>>
      /\ \A q \in Relays : relay[q].at # "idle" => Head(relay[q].batch) \in Events
  BY <1>1, TailProperties
     DEF TypeInv, OutboxTypes, RelayRows, RelayStep, Publish, Publishing, MarkPublished, PublishFails
<1>6. h \in Events
  BY <1>4, <1>5, TailProperties
<1>7. published \subseteq Events
  BY <1>1 DEF TypeInv, OutboxTypes
<1>8. ASSUME NEW q \in Relays, q # r, relay'[q] = relay[q], relay'[q].at = "mark"
      PROVE  Covered(Head(relay[q].batch))'
  <2>1. PICK e : e = Head(relay[q].batch) /\ e = Head(relay'[q].batch)
    BY <1>8
  <2>2. e \in Events /\ Covered(e)
    BY <1>1, <1>5, <1>8, <2>1 DEF RelayCovers
  <2>3. Covered(e)'
    BY <1>3, <2>2
  <2>4. QED
    BY <2>1, <2>3
<1>9. CASE Publish(r)
  <2>1. /\ Len(stream') = Len(stream) + 1 /\ stream'[Len(stream')] = h
        /\ last' = last /\ last \in Nat /\ last <= Len(stream) /\ Len(stream) \in Nat
    BY <1>1, <1>4, <1>9, Xadd
       DEF Publish, Publishing, TypeInv, OutboxTypes, GroupTypes, group_vars
  <2>2. Len(stream') \in last' + 1 .. Len(stream')
    BY <2>1
  <2>3. Covered(h)'
    BY <2>1, <2>2 DEF Covered, Undelivered
  <2>4. /\ h = Head(relay'[r].batch) /\ UNCHANGED published
        /\ \A q \in Relays : q # r => relay'[q] = relay[q]
    BY <1>1, <1>4, <1>9, PublishTypes DEF Publish
  <2>5. Covered(Head(relay[r].batch))'
    BY <2>3, <2>4
  <2>6. RelayCovers'
    BY <1>1, <1>3, <1>7, <1>8, <2>4, <2>5 DEF RelayCovers
  <2>7. QED
    BY <1>2, <1>3, <2>6 DEF DeliveryInv
<1>10. CASE MarkPublished(r)
  <2>1. /\ relay'[r].at # "mark" /\ published' = published \cup {h}
        /\ \A q \in Relays : q # r => relay'[q] = relay[q]
    BY <1>1, <1>4, <1>10, MarkPublishedTypes DEF MarkPublished
  <2>2. Covered(h)
    BY <1>1, <1>4, <1>10 DEF RelayCovers, MarkPublished
  <2>3. RelayCovers'
    BY <1>1, <1>3, <1>6, <1>7, <1>8, <2>1, <2>2 DEF RelayCovers
  <2>4. QED
    BY <1>2, <1>3, <2>3 DEF DeliveryInv
<1>11. CASE PublishFails(r)
  <2>1. /\ relay'[r].at # "mark" /\ UNCHANGED published
        /\ \A q \in Relays : q # r => relay'[q] = relay[q]
    BY <1>1, <1>11, PublishFailsTypes
  <2>2. RelayCovers'
    BY <1>1, <1>3, <1>7, <1>8, <2>1 DEF RelayCovers
  <2>3. QED
    BY <1>2, <1>3, <2>2 DEF DeliveryInv
<1>12. QED
  BY <1>9, <1>10, <1>11 DEF RelayStep

(* The relay's steps that leave the stream and the marks alone. *)
LEMMA QuietOutbox ==
    ASSUME DeliveryInv, TypeInv', Streams, UNCHANGED <<published, group_vars>>,
           \A r \in Relays : relay'[r].at = "mark" => relay'[r] = relay[r]
    PROVE  DeliveryInv'
<1>1. TypeInv /\ RelayCovers /\ ConsumerSettles
  BY DEF DeliveryInv
<1>2. ConsumerSettles' /\ \A e \in Events : Covered(e) => Covered(e)'
  BY <1>1, OutboxStepKeeps
<1>3. published \subseteq Events
  BY <1>1 DEF TypeInv, OutboxTypes
<1>4. ASSUME NEW q \in Relays, relay'[q].at = "mark" PROVE Covered(Head(relay[q].batch))'
  <2>1. PICK e : e = Head(relay[q].batch) /\ e = Head(relay'[q].batch)
    BY <1>4
  <2>2. relay[q].batch \in Seq(Events) /\ relay[q].batch # <<>>
    BY <1>1, <1>4 DEF TypeInv, OutboxTypes, RelayRows
  <2>3. e \in Events /\ Covered(e)
    BY <1>1, <1>4, <2>1, <2>2, TailProperties DEF RelayCovers
  <2>4. Covered(e)'
    BY <1>2, <2>3
  <2>5. QED
    BY <2>1, <2>4
<1>5. RelayCovers'
  BY <1>1, <1>2, <1>3, <1>4 DEF RelayCovers
<1>6. QED
  BY <1>2, <1>5 DEF DeliveryInv

LEMMA CommitDelivers ==
    ASSUME DeliveryInv, NEW e \in Events, Commit(e)
    PROVE  DeliveryInv'
<1>1. TypeInv' /\ Streams /\ UNCHANGED <<published, group_vars, relay>>
  BY CommitTypes DEF Commit, DeliveryInv
<1>2. QED
  BY <1>1, QuietOutbox

LEMMA ReadBatchDelivers ==
    ASSUME DeliveryInv, NEW r \in Relays, ReadBatch(r)
    PROVE  DeliveryInv'
<1>1. TypeInv' /\ Streams /\ UNCHANGED <<published, group_vars>>
  BY ReadBatchTypes DEF ReadBatch, DeliveryInv
<1>2. relay \in [Relays -> RelayRows]
  BY DEF DeliveryInv, TypeInv, OutboxTypes
<1>3. PICK row : relay' = [relay EXCEPT ![r] = row] /\ relay'[r].at = "publish"
  BY ReadBatchTypes DEF DeliveryInv
<1>4. \A q \in Relays : relay'[q].at = "mark" => relay'[q] = relay[q]
  BY <1>2, <1>3
<1>5. QED
  BY <1>1, <1>4, QuietOutbox

LEMMA RelayCrashDelivers ==
    ASSUME DeliveryInv, NEW r \in Relays, RelayCrash(r)
    PROVE  DeliveryInv'
<1>1. TypeInv' /\ Streams /\ UNCHANGED <<published, group_vars>>
  BY RelayCrashTypes DEF RelayCrash, DeliveryInv
<1>2. \A q \in Relays : relay'[q].at = "mark" => relay'[q] = relay[q]
  BY RelayCrashTypes DEF DeliveryInv, IdleRelay
<1>3. QED
  BY <1>1, <1>2, QuietOutbox

LEMMA ReclaimDelivers ==
    ASSUME DeliveryInv, NEW c \in Consumers, Reclaim(c)
    PROVE  DeliveryInv'
<1>1. TypeInv /\ RelayCovers /\ ConsumerSettles
  BY DEF DeliveryInv
<1>2. /\ TypeInv' /\ UNCHANGED <<outbox_vars, stream, last, ledger, dead, handled, faults>>
      /\ DOMAIN pending' = DOMAIN pending /\ consumer'[c].at \in {"check", "read"}
      /\ \A d \in Consumers : d # c => consumer'[d] = consumer[d]
  BY <1>1, ReclaimTypes
<1>3. RelayCovers' /\ \A e \in Events : Settled(e) => Settled(e)'
  BY <1>1, <1>2, GroupStepKeeps
<1>4. ConsumerSettles'
  <2>1. \A e \in ledger : handled[e] > 0
    BY <1>1 DEF ConsumerSettles
  <2>2. QED
    BY <1>1, <1>2, <1>3, <2>1, OthersSettle
<1>5. QED
  BY <1>2, <1>3, <1>4 DEF DeliveryInv

LEMMA ReadNewDelivers ==
    ASSUME DeliveryInv, NEW c \in Consumers, ReadNew(c)
    PROVE  DeliveryInv'
<1>1. TypeInv /\ RelayCovers /\ ConsumerSettles
  BY DEF DeliveryInv
<1>2. /\ TypeInv' /\ UNCHANGED <<outbox_vars, stream, ledger, dead, handled, faults>>
      /\ DOMAIN pending' = DOMAIN pending \cup (last + 1 .. last')
      /\ consumer'[c].at \in {"check", "reclaim"}
      /\ \A d \in Consumers : d # c => consumer'[d] = consumer[d]
  BY <1>1, ReadNewTypes
<1>3. last \in Nat /\ last' \in Nat /\ Len(stream) \in Nat
  BY <1>1, <1>2 DEF TypeInv, GroupTypes, OutboxTypes
<1>4. \A m \in last + 1 .. Len(stream) :
          m \in last' + 1 .. Len(stream) \/ m \in DOMAIN pending'
  BY <1>2, <1>3
<1>5. RelayCovers' /\ \A e \in Events : Settled(e) => Settled(e)'
  BY <1>1, <1>2, <1>4, GroupStepKeeps
<1>6. ConsumerSettles'
  <2>1. \A e \in ledger : handled[e] > 0
    BY <1>1 DEF ConsumerSettles
  <2>2. QED
    BY <1>1, <1>2, <1>5, <2>1, OthersSettle
<1>7. QED
  BY <1>2, <1>5, <1>6 DEF DeliveryInv

LEMMA CheckDelivers ==
    ASSUME DeliveryInv, NEW c \in Consumers, Check(c)
    PROVE  DeliveryInv'
<1>1. TypeInv /\ RelayCovers /\ ConsumerSettles
  BY DEF DeliveryInv
<1>2. /\ TypeInv'
      /\ UNCHANGED <<outbox_vars, stream, last, pending, ledger, dead, handled, faults>>
      /\ consumer'[c].at \in {"dead_letter", "ack", "handle"}
      /\ consumer'[c].at = "ack" => Event(c) \in ledger
      /\ consumer'[c].batch = consumer[c].batch
      /\ \A d \in Consumers : d # c => consumer'[d] = consumer[d]
  BY <1>1, CheckTypes
<1>3. RelayCovers' /\ \A e \in Events : Settled(e) => Settled(e)'
  BY <1>1, <1>2, GroupStepKeeps
<1>4. \A e \in ledger : handled[e] > 0
  BY <1>1 DEF ConsumerSettles
<1>5. Event(c)' = Event(c)
  BY <1>2 DEF Event, Message
<1>6. consumer'[c].at = "ack" => Settled(Event(c))'
  BY <1>2, <1>4, <1>5 DEF Settled
<1>7. ConsumerSettles'
  BY <1>1, <1>2, <1>3, <1>4, <1>6, OthersSettle
<1>8. QED
  BY <1>2, <1>3, <1>7 DEF DeliveryInv

LEMMA HandleDelivers ==
    ASSUME DeliveryInv, NEW c \in Consumers, Handle(c)
    PROVE  DeliveryInv'
<1>1. TypeInv /\ RelayCovers /\ ConsumerSettles
  BY DEF DeliveryInv
<1>2. /\ TypeInv'
      /\ UNCHANGED <<outbox_vars, stream, last, pending, ledger, dead, faults>>
      /\ consumer'[c].at = "mark" /\ Event(c) \in Events
      /\ handled' = [handled EXCEPT ![Event(c)] = handled[Event(c)] + 1]
      /\ consumer'[c].batch = consumer[c].batch
      /\ \A d \in Consumers : d # c => consumer'[d] = consumer[d]
  BY <1>1, HandleTypes
<1>3. handled \in [Events -> Nat] /\ ledger \subseteq Events
  BY <1>1 DEF TypeInv, GroupTypes
<1>4. handled'[Event(c)] > 0 /\ \A e \in Events : handled[e] > 0 => handled'[e] > 0
  BY <1>2, <1>3
<1>5. RelayCovers' /\ \A e \in Events : Settled(e) => Settled(e)'
  BY <1>1, <1>2, <1>4, GroupStepKeeps
<1>6. \A e \in ledger : handled'[e] > 0
  BY <1>1, <1>3, <1>4 DEF ConsumerSettles
<1>7. Event(c)' = Event(c)
  BY <1>2 DEF Event, Message
<1>8. ConsumerSettles'
  BY <1>1, <1>2, <1>4, <1>5, <1>6, <1>7, OthersSettle
<1>9. QED
  BY <1>2, <1>5, <1>8 DEF DeliveryInv

LEMMA HandlerFailsDelivers ==
    ASSUME DeliveryInv, NEW c \in Consumers, HandlerFails(c)
    PROVE  DeliveryInv'
<1>1. TypeInv /\ RelayCovers /\ ConsumerSettles
  BY DEF DeliveryInv
<1>2. /\ TypeInv'
      /\ UNCHANGED <<outbox_vars, stream, last, pending, ledger, dead, handled>>
      /\ consumer'[c].at \in {"check", "reclaim", "dead_letter"}
      /\ \A d \in Consumers : d # c => consumer'[d] = consumer[d]
  BY <1>1, HandlerFailsTypes
<1>3. RelayCovers' /\ \A e \in Events : Settled(e) => Settled(e)'
  BY <1>1, <1>2, GroupStepKeeps
<1>4. \A e \in ledger : handled[e] > 0
  BY <1>1 DEF ConsumerSettles
<1>5. ConsumerSettles'
  BY <1>1, <1>2, <1>3, <1>4, OthersSettle
<1>6. QED
  BY <1>2, <1>3, <1>5 DEF DeliveryInv

LEMMA MarkProcessedDelivers ==
    ASSUME DeliveryInv, NEW c \in Consumers, MarkProcessed(c)
    PROVE  DeliveryInv'
<1>1. TypeInv /\ RelayCovers /\ ConsumerSettles
  BY DEF DeliveryInv
<1>2. /\ TypeInv'
      /\ UNCHANGED <<outbox_vars, stream, last, pending, dead, handled, faults>>
      /\ ledger' = ledger \cup {Event(c)} /\ consumer'[c].at = "ack"
      /\ consumer'[c].batch = consumer[c].batch
      /\ \A d \in Consumers : d # c => consumer'[d] = consumer[d]
  BY <1>1, MarkProcessedTypes
<1>3. RelayCovers' /\ \A e \in Events : Settled(e) => Settled(e)'
  BY <1>1, <1>2, GroupStepKeeps
<1>4. handled[Event(c)] > 0 /\ \A e \in ledger' : handled[e] > 0
  BY <1>1, <1>2 DEF ConsumerSettles, MarkProcessed
<1>5. Event(c)' = Event(c)
  BY <1>2 DEF Event, Message
<1>6. Settled(Event(c))'
  BY <1>2, <1>4, <1>5 DEF Settled
<1>7. ConsumerSettles'
  BY <1>1, <1>2, <1>3, <1>4, <1>6, OthersSettle
<1>8. QED
  BY <1>2, <1>3, <1>7 DEF DeliveryInv

LEMMA DeadLetterDelivers ==
    ASSUME DeliveryInv, NEW c \in Consumers, DeadLetter(c)
    PROVE  DeliveryInv'
<1>1. TypeInv /\ RelayCovers /\ ConsumerSettles
  BY DEF DeliveryInv
<1>2. /\ TypeInv'
      /\ UNCHANGED <<outbox_vars, stream, last, pending, ledger, handled, faults>>
      /\ dead' = dead \cup {Event(c)} /\ consumer'[c].at = "ack"
      /\ consumer'[c].batch = consumer[c].batch
      /\ \A d \in Consumers : d # c => consumer'[d] = consumer[d]
  BY <1>1, DeadLetterTypes
<1>3. RelayCovers' /\ \A e \in Events : Settled(e) => Settled(e)'
  BY <1>1, <1>2, GroupStepKeeps
<1>4. \A e \in ledger : handled[e] > 0
  BY <1>1 DEF ConsumerSettles
<1>5. Event(c)' = Event(c)
  BY <1>2 DEF Event, Message
<1>6. Settled(Event(c))'
  BY <1>2, <1>5 DEF Settled
<1>7. ConsumerSettles'
  BY <1>1, <1>2, <1>3, <1>4, <1>6, OthersSettle
<1>8. QED
  BY <1>2, <1>3, <1>7 DEF DeliveryInv

LEMMA AckDelivers ==
    ASSUME DeliveryInv, NEW c \in Consumers, Ack(c)
    PROVE  DeliveryInv'
<1>1. TypeInv /\ RelayCovers /\ ConsumerSettles
  BY DEF DeliveryInv
<1>2. /\ TypeInv'
      /\ UNCHANGED <<outbox_vars, stream, last, ledger, dead, handled, faults>>
      /\ pending' = [m \in DOMAIN pending \ {Message(c)} |-> pending[m]]
      /\ consumer'[c].at \in {"check", "reclaim"}
      /\ \A d \in Consumers : d # c => consumer'[d] = consumer[d]
  BY <1>1, AckTypes
<1>3. Settled(stream[Message(c)])
  BY <1>1 DEF ConsumerSettles, Ack, Event
<1>4. \A m \in DOMAIN pending : m \in DOMAIN pending' \/ Settled(stream[m])
  <2>1. ASSUME NEW m \in DOMAIN pending, m \notin DOMAIN pending' PROVE Settled(stream[m])
    <3>1. m = Message(c)
      BY <1>2, <2>1
    <3>2. QED
      BY <1>3, <3>1
  <2>2. QED
    BY <2>1
<1>5. RelayCovers' /\ \A e \in Events : Settled(e) => Settled(e)'
  BY <1>1, <1>2, <1>4, GroupStepKeeps
<1>6. \A e \in ledger : handled[e] > 0
  BY <1>1 DEF ConsumerSettles
<1>7. ConsumerSettles'
  BY <1>1, <1>2, <1>5, <1>6, OthersSettle
<1>8. QED
  BY <1>2, <1>5, <1>7 DEF DeliveryInv

LEMMA GrowStaleDelivers ==
    ASSUME DeliveryInv, NEW m \in DOMAIN pending, GrowStale(m)
    PROVE  DeliveryInv'
<1>1. TypeInv /\ RelayCovers /\ ConsumerSettles
  BY DEF DeliveryInv
<1>2. /\ TypeInv'
      /\ UNCHANGED <<outbox_vars, stream, last, consumer, ledger, dead, handled>>
      /\ DOMAIN pending' = DOMAIN pending
  BY <1>1, GrowStaleTypes
<1>3. RelayCovers' /\ \A e \in Events : Settled(e) => Settled(e)'
  BY <1>1, <1>2, GroupStepKeeps
<1>4. ConsumerSettles'
  BY <1>1, <1>2 DEF ConsumerSettles, Settled, Event, Message
<1>5. QED
  BY <1>2, <1>3, <1>4 DEF DeliveryInv

LEMMA ConsumerCrashDelivers ==
    ASSUME DeliveryInv, NEW c \in Consumers, ConsumerCrash(c)
    PROVE  DeliveryInv'
<1>1. TypeInv /\ RelayCovers /\ ConsumerSettles
  BY DEF DeliveryInv
<1>2. /\ TypeInv'
      /\ UNCHANGED <<outbox_vars, stream, last, ledger, dead, handled>>
      /\ DOMAIN pending' = DOMAIN pending
      /\ consumer'[c].at = "reclaim"
      /\ \A d \in Consumers : d # c => consumer'[d] = consumer[d]
  BY <1>1, ConsumerCrashTypes DEF NewConsumer
<1>3. RelayCovers' /\ \A e \in Events : Settled(e) => Settled(e)'
  BY <1>1, <1>2, GroupStepKeeps
<1>4. \A e \in ledger : handled[e] > 0
  BY <1>1 DEF ConsumerSettles
<1>5. ConsumerSettles'
  BY <1>1, <1>2, <1>3, <1>4, OthersSettle
<1>6. QED
  BY <1>2, <1>3, <1>5 DEF DeliveryInv

LEMMA DeliveryStep == DeliveryInv /\ [Next]_vars => DeliveryInv'
<1> SUFFICES ASSUME DeliveryInv, [Next]_vars PROVE DeliveryInv'
  OBVIOUS
<1>1. CASE UNCHANGED vars
  BY <1>1 DEF vars, outbox_vars, group_vars, DeliveryInv, TypeInv, OutboxTypes, GroupTypes,
     BatchOK, RelayCovers, ConsumerSettles, Covered, Settled, Undelivered, Pending, Event, Message
<1>2. ASSUME NEW e \in Events, Commit(e) PROVE DeliveryInv'
  BY <1>2, CommitDelivers
<1>3. ASSUME NEW r \in Relays, RelayStep(r) \/ PublishFails(r) \/ RelayCrash(r)
      PROVE  DeliveryInv'
  BY <1>3, OutboxDelivers, ReadBatchDelivers, RelayCrashDelivers
<1>4. ASSUME NEW c \in Consumers, ConsumerStep(c) \/ HandlerFails(c) \/ ConsumerCrash(c)
      PROVE  DeliveryInv'
  BY <1>4, ReclaimDelivers, ReadNewDelivers, CheckDelivers, HandleDelivers,
     MarkProcessedDelivers, DeadLetterDelivers, AckDelivers, HandlerFailsDelivers,
     ConsumerCrashDelivers DEF ConsumerStep
<1>5. ASSUME NEW m \in DOMAIN pending, GrowStale(m) PROVE DeliveryInv'
  BY <1>5, GrowStaleDelivers
<1>6. QED
  BY <1>1, <1>2, <1>3, <1>4, <1>5 DEF Next

LEMMA DeliveryInductive == Spec => []DeliveryInv
<1>1. Init => DeliveryInv
  <2>1. Init => RelayCovers /\ ConsumerSettles
    BY DEF Init, RelayCovers, ConsumerSettles, IdleRelay, NewConsumer
  <2>2. QED
    BY <2>1, TypeInit DEF DeliveryInv
<1>2. QED
  BY <1>1, DeliveryStep, PTL DEF Spec

(* No crash, failed publish, lost consumer or refused message loses an     *)
(* event, however many relays, consumers and faults there are: an event    *)
(* whose transaction committed is unpublished, undelivered or pending      *)
(* until it is handled and in the ledger, or dead-lettered.                *)
THEOREM NothingLost == Spec => []NothingIsLost
<1>1. DeliveryInv => NothingIsLost
  BY DEF DeliveryInv, RelayCovers, Covered, Settled, NothingIsLost
<1>2. QED
  BY <1>1, DeliveryInductive, PTL

-----------------------------------------------------------------------------
(* Order *)

LEMMA BeforeMeans ==
    ASSUME NEW S, NEW s \in Seq(S), NEW a, NEW b
    PROVE  Before(a, b, s) <=> \E i \in DOMAIN s : s[i] = a /\ \A j \in 1..i : s[j] # b
<1>1. ASSUME NEW i \in DOMAIN s
      PROVE  b \notin ToSet(SubSeq(s, 1, i)) <=> \A j \in 1..i : s[j] # b
  <2>1. i \in 1..Len(s) /\ Len(s) \in Nat
    BY LenProperties
  <2>2. PICK t : t = SubSeq(s, 1, i)
    OBVIOUS
  <2>3. DOMAIN t = 1..i /\ \A j \in 1..i : t[j] = s[j]
    BY <2>1, <2>2
  <2>4. b \notin ToSet(t) <=> \A j \in 1..i : s[j] # b
    BY <2>3 DEF ToSet
  <2>5. QED
    BY <2>2, <2>4
<1>2. QED
  BY <1>1 DEF Before

(* What an appended element does to the order. *)
LEMMA BeforeAppend ==
    ASSUME NEW S, NEW s \in Seq(S), NEW e \in S, NEW a, NEW b
    PROVE  /\ Before(a, b, s) => Before(a, b, Append(s, e))
           /\ a \in ToSet(s) /\ e \notin ToSet(s) => Before(a, e, Append(s, e))
           /\ b \in ToSet(s) /\ Before(a, b, Append(s, e)) => Before(a, b, s)
<1>1. PICK t \in Seq(S) : t = Append(s, e)
  BY AppendToSet
<1>2. /\ DOMAIN t = DOMAIN s \cup {Len(s) + 1} /\ DOMAIN s = 1..Len(s) /\ Len(s) \in Nat
      /\ \A i \in DOMAIN s : t[i] = s[i]
      /\ t[Len(s) + 1] = e
  BY <1>1, AppendToSet
<1>3. ASSUME NEW i \in DOMAIN s PROVE \A j \in 1..i : j \in DOMAIN s /\ t[j] = s[j]
  BY <1>2
<1>4. Before(a, b, s) => Before(a, b, t)
  <2>1. ASSUME NEW i \in DOMAIN s, s[i] = a, \A j \in 1..i : s[j] # b
        PROVE  i \in DOMAIN t /\ t[i] = a /\ \A j \in 1..i : t[j] # b
    BY <1>2, <1>3, <2>1
  <2>2. QED
    BY <2>1, BeforeMeans
<1>5. a \in ToSet(s) /\ e \notin ToSet(s) => Before(a, e, t)
  <2>1. ASSUME NEW i \in DOMAIN s, s[i] = a, e \notin ToSet(s)
        PROVE  i \in DOMAIN t /\ t[i] = a /\ \A j \in 1..i : t[j] # e
    BY <1>2, <1>3, <2>1 DEF ToSet
  <2>2. QED
    BY <2>1, BeforeMeans DEF ToSet
<1>6. b \in ToSet(s) /\ Before(a, b, t) => Before(a, b, s)
  <2>1. SUFFICES ASSUME b \in ToSet(s), NEW i \in DOMAIN t, t[i] = a, \A j \in 1..i : t[j] # b
                 PROVE  Before(a, b, s)
    BY BeforeMeans
  <2>2. PICK k \in DOMAIN s : s[k] = b
    BY <2>1 DEF ToSet
  <2>3. ~(k \in 1..i)
    BY <1>2, <2>1, <2>2
  <2>4. i \in DOMAIN s
    BY <1>2, <2>3
  <2>5. s[i] = a /\ \A j \in 1..i : s[j] # b
    BY <1>2, <1>3, <2>1, <2>4
  <2>6. QED
    BY <2>4, <2>5, BeforeMeans
<1>7. QED
  BY <1>1, <1>4, <1>5, <1>6

(* A batch whose relay stays where it is, while the stream and the set of  *)
(* events given up on only grow.                                           *)
LEMMA BatchKept ==
    ASSUME NEW q \in Relays, BatchOrderly(q), relay'[q] = relay[q],
           UNCHANGED commits, ToSet(stream) \subseteq ToSet(stream'),
           given_up \subseteq given_up'
    PROVE  BatchOrderly(q)'
  BY DEF BatchOrderly, committed

(* The head of a batch leaves it for the stream, or is given up on. *)
LEMMA BatchShortened ==
    ASSUME TypeInv, NEW r \in Relays, relay[r].at # "idle", BatchOrderly(r),
           relay'[r].batch = Tail(relay[r].batch), relay'[r].at # "mark",
           UNCHANGED commits, ToSet(stream) \subseteq ToSet(stream'),
           given_up \subseteq given_up',
           Head(relay[r].batch) \in ToSet(stream') \cup given_up'
    PROVE  BatchOrderly(r)'
<1> DEFINE batch == relay[r].batch
           h == Head(batch)
           t == Tail(batch)
<1>1. batch \in Seq(Events) /\ batch # <<>>
  BY DEF TypeInv, OutboxTypes, RelayRows
<1>2. /\ DOMAIN t = 1..(Len(batch) - 1) /\ Len(batch) \in Nat
      /\ \A i \in DOMAIN t : i + 1 \in DOMAIN batch /\ t[i] = batch[i + 1]
      /\ ToSet(batch) = {h} \cup ToSet(t)
  BY <1>1, TailProperties, LenProperties
<1>3. /\ \A i, j \in DOMAIN batch : i < j => batch[i] < batch[j]
      /\ ToSet(batch) \subseteq committed
      /\ \A b \in ToSet(batch), a \in committed : a < b =>
            a \in ToSet(stream) \cup ToSet(batch) \cup given_up \/ Before(b, a, commits)
  BY DEF BatchOrderly
<1> HIDE DEF t, h
<1>4. \A i, j \in DOMAIN t : i < j => t[i] < t[j]
  <2>1. ASSUME NEW i \in DOMAIN t, NEW j \in DOMAIN t, i < j PROVE t[i] < t[j]
    <3>1. i + 1 \in DOMAIN batch /\ j + 1 \in DOMAIN batch /\ t[i] = batch[i + 1] /\ t[j] = batch[j + 1]
      BY <1>2
    <3>2. i \in Int /\ j \in Int
      BY <1>2
    <3>3. i + 1 < j + 1
      BY <2>1, <3>2
    <3>4. QED
      BY <1>3, <3>1, <3>3
  <2>2. QED
    BY <2>1
<1>5. \A b \in ToSet(t), a \in committed : a < b =>
            a \in ToSet(stream') \cup ToSet(t) \cup given_up' \/ Before(b, a, commits)
  BY <1>2, <1>3 DEF h
<1>6. relay'[r].batch = t /\ committed' = committed /\ ToSet(t) \subseteq committed
  BY <1>2, <1>3 DEF t, committed
<1>7. QED
  BY <1>4, <1>5, <1>6 DEF BatchOrderly

(* The next entry of the stream is the smallest of a batch: what is        *)
(* smaller and not yet there was given up on, or committed later.          *)
LEMMA StreamGrows ==
    ASSUME TypeInv, StreamOrderly, NEW r \in Relays, relay[r].at # "idle",
           BatchOrderly(r), xadd(r), UNCHANGED commits,
           given_up \subseteq given_up', published' \subseteq ToSet(stream')
    PROVE  StreamOrderly'
<1> DEFINE batch == relay[r].batch
           h == Head(batch)
<1>1. batch \in Seq(Events) /\ batch # <<>> /\ stream \in Seq(Events) /\ committed' = committed
  BY DEF TypeInv, OutboxTypes, RelayRows, committed
<1>2. h \in Events /\ h = batch[1] /\ 1 \in DOMAIN batch /\ h \in ToSet(batch)
  BY <1>1, TailProperties DEF ToSet
<1>3. stream' = Append(stream, h) /\ ToSet(stream') = ToSet(stream) \cup {h}
  BY <1>1, <1>2, AppendToSet DEF xadd
<1>4. ToSet(stream) \subseteq committed /\ ToSet(batch) \subseteq committed
  BY DEF StreamOrderly, BatchOrderly
<1>5. ToSet(stream) \subseteq Nat /\ ToSet(batch) \subseteq Nat /\ h \in Nat
  <2>1. ToSet(stream) \subseteq Events
    BY <1>1 DEF ToSet
  <2>2. ToSet(batch) \subseteq Events
    BY <1>1 DEF ToSet
  <2>3. QED
    BY <1>2, <2>1, <2>2, EventsAreNumbers
<1>6. \A a \in ToSet(batch) : ~(a < h)
  <2>1. ASSUME NEW a \in ToSet(batch), a < h PROVE FALSE
    <3>1. PICK i \in DOMAIN batch : batch[i] = a
      BY DEF ToSet
    <3>2. i = 1 \/ 1 < i
      BY <1>1, LenProperties
    <3>3. a = h \/ h < a
      BY <1>2, <3>1, <3>2 DEF BatchOrderly
    <3>4. QED
      BY <1>5, <2>1, <3>3
  <2>2. QED
    BY <2>1
<1>7. \A b \in ToSet(stream'), a \in committed :
            a < b => a \in ToSet(stream') \cup given_up' \/ Before(b, a, commits)
  <2>1. ASSUME NEW b \in ToSet(stream'), NEW a \in committed, a < b
        PROVE  a \in ToSet(stream') \cup given_up' \/ Before(b, a, commits)
    <3>1. CASE b = h
      BY <1>2, <1>3, <1>6, <2>1, <3>1 DEF BatchOrderly
    <3>2. CASE b # h
      BY <1>3, <2>1, <3>2 DEF StreamOrderly
    <3>3. QED
      BY <3>1, <3>2
  <2>2. QED
    BY <2>1
<1>8. \A a, b \in ToSet(stream') :
            a < b /\ Before(b, a, stream') => a \in given_up' \/ Before(b, a, commits)
  <2>1. ASSUME NEW a \in ToSet(stream'), NEW b \in ToSet(stream'), a < b, Before(b, a, stream')
        PROVE  a \in given_up' \/ Before(b, a, commits)
    <3>1. CASE a \in ToSet(stream)
      <4>1. Before(b, a, stream)
        BY <1>1, <1>2, <1>3, <2>1, <3>1, BeforeAppend
      <4>2. b \in ToSet(stream)
        BY <1>1, <4>1, BeforeMeans DEF ToSet
      <4>3. QED
        BY <2>1, <3>1, <4>1, <4>2 DEF StreamOrderly, DisorderHasACause
    <3>2. CASE a \notin ToSet(stream)
      <4>1. a = h /\ b \in ToSet(stream)
        BY <1>3, <1>5, <2>1, <3>2
      <4>2. a \in committed
        BY <1>2, <1>4, <4>1
      <4>3. QED
        BY <2>1, <3>2, <4>1, <4>2 DEF StreamOrderly
    <3>3. QED
      BY <3>1, <3>2
  <2>2. QED
    BY <2>1
<1>9. ToSet(stream') \subseteq committed
  BY <1>2, <1>3, <1>4
<1>10. QED
  BY <1>1, <1>7, <1>8, <1>9 DEF StreamOrderly, DisorderHasACause

(* Nor does anything change on a stream that nobody appends to. *)
LEMMA StreamStays ==
    ASSUME StreamOrderly, UNCHANGED <<commits, stream>>,
           given_up \subseteq given_up', published' \subseteq ToSet(stream)
    PROVE  StreamOrderly'
  BY DEF StreamOrderly, DisorderHasACause, committed

LEMMA CommitOrders ==
    ASSUME TypeInv, OrderInv, NEW e \in Events, Commit(e)
    PROVE  OrderInv'
<1>1. /\ UNCHANGED <<published, given_up, relay, stream>>
      /\ commits' = Append(commits, e) /\ commits \in Seq(Events)
  BY DEF Commit, TypeInv, OutboxTypes
<1>2. committed' = committed \cup {e} /\ e \notin committed
  BY <1>1, AppendToSet DEF committed, Commit
<1>3. ASSUME NEW a, NEW b, Before(b, a, commits) PROVE Before(b, a, commits')
  BY <1>1, <1>3, BeforeAppend
<1>4. ASSUME NEW b \in committed PROVE Before(b, e, commits')
  BY <1>1, <1>2, <1>4, BeforeAppend DEF committed
<1>5. StreamOrderly'
  <2>1. ASSUME NEW b \in ToSet(stream), NEW a \in committed', a < b
        PROVE  a \in ToSet(stream) \cup given_up \/ Before(b, a, commits')
    <3>1. CASE a = e
      BY <1>4, <3>1 DEF OrderInv, StreamOrderly
    <3>2. CASE a # e
      BY <1>2, <1>3, <2>1, <3>2 DEF OrderInv, StreamOrderly
    <3>3. QED
      BY <3>1, <3>2
  <2>2. \A a, b \in ToSet(stream) : a < b /\ Before(b, a, stream)
            => a \in given_up \/ Before(b, a, commits')
    BY <1>3 DEF OrderInv, StreamOrderly, DisorderHasACause
  <2>3. QED
    BY <1>1, <1>2, <2>1, <2>2 DEF OrderInv, StreamOrderly, DisorderHasACause
<1>6. ASSUME NEW r \in Relays PROVE BatchOrderly(r)'
  <2> DEFINE batch == relay[r].batch
  <2>1. BatchOrderly(r)
    BY DEF OrderInv
  <2>2. ASSUME NEW b \in ToSet(batch), NEW a \in committed', a < b
        PROVE  a \in ToSet(stream) \cup ToSet(batch) \cup given_up \/ Before(b, a, commits')
    <3>1. CASE a = e
      BY <1>4, <2>1, <3>1 DEF BatchOrderly
    <3>2. CASE a # e
      BY <1>2, <1>3, <2>1, <2>2, <3>2 DEF BatchOrderly
    <3>3. QED
      BY <3>1, <3>2
  <2>3. QED
    BY <1>1, <1>2, <2>1, <2>2 DEF BatchOrderly
<1>7. QED
  BY <1>5, <1>6 DEF OrderInv

LEMMA ReadBatchOrders ==
    ASSUME TypeInv, OrderInv, NEW r \in Relays, ReadBatch(r)
    PROVE  OrderInv'
<1>1. PICK batch \in First(BatchSize, unpublished) :
          /\ relay' = [relay EXCEPT ![r] = [at |-> "publish", batch |-> batch, attempt |-> 1]]
          /\ relay'[r].batch = batch /\ relay'[r].at = "publish"
  BY ReadBatchTypes
<1>2. UNCHANGED <<commits, published, given_up, stream>> /\ committed' = committed
  BY DEF ReadBatch, committed
<1>3. unpublished \subseteq Events /\ IsFiniteSet(unpublished) /\ BatchSize \in Nat \ {0}
  BY UnpublishedFinite, DeliveryAssumption DEF TypeInv
<1>4. /\ ToSet(batch) \subseteq unpublished
      /\ \A i, j \in DOMAIN batch : i < j => batch[i] < batch[j]
      /\ \A x \in unpublished \ ToSet(batch), i \in DOMAIN batch : batch[i] < x
  BY <1>3, FirstProperties
<1>5. published \subseteq ToSet(stream)
  BY DEF OrderInv, StreamOrderly
<1>6. ASSUME NEW b \in ToSet(batch), NEW a \in committed, a < b
      PROVE  a \in ToSet(stream) \cup ToSet(batch)
  <2>1. SUFFICES ASSUME a \in unpublished \ ToSet(batch) PROVE FALSE
    BY <1>5 DEF unpublished
  <2>2. PICK i \in DOMAIN batch : batch[i] = b
    BY DEF ToSet
  <2>3. b < a /\ a \in Nat /\ b \in Nat
    BY <1>3, <1>4, <2>1, <2>2, EventsAreNumbers
  <2>4. QED
    BY <1>6, <2>3
<1>7. BatchOrderly(r)'
  BY <1>1, <1>2, <1>4, <1>6 DEF BatchOrderly, unpublished
<1>8. ASSUME NEW q \in Relays, q # r PROVE BatchOrderly(q)'
  <2>1. relay'[q] = relay[q]
    BY <1>1, <1>8 DEF TypeInv, OutboxTypes
  <2>2. QED
    BY <1>2, <2>1, BatchKept DEF OrderInv
<1>9. StreamOrderly'
  BY <1>2, <1>5, StreamStays DEF OrderInv
<1>10. QED
  BY <1>7, <1>8, <1>9 DEF OrderInv

LEMMA PublishOrders ==
    ASSUME TypeInv, OrderInv, NEW r \in Relays, Publish(r)
    PROVE  OrderInv'
<1>1. /\ relay'[r].at = "mark" /\ relay'[r].batch = relay[r].batch
      /\ \A q \in Relays : q # r => relay'[q] = relay[q]
  BY PublishTypes
<1>2. /\ UNCHANGED <<commits, published, given_up>> /\ committed' = committed
      /\ relay[r].at # "idle" /\ xadd(r)
  BY DEF Publish, Publishing, committed
<1>3. ToSet(stream') = ToSet(stream) \cup {Head(relay[r].batch)}
  BY <1>2, Xadd DEF TypeInv
<1>4. StreamOrderly /\ \A q \in Relays : BatchOrderly(q)
  BY DEF OrderInv
<1>5. StreamOrderly'
  <2>1. published' \subseteq ToSet(stream')
    BY <1>2, <1>3, <1>4 DEF StreamOrderly
  <2>2. QED
    BY <1>2, <1>4, <2>1, StreamGrows
<1>6. BatchOrderly(r)'
  BY <1>1, <1>2, <1>3, <1>4 DEF BatchOrderly
<1>7. ASSUME NEW q \in Relays, q # r PROVE BatchOrderly(q)'
  BY <1>1, <1>2, <1>3, <1>4, <1>7, BatchKept
<1>8. QED
  BY <1>5, <1>6, <1>7 DEF OrderInv

LEMMA MarkPublishedOrders ==
    ASSUME TypeInv, OrderInv, NEW r \in Relays, MarkPublished(r)
    PROVE  OrderInv'
<1>1. /\ relay'[r].at # "mark" /\ relay'[r].batch = Tail(relay[r].batch)
      /\ \A q \in Relays : q # r => relay'[q] = relay[q]
  BY MarkPublishedTypes
<1>2. /\ UNCHANGED <<commits, given_up, stream>> /\ relay[r].at = "mark"
      /\ published' = published \cup {Head(relay[r].batch)}
  BY DEF MarkPublished
<1>3. StreamOrderly /\ \A q \in Relays : BatchOrderly(q)
  BY DEF OrderInv
<1>4. Head(relay[r].batch) \in ToSet(stream)
  BY <1>2, <1>3 DEF BatchOrderly
<1>5. StreamOrderly'
  <2>1. published' \subseteq ToSet(stream)
    BY <1>2, <1>3, <1>4 DEF StreamOrderly
  <2>2. QED
    BY <1>2, <1>3, <2>1, StreamStays
<1>6. BatchOrderly(r)'
  BY <1>1, <1>2, <1>3, <1>4, BatchShortened
<1>7. ASSUME NEW q \in Relays, q # r PROVE BatchOrderly(q)'
  BY <1>1, <1>2, <1>3, <1>7, BatchKept
<1>8. QED
  BY <1>5, <1>6, <1>7 DEF OrderInv

(* A publish that raised may have reached the stream all the same; the     *)
(* last attempt leaves the row to a later pass.                            *)
LEMMA PublishFailsOrders ==
    ASSUME TypeInv, OrderInv, NEW r \in Relays, PublishFails(r)
    PROVE  OrderInv'
<1>1. /\ relay'[r].at # "mark" /\ UNCHANGED published
      /\ \A q \in Relays : q # r => relay'[q] = relay[q]
      /\ \/ relay'[r].batch = relay[r].batch /\ UNCHANGED given_up
         \/ /\ relay'[r].batch = Tail(relay[r].batch)
            /\ given_up' = given_up \cup {Head(relay[r].batch)}
  BY PublishFailsTypes
<1>2. /\ UNCHANGED commits /\ committed' = committed /\ relay[r].at # "idle"
      /\ xadd(r) \/ UNCHANGED stream
  BY DEF PublishFails, Publishing, committed
<1>3. ToSet(stream) \subseteq ToSet(stream') /\ given_up \subseteq given_up'
  BY <1>1, <1>2, Xadd DEF TypeInv
<1>4. StreamOrderly /\ \A q \in Relays : BatchOrderly(q)
  BY DEF OrderInv
<1>5. StreamOrderly'
  <2>1. published' \subseteq ToSet(stream) /\ published' \subseteq ToSet(stream')
    BY <1>1, <1>3, <1>4 DEF StreamOrderly
  <2>2. CASE xadd(r)
    BY <1>2, <1>3, <1>4, <2>1, <2>2, StreamGrows
  <2>3. CASE UNCHANGED stream
    BY <1>2, <1>3, <1>4, <2>1, <2>3, StreamStays
  <2>4. QED
    BY <1>2, <2>2, <2>3
<1>6. BatchOrderly(r)'
  <2>1. CASE relay'[r].batch = relay[r].batch
    BY <1>1, <1>2, <1>3, <1>4, <2>1 DEF BatchOrderly
  <2>2. CASE /\ relay'[r].batch = Tail(relay[r].batch)
             /\ given_up' = given_up \cup {Head(relay[r].batch)}
    BY <1>1, <1>2, <1>3, <1>4, <2>2, BatchShortened
  <2>3. QED
    BY <1>1, <2>1, <2>2
<1>7. ASSUME NEW q \in Relays, q # r PROVE BatchOrderly(q)'
  BY <1>1, <1>2, <1>3, <1>4, <1>7, BatchKept
<1>8. QED
  BY <1>5, <1>6, <1>7 DEF OrderInv

LEMMA RelayCrashOrders ==
    ASSUME TypeInv, OrderInv, NEW r \in Relays, RelayCrash(r)
    PROVE  OrderInv'
<1>1. relay'[r] = IdleRelay /\ \A q \in Relays : q # r => relay'[q] = relay[q]
  BY RelayCrashTypes
<1>2. UNCHANGED <<commits, published, given_up, stream>>
  BY DEF RelayCrash
<1>3. StreamOrderly /\ \A q \in Relays : BatchOrderly(q)
  BY DEF OrderInv
<1>4. StreamOrderly'
  BY <1>2, <1>3, StreamStays DEF StreamOrderly
<1>5. BatchOrderly(r)'
  <2>1. relay'[r].batch = <<>> /\ relay'[r].at = "idle"
    BY <1>1 DEF IdleRelay
  <2>2. ToSet(<<>>) = {} /\ DOMAIN <<>> = {}
    BY DEF ToSet
  <2>3. QED
    BY <2>1, <2>2 DEF BatchOrderly
<1>6. ASSUME NEW q \in Relays, q # r PROVE BatchOrderly(q)'
  BY <1>1, <1>2, <1>3, <1>6, BatchKept
<1>7. QED
  BY <1>4, <1>5, <1>6 DEF OrderInv

(* Only the relays' steps and new commits touch what the order is about.   *)
LEMMA OrderStep == TypeInv /\ OrderInv /\ [Next]_vars => OrderInv'
<1> SUFFICES ASSUME TypeInv, OrderInv, [Next]_vars PROVE OrderInv'
  OBVIOUS
<1>1. ASSUME UNCHANGED <<outbox_vars, stream>> PROVE OrderInv'
  <2>1. UNCHANGED <<commits, published, given_up, relay, stream>>
    BY <1>1 DEF outbox_vars
  <2>2. StreamOrderly /\ \A q \in Relays : BatchOrderly(q)
    BY DEF OrderInv
  <2>3. StreamOrderly'
    BY <2>1, <2>2, StreamStays DEF StreamOrderly
  <2>4. ASSUME NEW q \in Relays PROVE BatchOrderly(q)'
    BY <2>1, <2>2, BatchKept
  <2>5. QED
    BY <2>3, <2>4 DEF OrderInv
<1>2. CASE UNCHANGED vars
  BY <1>1, <1>2 DEF vars, outbox_vars
<1>3. ASSUME NEW e \in Events, Commit(e) PROVE OrderInv'
  BY <1>3, CommitOrders
<1>4. ASSUME NEW r \in Relays, RelayStep(r) \/ PublishFails(r) \/ RelayCrash(r)
      PROVE  OrderInv'
  BY <1>4, ReadBatchOrders, PublishOrders, MarkPublishedOrders, PublishFailsOrders,
     RelayCrashOrders DEF RelayStep
<1>5. ASSUME NEW c \in Consumers, ConsumerStep(c) \/ HandlerFails(c) \/ ConsumerCrash(c)
      PROVE  OrderInv'
  <2>1. UNCHANGED <<outbox_vars, stream>>
    BY <1>5 DEF ConsumerStep, HandlerFails, ConsumerCrash, Reclaim, ReadNew, Check,
       Handle, MarkProcessed, DeadLetter, Ack
  <2>2. QED
    BY <1>1, <2>1
<1>6. ASSUME NEW m \in DOMAIN pending, GrowStale(m) PROVE OrderInv'
  <2>1. UNCHANGED <<outbox_vars, stream>>
    BY <1>6 DEF GrowStale
  <2>2. QED
    BY <1>1, <2>1
<1>7. QED
  BY <1>2, <1>3, <1>4, <1>5, <1>6 DEF Next

LEMMA OrderInductive == Spec => [](TypeInv /\ OrderInv)
<1>1. Init => TypeInv /\ OrderInv
  <2>1. SUFFICES ASSUME Init PROVE OrderInv
    BY TypeInit
  <2>2. ToSet(<<>>) = {} /\ DOMAIN <<>> = {}
    BY DEF ToSet
  <2>3. StreamOrderly
    BY <2>1, <2>2 DEF Init, StreamOrderly, DisorderHasACause
  <2>4. ASSUME NEW r \in Relays PROVE BatchOrderly(r)
    <3>1. relay[r].batch = <<>> /\ relay[r].at = "idle"
      BY <2>1 DEF Init, IdleRelay
    <3>2. QED
      BY <2>2, <3>1 DEF BatchOrderly
  <2>5. QED
    BY <2>3, <2>4 DEF OrderInv
<1>2. TypeInv /\ OrderInv /\ [Next]_vars => (TypeInv /\ OrderInv)'
  BY OrderStep, TypeStep
<1>3. QED
  BY <1>1, <1>2, PTL DEF Spec

(* On the stream an event precedes all later ones unless a pass gave up on *)
(* it or the later transaction committed first: for any number of events,  *)
(* relays, crashes and batches of every size.                              *)
THEOREM DisorderCaused == Spec => []DisorderHasACause
<1>1. OrderInv => DisorderHasACause
  BY DEF OrderInv, StreamOrderly
<1>2. QED
  BY <1>1, OrderInductive, PTL

-----------------------------------------------------------------------------
(* Duplicates *)

(* A set of pairs in which some pairs with tag a come from a pair of T     *)
(* with tag b instead.                                                     *)
LEMMA Retagged ==
    ASSUME NEW S, NEW T, IsFiniteSet(T), NEW a, NEW b, NEW K,
           \A t \in S : t = <<t[1], t[2]>>,
           \A t \in S : IF t[1] = a /\ t[2] \in K
                          THEN <<b, t[2]>> \in T /\ <<b, t[2]>> \notin S
                          ELSE t \in T
    PROVE  IsFiniteSet(S) /\ Cardinality(S) <= Cardinality(T)
<1> DEFINE f == [t \in S |-> IF t[1] = a /\ t[2] \in K THEN <<b, t[2]>> ELSE t]
<1>1. f \in [S -> T]
  OBVIOUS
<1>2. ASSUME NEW t \in S, NEW u \in S, f[t] = f[u] PROVE t = u
  <2>1. CASE (t[1] = a /\ t[2] \in K) /\ (u[1] = a /\ u[2] \in K)
    <3>1. <<b, t[2]>> = <<b, u[2]>>
      BY <1>2, <2>1
    <3>2. t[2] = u[2] /\ t[1] = u[1]
      BY <2>1, <3>1
    <3>3. t = <<t[1], t[2]>> /\ u = <<u[1], u[2]>>
      OBVIOUS
    <3>4. QED
      BY <3>2, <3>3
  <2>2. CASE (t[1] = a /\ t[2] \in K) /\ ~(u[1] = a /\ u[2] \in K)
    BY <1>2, <2>2
  <2>3. CASE ~(t[1] = a /\ t[2] \in K) /\ (u[1] = a /\ u[2] \in K)
    BY <1>2, <2>3
  <2>4. CASE ~(t[1] = a /\ t[2] \in K) /\ ~(u[1] = a /\ u[2] \in K)
    BY <1>2, <2>4
  <2>5. QED
    BY <2>1, <2>2, <2>3, <2>4
<1> HIDE DEF f
<1>3. f \in Injection(S, T)
  BY <1>1, <1>2 DEF Injection, IsInjective
<1>4. QED
  BY <1>3, FS_Injection

LEMMA OneMore ==
    ASSUME NEW S, NEW T, IsFiniteSet(T), NEW x, S \subseteq T \cup {x}
    PROVE  /\ IsFiniteSet(S) /\ Cardinality(S) \in Nat /\ Cardinality(T) \in Nat
           /\ Cardinality(S) <= Cardinality(T) + 1
<1>1. IsFiniteSet(T \cup {x}) /\ Cardinality(T \cup {x}) <= Cardinality(T) + 1
  <2>1. Cardinality(T) \in Nat
    BY FS_CardinalityType
  <2>2. /\ IsFiniteSet(T \cup {x})
        /\ Cardinality(T \cup {x}) = IF x \in T THEN Cardinality(T) ELSE Cardinality(T) + 1
    BY FS_AddElement
  <2>3. QED
    BY <2>1, <2>2
<1>2. IsFiniteSet(S) /\ Cardinality(S) <= Cardinality(T \cup {x})
  BY <1>1, FS_Subset
<1>3. Cardinality(S) \in Nat /\ Cardinality(T) \in Nat /\ Cardinality(T \cup {x}) \in Nat
  BY <1>1, <1>2, FS_CardinalityType
<1>4. QED
  BY <1>1, <1>2, <1>3

LEMMA NoMore ==
    ASSUME NEW S, NEW T, IsFiniteSet(T), S \subseteq T
    PROVE  /\ IsFiniteSet(S) /\ Cardinality(S) \in Nat /\ Cardinality(T) \in Nat
           /\ Cardinality(S) <= Cardinality(T)
  BY FS_Subset, FS_CardinalityType

LEMMA TokensFinite ==
    ASSUME TypeInv, NEW e
    PROVE  /\ IsFiniteSet(Tokens(e)) /\ Cardinality(Tokens(e)) \in Nat
           /\ Copies(e) \in Nat
           /\ \A t \in Tokens(e) : t = <<t[1], t[2]>> /\ t[1] \in Consumers \cup {NoOne}
                                     /\ t[2] \in DOMAIN stream
<1>1. DOMAIN stream = 1..Len(stream) /\ Len(stream) \in Nat
  BY DEF TypeInv, OutboxTypes
<1>2. IsFiniteSet(DOMAIN stream)
  BY <1>1, FS_Interval
<1>3. IsFiniteSet(Consumers \cup {NoOne})
  BY DeliveryAssumption, FS_AddElement
<1>4. IsFiniteSet((Consumers \cup {NoOne}) \X DOMAIN stream)
  BY <1>2, <1>3, FS_Product
<1>5. Tokens(e) \subseteq (Consumers \cup {NoOne}) \X DOMAIN stream
  BY DEF Tokens
<1>6. IsFiniteSet({m \in DOMAIN stream : stream[m] = e})
  BY <1>2, FS_Subset
<1>7. QED
  BY <1>4, <1>5, <1>6, FS_Subset, FS_CardinalityType DEF Copies

(* The accounting of a step that leaves the stream and what was handled. *)
LEMMA NoNewToken ==
    ASSUME TypeInv, TypeInv', TokensBound, UNCHANGED <<stream, handled>>, faults' >= faults,
           \A e \in Events : IsFiniteSet(Tokens(e)') /\ Cardinality(Tokens(e)') <= Cardinality(Tokens(e))
    PROVE  TokensBound'
<1>1. faults \in Nat /\ faults' \in Nat /\ handled \in [Events -> Nat]
  BY DEF TypeInv, OutboxTypes, GroupTypes
<1>2. ASSUME NEW e \in Events
      PROVE  handled'[e] + Cardinality(Tokens(e)') <= Copies(e)' + faults'
  <2>1. handled[e] + Cardinality(Tokens(e)) <= Copies(e) + faults
    BY DEF TokensBound
  <2>2. Copies(e)' = Copies(e) /\ Copies(e) \in Nat /\ Cardinality(Tokens(e)) \in Nat
    BY TokensFinite DEF Copies
  <2>3. Cardinality(Tokens(e)') \in Nat
    BY FS_CardinalityType
  <2>4. handled'[e] = handled[e] /\ handled[e] \in Nat
    BY <1>1
  <2>5. Cardinality(Tokens(e)') <= Cardinality(Tokens(e))
    OBVIOUS
  <2>6. QED
    BY <1>1, <2>1, <2>2, <2>3, <2>4, <2>5
<1>3. QED
  BY <1>2 DEF TokensBound

(* And of a fault, which pays for one token more. *)
LEMMA FaultPays ==
    ASSUME TypeInv, TypeInv', TokensBound, UNCHANGED <<stream, handled>>, faults' = faults + 1,
           \A e \in Events : IsFiniteSet(Tokens(e)') /\ Cardinality(Tokens(e)') <= Cardinality(Tokens(e)) + 1
    PROVE  TokensBound'
<1>1. faults \in Nat /\ faults' \in Nat /\ handled \in [Events -> Nat]
  BY DEF TypeInv, OutboxTypes, GroupTypes
<1>2. ASSUME NEW e \in Events
      PROVE  handled'[e] + Cardinality(Tokens(e)') <= Copies(e)' + faults'
  <2>1. handled[e] + Cardinality(Tokens(e)) <= Copies(e) + faults
    BY DEF TokensBound
  <2>2. Copies(e)' = Copies(e) /\ Copies(e) \in Nat /\ Cardinality(Tokens(e)) \in Nat
    BY TokensFinite DEF Copies
  <2>3. Cardinality(Tokens(e)') \in Nat
    BY FS_CardinalityType
  <2>4. handled'[e] = handled[e] /\ handled[e] \in Nat
    BY <1>1
  <2>5. Cardinality(Tokens(e)') <= Cardinality(Tokens(e)) + 1
    OBVIOUS
  <2>6. QED
    BY <1>1, <2>1, <2>2, <2>3, <2>4, <2>5
<1>3. QED
  BY <1>2 DEF TokensBound

(* Where tokens come from, position by position. *)
LEMMA TokensFrom ==
    ASSUME TypeInv, UNCHANGED stream, NEW e, NEW x,
           \A m \in DOMAIN stream : Free(m)' => Free(m) \/ m = x,
           \A d \in Consumers, m \in DOMAIN stream : Ahead(d, m)' => Ahead(d, m)
    PROVE  Tokens(e)' \subseteq Tokens(e) \cup {<<NoOne, x>>}
<1> SUFFICES ASSUME NEW t \in Tokens(e)' PROVE t \in Tokens(e) \cup {<<NoOne, x>>}
  OBVIOUS
<1>1. /\ t \in (Consumers \cup {NoOne}) \X DOMAIN stream /\ stream[t[2]] = e
      /\ IF t[1] = NoOne THEN Free(t[2])' ELSE Ahead(t[1], t[2])'
  BY DEF Tokens
<1>2. t = <<t[1], t[2]>> /\ t[1] \in Consumers \cup {NoOne} /\ t[2] \in DOMAIN stream
  BY <1>1
<1>3. CASE t[1] = NoOne
  <2>1. Free(t[2]) \/ t[2] = x
    BY <1>1, <1>2, <1>3
  <2>2. QED
    BY <1>1, <1>2, <1>3, <2>1 DEF Tokens
<1>4. CASE t[1] # NoOne
  <2>1. Ahead(t[1], t[2])
    BY <1>1, <1>2, <1>4
  <2>2. QED
    BY <1>1, <1>4, <2>1 DEF Tokens
<1>5. QED
  BY <1>3, <1>4

LEMMA TokensKept ==
    ASSUME TypeInv, UNCHANGED stream, NEW e,
           \A m \in DOMAIN stream : Free(m)' => Free(m),
           \A d \in Consumers, m \in DOMAIN stream : Ahead(d, m)' => Ahead(d, m)
    PROVE  Tokens(e)' \subseteq Tokens(e)
<1> SUFFICES ASSUME NEW t \in Tokens(e)' PROVE t \in Tokens(e)
  OBVIOUS
<1>1. /\ t \in (Consumers \cup {NoOne}) \X DOMAIN stream /\ stream[t[2]] = e
      /\ IF t[1] = NoOne THEN Free(t[2])' ELSE Ahead(t[1], t[2])'
  BY DEF Tokens
<1>2. t[1] \in Consumers \cup {NoOne} /\ t[2] \in DOMAIN stream
  BY <1>1
<1>3. IF t[1] = NoOne THEN Free(t[2]) ELSE Ahead(t[1], t[2])
  BY <1>1, <1>2
<1>4. QED
  BY <1>1, <1>3 DEF Tokens

LEMMA QuietTokens ==
    ASSUME TypeInv, TypeInv', TokensBound, UNCHANGED <<stream, group_vars>>, faults' >= faults
    PROVE  TokensBound'
<1>1. UNCHANGED <<last, pending, consumer, handled>>
  BY DEF group_vars
<1>2. ASSUME NEW e \in Events PROVE Tokens(e)' = Tokens(e)
  BY <1>1 DEF Tokens, Free, Held, Ahead, Message
<1>3. ASSUME NEW e \in Events
      PROVE  IsFiniteSet(Tokens(e)') /\ Cardinality(Tokens(e)') <= Cardinality(Tokens(e))
  BY <1>2, TokensFinite
<1>4. QED
  BY <1>1, <1>3, NoNewToken

(* A new entry is one more copy and one more token. *)
LEMMA XaddTokens ==
    ASSUME TypeInv, TypeInv', TokensBound, NEW r \in Relays, relay[r].at # "idle", xadd(r),
           UNCHANGED group_vars, faults' >= faults
    PROVE  TokensBound'
<1>1. UNCHANGED <<last, pending, consumer, handled>>
  BY DEF group_vars
<1>2. PICK h : h = Head(relay[r].batch)
  OBVIOUS
<1>3. PICK n : n = Len(stream) + 1
  OBVIOUS
<1>4. stream \in Seq(Events) /\ stream' = Append(stream, h) /\ h \in Events
  BY <1>2, Xadd DEF TypeInv, OutboxTypes, xadd
<1>5. /\ DOMAIN stream' = DOMAIN stream \cup {n} /\ n \notin DOMAIN stream
      /\ \A m \in DOMAIN stream : stream'[m] = stream[m]
      /\ stream'[n] = h
  BY <1>3, <1>4, AppendToSet
<1>6. ASSUME NEW d \in Consumers PROVE n \notin ToSet(consumer[d].batch)
  <2>1. \A m \in ToSet(consumer[d].batch) : m \in 1..last
    BY DEF TypeInv, GroupTypes, BatchOK, ToSet
  <2>2. last \in Nat /\ Len(stream) \in Nat /\ last <= Len(stream)
    BY DEF TypeInv, GroupTypes, OutboxTypes
  <2>3. n \notin 1..last
    BY <1>3, <2>2
  <2>4. QED
    BY <2>1, <2>3
<1>7. ASSUME NEW e, NEW t \in Tokens(e)'
      PROVE  t \in Tokens(e) \/ (e = h /\ t = <<NoOne, n>>)
  <2>1. /\ t \in (Consumers \cup {NoOne}) \X DOMAIN stream' /\ stream'[t[2]] = e
        /\ IF t[1] = NoOne THEN Free(t[2])' ELSE Ahead(t[1], t[2])'
    BY <1>7 DEF Tokens
  <2>2. /\ t[1] \in Consumers \cup {NoOne} /\ t[2] \in DOMAIN stream \cup {n}
        /\ t = <<t[1], t[2]>>
    BY <1>5, <2>1
  <2>3. IF t[1] = NoOne THEN Free(t[2]) ELSE Ahead(t[1], t[2])
    BY <1>1, <2>1 DEF Free, Held, Ahead, Message
  <2>4. CASE t[2] = n
    <3>1. t[1] = NoOne
      BY <1>6, <2>2, <2>3, <2>4 DEF Ahead
    <3>2. QED
      BY <1>5, <2>1, <2>2, <2>4, <3>1
  <2>5. CASE t[2] \in DOMAIN stream
    <3>1. stream[t[2]] = e /\ t \in (Consumers \cup {NoOne}) \X DOMAIN stream
      BY <1>5, <2>1, <2>2, <2>5
    <3>2. QED
      BY <2>3, <3>1 DEF Tokens
  <2>6. QED
    BY <2>2, <2>4, <2>5
<1>8. faults \in Nat /\ faults' \in Nat /\ handled \in [Events -> Nat]
  BY DEF TypeInv, OutboxTypes, GroupTypes
<1>9. ASSUME NEW e \in Events
      PROVE  handled'[e] + Cardinality(Tokens(e)') <= Copies(e)' + faults'
  <2> DEFINE old == {m \in DOMAIN stream : stream[m] = e}
             new == {m \in DOMAIN stream' : stream'[m] = e}
  <2>1. handled[e] + Cardinality(Tokens(e)) <= Copies(e) + faults
    BY DEF TokensBound
  <2>2. /\ Copies(e) \in Nat /\ Cardinality(Tokens(e)) \in Nat
        /\ IsFiniteSet(Tokens(e))
    BY TokensFinite
  <2>3. handled'[e] = handled[e] /\ handled[e] \in Nat
    BY <1>1, <1>8
  <2>4. Copies(e) = Cardinality(old) /\ Copies(e)' = Cardinality(new)
    BY DEF Copies
  <2>5. CASE e = h
    <3>1. Tokens(e)' \subseteq Tokens(e) \cup {<<NoOne, n>>}
      BY <1>7, <2>5
    <3>2. Cardinality(Tokens(e)') \in Nat /\ Cardinality(Tokens(e)') <= Cardinality(Tokens(e)) + 1
      BY <2>2, <3>1, OneMore
    <3>3. new = old \cup {n} /\ n \notin old
      BY <1>5, <2>5
    <3>4. IsFiniteSet(old)
      <4>1. DOMAIN stream = 1..Len(stream) /\ Len(stream) \in Nat
        BY <1>4
      <4>2. IsFiniteSet(DOMAIN stream)
        BY <4>1, FS_Interval
      <4>3. QED
        BY <4>2, FS_Subset
    <3> HIDE DEF old, new
    <3>5. Copies(e)' = Copies(e) + 1
      BY <2>4, <3>3, <3>4, FS_AddElement
    <3>6. QED
      BY <1>8, <2>1, <2>2, <2>3, <3>2, <3>5
  <2>6. CASE e # h
    <3>1. Tokens(e)' \subseteq Tokens(e)
      BY <1>7, <2>6
    <3>2. Cardinality(Tokens(e)') \in Nat /\ Cardinality(Tokens(e)') <= Cardinality(Tokens(e))
      BY <2>2, <3>1, NoMore
    <3>3. new = old
      BY <1>5, <2>6
    <3> HIDE DEF old, new
    <3>4. Copies(e)' = Copies(e)
      BY <2>4, <3>3
    <3>5. QED
      BY <1>8, <2>1, <2>2, <2>3, <3>2, <3>4
  <2>7. QED
    BY <2>5, <2>6
<1>10. QED
  BY <1>9 DEF TokensBound

LEMMA RelayTokens ==
    ASSUME TypeInv, TokensBound, NEW r \in Relays,
           RelayStep(r) \/ PublishFails(r) \/ RelayCrash(r)
    PROVE  TokensBound'
<1>1. TypeInv' /\ UNCHANGED group_vars /\ faults \in Nat
  BY ReadBatchTypes, PublishTypes, MarkPublishedTypes, PublishFailsTypes, RelayCrashTypes
     DEF RelayStep, ReadBatch, Publish, MarkPublished, PublishFails, RelayCrash,
     TypeInv, OutboxTypes
<1>2. faults' >= faults
  BY <1>1 DEF RelayStep, ReadBatch, Publish, MarkPublished, PublishFails, RelayCrash, Fault
<1>3. UNCHANGED stream \/ (relay[r].at # "idle" /\ xadd(r))
  BY DEF RelayStep, ReadBatch, Publish, Publishing, MarkPublished, PublishFails, RelayCrash
<1>4. QED
  BY <1>1, <1>2, <1>3, QuietTokens, XaddTokens

-----------------------------------------------------------------------------
(* Tokens of the consumers' steps *)

LEMMA BatchTail ==
    ASSUME TypeInv, NEW c \in Consumers, consumer[c].at \in Working
    PROVE  ToSet(Tail(consumer[c].batch)) = ToSet(consumer[c].batch) \ {Message(c)}
<1> DEFINE batch == consumer[c].batch
           t == Tail(batch)
<1>1. batch \in Seq(Nat) /\ batch # <<>>
  BY Current
<1>2. \A i, j \in DOMAIN batch : batch[i] = batch[j] => i = j
  BY DEF TypeInv, GroupTypes, BatchOK
<1>3. /\ Head(batch) = batch[1] /\ 1 \in DOMAIN batch
      /\ ToSet(batch) = {Head(batch)} \cup ToSet(t)
      /\ DOMAIN t = 1..(Len(batch) - 1) /\ Len(batch) \in Nat
      /\ \A i \in DOMAIN t : i + 1 \in DOMAIN batch /\ t[i] = batch[i + 1]
  BY <1>1, TailProperties, LenProperties
<1> HIDE DEF batch, t
<1>4. ASSUME NEW i \in DOMAIN t, t[i] = Head(batch) PROVE FALSE
  <2>1. i + 1 = 1
    BY <1>2, <1>3, <1>4
  <2>2. i \in Int /\ i >= 1
    BY <1>3
  <2>3. QED
    BY <2>1, <2>2
<1>5. Head(batch) \notin ToSet(t)
  BY <1>4 DEF ToSet
<1>6. ToSet(t) = ToSet(batch) \ {Head(batch)}
  BY <1>3, <1>5
<1>7. QED
  BY <1>6 DEF batch, t, Message

(* What a consumer was just given was free before, and no one's.           *)
LEMMA GivenTokens ==
    ASSUME TypeInv, TypeInv', TokensBound, NEW c \in Consumers, consumer[c].batch = <<>>,
           UNCHANGED <<stream, handled, faults>>,
           \A d \in Consumers : d # c => consumer'[d] = consumer[d],
           \A m \in ToSet(consumer'[c].batch) :
                Free(m) /\ m \in 1..last' /\ m \in DOMAIN pending' /\ ~pending'[m].idle,
           \A m \in DOMAIN stream \ ToSet(consumer'[c].batch) :
                /\ m \in 1..last' <=> m \in 1..last
                /\ m \in DOMAIN pending' <=> m \in DOMAIN pending
                /\ m \in DOMAIN pending => pending'[m].idle = pending[m].idle
    PROVE  TokensBound'
<1> DEFINE K == ToSet(consumer'[c].batch)
<1>1. NoOne # c /\ NoOne \notin Consumers
  BY DeliveryAssumption
<1>2. DOMAIN <<>> = {} /\ ToSet(<<>>) = {}
  BY DEF ToSet
<1>3. ASSUME NEW m \in K PROVE ~Free(m)' /\ Free(m)
  <2>1. Held(m)'
    BY DEF Held
  <2>2. QED
    BY <2>1 DEF Free
<1>4. ASSUME NEW m \in DOMAIN stream, m \notin K, Free(m)' PROVE Free(m)
  <2>1. Held(m) => Held(m)'
    BY <1>2 DEF Held
  <2>2. QED
    BY <1>4, <2>1 DEF Free
<1>5. ASSUME NEW d \in Consumers, d # c, NEW m PROVE Ahead(d, m)' => Ahead(d, m)
  BY <1>5 DEF Ahead, Message
<1>6. ASSUME NEW e \in Events
      PROVE  IsFiniteSet(Tokens(e)') /\ Cardinality(Tokens(e)') <= Cardinality(Tokens(e))
  <2>1. ASSUME NEW t \in Tokens(e)'
        PROVE  /\ t = <<t[1], t[2]>>
               /\ IF t[1] = c /\ t[2] \in K
                    THEN <<NoOne, t[2]>> \in Tokens(e) /\ <<NoOne, t[2]>> \notin Tokens(e)'
                    ELSE t \in Tokens(e)
    <3>1. /\ t \in (Consumers \cup {NoOne}) \X DOMAIN stream /\ stream[t[2]] = e
          /\ IF t[1] = NoOne THEN Free(t[2])' ELSE Ahead(t[1], t[2])'
      BY <2>1 DEF Tokens
    <3>2. /\ t = <<t[1], t[2]>>
          /\ t[1] \in Consumers \cup {NoOne} /\ t[2] \in DOMAIN stream
      BY <3>1
    <3>3. PICK m \in DOMAIN stream : m = t[2]
      BY <3>2
    <3>4. CASE t[1] = c
      <4>1. m \in K
        BY <1>1, <3>1, <3>3, <3>4 DEF Ahead
      <4>2. Free(m) /\ ~Free(m)'
        BY <1>3, <4>1
      <4>3. <<NoOne, m>> \in (Consumers \cup {NoOne}) \X DOMAIN stream /\ stream[m] = e
        BY <3>1, <3>3
      <4>4. <<NoOne, m>> \in Tokens(e)
        BY <4>2, <4>3 DEF Tokens
      <4>5. <<NoOne, m>> \notin Tokens(e)'
        BY <4>2 DEF Tokens
      <4>6. QED
        BY <3>2, <3>3, <3>4, <4>1, <4>4, <4>5
    <3>5. CASE t[1] = NoOne
      <4>1. Free(m)'
        BY <3>1, <3>3, <3>5
      <4>2. m \notin K
        BY <1>3, <4>1
      <4>3. Free(m)
        BY <1>4, <4>1, <4>2
      <4>4. t \in Tokens(e)
        BY <3>1, <3>3, <3>5, <4>3 DEF Tokens
      <4>5. QED
        BY <1>1, <3>2, <3>5, <4>4
    <3>6. CASE t[1] \in Consumers \ {c}
      <4>1. Ahead(t[1], t[2])
        BY <1>1, <1>5, <3>1, <3>6
      <4>2. t \in Tokens(e)
        BY <1>1, <3>1, <3>6, <4>1 DEF Tokens
      <4>3. QED
        BY <3>2, <3>6, <4>2
    <3>7. QED
      BY <3>2, <3>4, <3>5, <3>6
  <2>2. IsFiniteSet(Tokens(e))
    BY TokensFinite
  <2>3. PICK S : S = Tokens(e)'
    OBVIOUS
  <2> HIDE DEF K
  <2>4. PICK T : T = Tokens(e)
    OBVIOUS
  <2>5. \A t \in S : t = <<t[1], t[2]>>
    BY <2>1, <2>3
  <2>6. \A t \in S : IF t[1] = c /\ t[2] \in K
                       THEN <<NoOne, t[2]>> \in T /\ <<NoOne, t[2]>> \notin S
                       ELSE t \in T
    BY <2>1, <2>3, <2>4
  <2>7. IsFiniteSet(S) /\ Cardinality(S) <= Cardinality(T)
    <3>1. IsFiniteSet(T)
      BY <2>2, <2>4
    <3>2. QED
      BY <3>1, <2>5, <2>6, Retagged, ZenonT(30)
  <2>8. QED
    BY <2>3, <2>4, <2>7
<1>7. faults' >= faults
  BY DEF TypeInv, OutboxTypes
<1>8. QED
  BY <1>6, <1>7, NoNewToken

LEMMA ReclaimTokens ==
    ASSUME TypeInv, TokensBound, NEW c \in Consumers, Reclaim(c)
    PROVE  TokensBound'
<1>1. /\ TypeInv'
      /\ UNCHANGED <<outbox_vars, stream, last, ledger, dead, handled, faults>>
      /\ DOMAIN pending' = DOMAIN pending
      /\ ToSet(consumer'[c].batch) \subseteq stale
      /\ \A m \in DOMAIN pending : IF m \in ToSet(consumer'[c].batch)
             THEN pending'[m] = [owner |-> c, count |-> pending[m].count + 1, idle |-> FALSE]
             ELSE pending'[m] = pending[m]
      /\ \A d \in Consumers : d # c => consumer'[d] = consumer[d]
  BY ReclaimTypes
<1>2. consumer[c].batch = <<>>
  BY DEF Reclaim, TypeInv, GroupTypes, BatchOK, Working
<1>3. stale \subseteq 1..last
  BY EntriesFinite
<1>4. ASSUME NEW m \in ToSet(consumer'[c].batch)
      PROVE  Free(m) /\ m \in 1..last' /\ m \in DOMAIN pending' /\ ~pending'[m].idle
  <2>1. m \in stale
    BY <1>1
  <2>2. Free(m) /\ m \in 1..last' /\ m \in DOMAIN pending
    BY <1>1, <1>3, <2>1 DEF stale, Free
  <2>3. pending'[m] = [owner |-> c, count |-> pending[m].count + 1, idle |-> FALSE]
    BY <1>1, <2>2
  <2>4. QED
    BY <1>1, <2>2, <2>3
<1>5. ASSUME NEW m \in DOMAIN stream \ ToSet(consumer'[c].batch)
      PROVE  /\ m \in 1..last' <=> m \in 1..last
             /\ m \in DOMAIN pending' <=> m \in DOMAIN pending
             /\ m \in DOMAIN pending => pending'[m].idle = pending[m].idle
  BY <1>1, <1>5
<1>6. QED
  BY <1>1, <1>2, <1>4, <1>5, GivenTokens

LEMMA ReadNewTokens ==
    ASSUME TypeInv, TokensBound, NEW c \in Consumers, ReadNew(c)
    PROVE  TokensBound'
<1>1. /\ TypeInv'
      /\ UNCHANGED <<outbox_vars, stream, ledger, dead, handled, faults>>
      /\ last <= last' /\ ToSet(consumer'[c].batch) = last + 1 .. last'
      /\ DOMAIN pending' = DOMAIN pending \cup (last + 1 .. last')
      /\ \A m \in DOMAIN pending' : IF m \in ToSet(consumer'[c].batch)
             THEN pending'[m] = [owner |-> c, count |-> 1, idle |-> FALSE]
             ELSE pending'[m] = pending[m]
      /\ \A d \in Consumers : d # c => consumer'[d] = consumer[d]
  BY ReadNewTypes
<1>2. consumer[c].batch = <<>>
  BY DEF ReadNew, TypeInv, GroupTypes, BatchOK, Working
<1>3. last \in Nat /\ last' \in Nat /\ DOMAIN stream \subseteq Nat
  BY <1>1 DEF TypeInv, GroupTypes, OutboxTypes
<1>4. ASSUME NEW m \in ToSet(consumer'[c].batch)
      PROVE  Free(m) /\ m \in 1..last' /\ m \in DOMAIN pending' /\ ~pending'[m].idle
  <2>1. m \in last + 1 .. last'
    BY <1>1
  <2>2. m \notin 1..last /\ m \in 1..last'
    BY <1>3, <2>1
  <2>3. m \in DOMAIN pending'
    BY <1>1, <2>1
  <2>4. pending'[m] = [owner |-> c, count |-> 1, idle |-> FALSE]
    BY <1>1, <2>3
  <2>5. QED
    BY <2>2, <2>3, <2>4 DEF Free
<1>5. ASSUME NEW m \in DOMAIN stream \ ToSet(consumer'[c].batch)
      PROVE  /\ m \in 1..last' <=> m \in 1..last
             /\ m \in DOMAIN pending' <=> m \in DOMAIN pending
             /\ m \in DOMAIN pending => pending'[m].idle = pending[m].idle
  <2>1. m \notin last + 1 .. last'
    BY <1>1, <1>5
  <2>2. m \in 1..last' <=> m \in 1..last
    BY <1>1, <1>3, <2>1
  <2>3. QED
    BY <1>1, <2>1, <2>2
<1>6. QED
  BY <1>1, <1>2, <1>4, <1>5, GivenTokens

(* A consumer that moves on within the head of its batch. *)
LEMMA MovedTokens ==
    ASSUME TypeInv, NEW c \in Consumers, UNCHANGED <<stream, last, pending>>,
           consumer'[c].at \in {"check", "handle"} => consumer[c].at \in {"check", "handle"},
           \A d \in Consumers : consumer'[d].batch = consumer[d].batch,
           \A d \in Consumers : d # c => consumer'[d] = consumer[d]
    PROVE  \A e : Tokens(e)' \subseteq Tokens(e)
<1>1. ASSUME NEW m PROVE Free(m)' => Free(m)
  BY DEF Free, Held
<1>2. ASSUME NEW d \in Consumers, NEW m PROVE Ahead(d, m)' => Ahead(d, m)
  BY DEF Ahead, Message
<1>3. QED
  BY <1>1, <1>2, TokensKept

LEMMA MoveTokens ==
    ASSUME TypeInv, TokensBound, NEW c \in Consumers,
           Check(c) \/ MarkProcessed(c) \/ DeadLetter(c)
    PROVE  TokensBound'
<1>1. /\ TypeInv' /\ UNCHANGED <<stream, last, pending, handled, faults>>
      /\ consumer'[c].at \in {"check", "handle"} => consumer[c].at \in {"check", "handle"}
      /\ \A d \in Consumers : consumer'[d].batch = consumer[d].batch
      /\ \A d \in Consumers : d # c => consumer'[d] = consumer[d]
  <2>1. CASE Check(c)
    BY <2>1, CheckTypes DEF Check
  <2>2. CASE MarkProcessed(c)
    BY <2>2, MarkProcessedTypes
  <2>3. CASE DeadLetter(c)
    BY <2>3, DeadLetterTypes
  <2>4. QED
    BY <2>1, <2>2, <2>3
<1>2. \A e : Tokens(e)' \subseteq Tokens(e)
  BY <1>1, MovedTokens
<1>3. ASSUME NEW e \in Events
      PROVE  IsFiniteSet(Tokens(e)') /\ Cardinality(Tokens(e)') <= Cardinality(Tokens(e))
  BY <1>2, TokensFinite, NoMore
<1>4. faults' >= faults
  BY <1>1 DEF TypeInv, OutboxTypes
<1>5. QED
  BY <1>1, <1>3, <1>4, NoNewToken

(* The handler uses up the token of the message it is given. *)
LEMMA HandleTokens ==
    ASSUME TypeInv, TokensBound, NEW c \in Consumers, Handle(c)
    PROVE  TokensBound'
<1>1. /\ TypeInv'
      /\ UNCHANGED <<outbox_vars, stream, last, pending, ledger, dead, faults>>
      /\ consumer'[c].at = "mark" /\ Event(c) \in Events
      /\ handled' = [handled EXCEPT ![Event(c)] = handled[Event(c)] + 1]
      /\ \A d \in Consumers : consumer'[d].batch = consumer[d].batch
      /\ \A d \in Consumers : d # c => consumer'[d] = consumer[d]
  BY HandleTypes
<1>2. PICK used : used = <<c, Message(c)>>
  OBVIOUS
<1>3. NoOne # c
  BY DeliveryAssumption
<1>4. used \in Tokens(Event(c))
  <2>1. consumer[c].at = "handle" /\ consumer[c].at \in Working
    BY DEF Handle, Working
  <2>2. Message(c) \in DOMAIN stream /\ Message(c) \in ToSet(consumer[c].batch)
    BY <2>1, Current
  <2>3. Ahead(c, Message(c))
    BY <2>1, <2>2 DEF Ahead
  <2>4. <<c, Message(c)>> \in (Consumers \cup {NoOne}) \X DOMAIN stream
    BY <2>2
  <2>5. QED
    BY <1>2, <1>3, <2>3, <2>4 DEF Tokens, Event
<1>5. \A e : used \notin Tokens(e)'
  <2>1. Message(c)' = Message(c)
    BY <1>1 DEF Message
  <2>2. ~Ahead(c, Message(c))'
    BY <1>1, <2>1 DEF Ahead
  <2>3. PICK m : m = Message(c)
    OBVIOUS
  <2>4. ~Ahead(c, m)'
    BY <2>1, <2>2, <2>3 DEF Ahead
  <2>5. QED
    BY <1>2, <1>3, <2>3, <2>4 DEF Tokens
<1>6. \A e : Tokens(e)' \subseteq Tokens(e)
  BY <1>1, MovedTokens
<1>7. faults \in Nat /\ handled \in [Events -> Nat] /\ handled' \in [Events -> Nat]
  BY <1>1 DEF TypeInv, OutboxTypes, GroupTypes
<1>8. ASSUME NEW e \in Events
      PROVE  handled'[e] + Cardinality(Tokens(e)') <= Copies(e)' + faults'
  <2>1. handled[e] + Cardinality(Tokens(e)) <= Copies(e) + faults
    BY DEF TokensBound
  <2>2. /\ Copies(e)' = Copies(e) /\ Copies(e) \in Nat
        /\ Cardinality(Tokens(e)) \in Nat /\ IsFiniteSet(Tokens(e))
    BY <1>1, TokensFinite DEF Copies
  <2>3. handled[e] \in Nat /\ handled'[e] \in Nat /\ faults' = faults
    BY <1>1, <1>7
  <2>4. CASE e = Event(c)
    <3>1. Tokens(e)' \subseteq Tokens(e) \ {used} /\ used \in Tokens(e)
      BY <1>4, <1>5, <1>6, <2>4
    <3>2. IsFiniteSet(Tokens(e) \ {used}) /\ Cardinality(Tokens(e) \ {used}) = Cardinality(Tokens(e)) - 1
      BY <2>2, <3>1, FS_RemoveElement
    <3>3. /\ Cardinality(Tokens(e)') \in Nat
          /\ Cardinality(Tokens(e)') <= Cardinality(Tokens(e) \ {used})
      BY <3>1, <3>2, NoMore
    <3>4. handled'[e] = handled[e] + 1
      BY <1>1, <1>7, <2>4
    <3>5. QED
      BY <1>7, <2>1, <2>2, <2>3, <3>2, <3>3, <3>4
  <2>5. CASE e # Event(c)
    <3>1. Cardinality(Tokens(e)') \in Nat /\ Cardinality(Tokens(e)') <= Cardinality(Tokens(e))
      BY <1>6, <2>2, NoMore
    <3>2. handled'[e] = handled[e]
      BY <1>1, <1>7, <2>5
    <3>3. QED
      BY <1>7, <2>1, <2>2, <2>3, <3>1, <3>2
  <2>6. QED
    BY <2>4, <2>5
<1>9. QED
  BY <1>8 DEF TokensBound

(* A consumer that is done with the head of its batch lets go of it. *)
LEMMA FinishedTokens ==
    ASSUME TypeInv, NEW c \in Consumers, consumer[c].at \in Working,
           consumer'[c].at \in {"check", "reclaim"},
           consumer'[c].batch = Tail(consumer[c].batch),
           \A d \in Consumers : d # c => consumer'[d] = consumer[d]
    PROVE  /\ \A d \in Consumers, m \in DOMAIN stream : Ahead(d, m)' => Ahead(d, m)
           /\ \A m \in DOMAIN stream : m # Message(c) => (Held(m)' <=> Held(m))
<1>1. ToSet(consumer'[c].batch) = ToSet(consumer[c].batch) \ {Message(c)}
  BY BatchTail
<1>2. ASSUME NEW d \in Consumers, NEW m \in DOMAIN stream, Ahead(d, m)' PROVE Ahead(d, m)
  <2>1. CASE d = c
    BY <1>1, <1>2, <2>1 DEF Ahead
  <2>2. CASE d # c
    BY <1>2, <2>2 DEF Ahead, Message
  <2>3. QED
    BY <2>1, <2>2
<1>3. ASSUME NEW m \in DOMAIN stream, m # Message(c) PROVE Held(m)' <=> Held(m)
  <2>1. ASSUME NEW d \in Consumers
        PROVE  m \in ToSet(consumer'[d].batch) <=> m \in ToSet(consumer[d].batch)
    BY <1>1, <1>3
  <2>2. QED
    BY <2>1 DEF Held
<1>4. QED
  BY <1>2, <1>3

LEMMA HandlerFailsTokens ==
    ASSUME TypeInv, TokensBound, NEW c \in Consumers, HandlerFails(c)
    PROVE  TokensBound'
<1>1. /\ TypeInv'
      /\ UNCHANGED <<outbox_vars, stream, last, pending, ledger, dead, handled>>
      /\ \/ /\ consumer'[c].at \in {"check", "reclaim"}
            /\ consumer'[c].batch = Tail(consumer[c].batch)
         \/ /\ consumer'[c].at = "dead_letter"
            /\ consumer'[c].batch = consumer[c].batch
      /\ faults' = faults + 1
      /\ \A d \in Consumers : d # c => consumer'[d] = consumer[d]
  BY HandlerFailsTypes
<1>2. PICK x : x = Message(c)
  OBVIOUS
<1>3. ASSUME NEW e PROVE Tokens(e)' \subseteq Tokens(e) \cup {<<NoOne, x>>}
  <2>1. CASE consumer'[c].at = "dead_letter" /\ consumer'[c].batch = consumer[c].batch
    <3>1. \A d \in Consumers : consumer'[d].batch = consumer[d].batch
      BY <1>1, <2>1
    <3>2. Tokens(e)' \subseteq Tokens(e)
      BY <1>1, <2>1, <3>1, MovedTokens
    <3>3. QED
      BY <3>2
  <2>2. CASE /\ consumer'[c].at \in {"check", "reclaim"}
             /\ consumer'[c].batch = Tail(consumer[c].batch)
    <3>1. consumer[c].at \in Working
      BY DEF HandlerFails, Working
    <3>2. /\ \A d \in Consumers, m \in DOMAIN stream : Ahead(d, m)' => Ahead(d, m)
          /\ \A m \in DOMAIN stream : m # x => (Held(m)' <=> Held(m))
      BY <1>1, <1>2, <2>2, <3>1, FinishedTokens
    <3>3. \A m \in DOMAIN stream : Free(m)' => Free(m) \/ m = x
      BY <1>1, <3>2 DEF Free
    <3>4. QED
      BY <1>1, <3>2, <3>3, TokensFrom
  <2>3. QED
    BY <1>1, <2>1, <2>2
<1>4. ASSUME NEW e \in Events
      PROVE  IsFiniteSet(Tokens(e)') /\ Cardinality(Tokens(e)') <= Cardinality(Tokens(e)) + 1
  BY <1>3, TokensFinite, OneMore
<1>5. QED
  BY <1>1, <1>4, FaultPays

(* XACK: the entry is no longer pending, so no one is given it again. *)
LEMMA AckTokens ==
    ASSUME TypeInv, TokensBound, NEW c \in Consumers, Ack(c)
    PROVE  TokensBound'
<1>1. /\ TypeInv'
      /\ UNCHANGED <<outbox_vars, stream, last, ledger, dead, handled, faults>>
      /\ pending' = [m \in DOMAIN pending \ {Message(c)} |-> pending[m]]
      /\ consumer'[c].at \in {"check", "reclaim"}
      /\ consumer'[c].batch = Tail(consumer[c].batch)
      /\ \A d \in Consumers : d # c => consumer'[d] = consumer[d]
  BY AckTypes
<1>2. consumer[c].at \in Working
  BY DEF Ack, Working
<1>3. PICK x : x = Message(c)
  OBVIOUS
<1>4. /\ \A d \in Consumers, m \in DOMAIN stream : Ahead(d, m)' => Ahead(d, m)
      /\ \A m \in DOMAIN stream : m # x => (Held(m)' <=> Held(m))
      /\ x \in 1..last
  BY <1>1, <1>2, <1>3, FinishedTokens, Current
<1>5. ASSUME NEW m \in DOMAIN stream, Free(m)' PROVE Free(m)
  <2>1. DOMAIN pending' = DOMAIN pending \ {x} /\ \A n \in DOMAIN pending' : pending'[n] = pending[n]
    BY <1>1, <1>3
  <2>2. CASE m = x
    BY <1>1, <1>4, <1>5, <2>1, <2>2 DEF Free
  <2>3. CASE m # x
    BY <1>1, <1>4, <1>5, <2>1, <2>3 DEF Free
  <2>4. QED
    BY <2>2, <2>3
<1>6. ASSUME NEW e \in Events
      PROVE  IsFiniteSet(Tokens(e)') /\ Cardinality(Tokens(e)') <= Cardinality(Tokens(e))
  <2>1. Tokens(e)' \subseteq Tokens(e)
    BY <1>1, <1>4, <1>5, TokensKept
  <2>2. QED
    BY <2>1, TokensFinite, NoMore
<1>7. faults' >= faults
  BY <1>1 DEF TypeInv, OutboxTypes
<1>8. QED
  BY <1>1, <1>6, <1>7, NoNewToken

(* An entry in a consumer's batch grows stale only through a fault; one    *)
(* nobody holds had its token already.                                     *)
LEMMA GrowStaleTokens ==
    ASSUME TypeInv, TokensBound, NEW m \in DOMAIN pending, GrowStale(m)
    PROVE  TokensBound'
<1>1. /\ TypeInv'
      /\ UNCHANGED <<outbox_vars, stream, last, consumer, ledger, dead, handled>>
      /\ DOMAIN pending' = DOMAIN pending
      /\ \A n \in DOMAIN pending : n # m => pending'[n] = pending[n]
      /\ IF Held(m) THEN faults' = faults + 1 ELSE faults' = faults
  BY GrowStaleTypes
<1>2. ASSUME NEW d \in Consumers, NEW n PROVE Ahead(d, n)' => Ahead(d, n)
  BY <1>1 DEF Ahead, Message
<1>3. ASSUME NEW n PROVE Held(n)' <=> Held(n)
  BY <1>1 DEF Held
<1>4. ASSUME NEW n \in DOMAIN stream, n # m PROVE Free(n)' => Free(n)
  BY <1>1, <1>3, <1>4 DEF Free
<1>5. CASE Held(m)
  <2>1. ASSUME NEW e \in Events
        PROVE  IsFiniteSet(Tokens(e)') /\ Cardinality(Tokens(e)') <= Cardinality(Tokens(e)) + 1
    <3>1. Tokens(e)' \subseteq Tokens(e) \cup {<<NoOne, m>>}
      BY <1>1, <1>2, <1>4, TokensFrom
    <3>2. QED
      BY <3>1, TokensFinite, OneMore
  <2>2. QED
    BY <1>1, <1>5, <2>1, FaultPays
<1>6. CASE ~Held(m)
  <2>1. Free(m)
    BY <1>6 DEF Free
  <2>2. ASSUME NEW e \in Events
        PROVE  IsFiniteSet(Tokens(e)') /\ Cardinality(Tokens(e)') <= Cardinality(Tokens(e))
    <3>1. Tokens(e)' \subseteq Tokens(e)
      BY <1>1, <1>2, <1>4, <2>1, TokensKept
    <3>2. QED
      BY <3>1, TokensFinite, NoMore
  <2>3. faults' >= faults
    BY <1>1, <1>6 DEF TypeInv, OutboxTypes
  <2>4. QED
    BY <1>1, <2>2, <2>3, NoNewToken
<1>7. QED
  BY <1>5, <1>6

(* What a lost consumer had not handled is free again; the fault pays for  *)
(* the message it may have handled and not acknowledged.                   *)
LEMMA ConsumerCrashTokens ==
    ASSUME TypeInv, TokensBound, NEW c \in Consumers, ConsumerCrash(c)
    PROVE  TokensBound'
<1>1. /\ TypeInv'
      /\ UNCHANGED <<outbox_vars, stream, last, ledger, dead, handled>>
      /\ DOMAIN pending' = DOMAIN pending
      /\ \A m \in DOMAIN pending : pending'[m].idle = pending[m].idle
      /\ consumer'[c] = NewConsumer
      /\ faults' = faults + 1
      /\ \A d \in Consumers : d # c => consumer'[d] = consumer[d]
  BY ConsumerCrashTypes
<1> DEFINE K == ToSet(consumer[c].batch)
<1>2. NoOne # c /\ NoOne \notin Consumers
  BY DeliveryAssumption
<1>3. PICK x : x = <<NoOne, Message(c)>>
  OBVIOUS
<1>4. ASSUME NEW m PROVE ~Ahead(c, m)'
  <2>1. ToSet(<<>>) = {}
    BY DEF ToSet
  <2>2. consumer'[c].batch = <<>>
    BY <1>1 DEF NewConsumer
  <2>3. QED
    BY <2>1, <2>2 DEF Ahead
<1>5. ASSUME NEW d \in Consumers, d # c, NEW m PROVE Ahead(d, m)' => Ahead(d, m)
  BY <1>1, <1>5 DEF Ahead, Message
<1>6. ASSUME NEW m, m \notin K, Free(m)' PROVE Free(m)
  <2>1. Held(m) => Held(m)'
    <3>1. ASSUME NEW d \in Consumers, m \in ToSet(consumer[d].batch)
          PROVE  m \in ToSet(consumer'[d].batch)
      BY <1>1, <1>6, <3>1
    <3>2. QED
      BY <3>1 DEF Held
  <2>2. QED
    BY <1>1, <1>6, <2>1 DEF Free
<1>7. ASSUME NEW m \in K, m # Message(c) PROVE Ahead(c, m)
  BY <1>7 DEF Ahead
<1>8. ASSUME NEW e \in Events
      PROVE  IsFiniteSet(Tokens(e)') /\ Cardinality(Tokens(e)') <= Cardinality(Tokens(e)) + 1
  <2>1. PICK S : S = Tokens(e)' \ {x}
    OBVIOUS
  <2>2. PICK T : T = Tokens(e)
    OBVIOUS
  <2>3. ASSUME NEW t \in S
        PROVE  /\ t = <<t[1], t[2]>>
               /\ IF t[1] = NoOne /\ t[2] \in K
                    THEN <<c, t[2]>> \in T /\ <<c, t[2]>> \notin S
                    ELSE t \in T
    <3>1. /\ t \in (Consumers \cup {NoOne}) \X DOMAIN stream /\ stream[t[2]] = e
          /\ IF t[1] = NoOne THEN Free(t[2])' ELSE Ahead(t[1], t[2])'
          /\ t # x
      BY <1>1, <2>1, <2>3 DEF Tokens
    <3>2. /\ t = <<t[1], t[2]>>
          /\ t[1] \in Consumers \cup {NoOne} /\ t[2] \in DOMAIN stream
      BY <3>1
    <3>3. PICK m \in DOMAIN stream : m = t[2]
      BY <3>2
    <3>4. CASE t[1] = NoOne /\ m \in K
      <4>1. m # Message(c)
        BY <1>3, <3>1, <3>2, <3>3, <3>4
      <4>2. Ahead(c, m)
        BY <1>7, <3>4, <4>1
      <4>3. <<c, m>> \in (Consumers \cup {NoOne}) \X DOMAIN stream /\ stream[m] = e
        BY <3>1, <3>3
      <4>4. <<c, m>> \in T
        BY <1>2, <2>2, <4>2, <4>3 DEF Tokens
      <4>5. <<c, m>> \notin S
        BY <1>2, <1>4, <2>1 DEF Tokens
      <4>6. QED
        BY <3>2, <3>3, <3>4, <4>4, <4>5
    <3>5. CASE t[1] = NoOne /\ m \notin K
      <4>1. Free(m)
        BY <1>6, <3>1, <3>3, <3>5
      <4>2. t \in T
        BY <2>2, <3>1, <3>3, <3>5, <4>1 DEF Tokens
      <4>3. QED
        BY <3>2, <3>3, <3>5, <4>2
    <3>6. CASE t[1] # NoOne
      <4>1. t[1] \in Consumers /\ t[1] # c
        BY <1>4, <3>1, <3>2, <3>6
      <4>2. Ahead(t[1], t[2])
        BY <1>5, <3>1, <3>6, <4>1
      <4>3. t \in T
        BY <2>2, <3>1, <3>6, <4>2 DEF Tokens
      <4>4. QED
        BY <3>2, <3>6, <4>3
    <3>7. QED
      BY <3>4, <3>5, <3>6
  <2> HIDE DEF K
  <2>4. IsFiniteSet(T)
    BY <2>2, TokensFinite
  <2>5. \A t \in S : t = <<t[1], t[2]>>
    BY <2>3
  <2>6. \A t \in S : IF t[1] = NoOne /\ t[2] \in K
                       THEN <<c, t[2]>> \in T /\ <<c, t[2]>> \notin S
                       ELSE t \in T
    BY <2>3
  <2>7. IsFiniteSet(S) /\ Cardinality(S) <= Cardinality(T)
    BY <2>4, <2>5, <2>6, Retagged, ZenonT(30)
  <2>8. Tokens(e)' \subseteq S \cup {x}
    BY <2>1
  <2>9. /\ IsFiniteSet(Tokens(e)') /\ Cardinality(Tokens(e)') <= Cardinality(S) + 1
        /\ Cardinality(S) \in Nat /\ Cardinality(Tokens(e)') \in Nat
    BY <2>7, <2>8, OneMore
  <2>10. Cardinality(T) \in Nat
    BY <2>4, FS_CardinalityType
  <2>11. QED
    BY <2>2, <2>7, <2>9, <2>10
<1>9. QED
  BY <1>1, <1>8, FaultPays

LEMMA TokensStep == TypeInv /\ TokensBound /\ [Next]_vars => TokensBound'
<1> SUFFICES ASSUME TypeInv, TokensBound, [Next]_vars PROVE TokensBound'
  OBVIOUS
<1>1. faults \in Nat /\ TypeInv'
  BY TypeStep DEF TypeInv, OutboxTypes
<1>2. CASE UNCHANGED vars
  BY <1>1, <1>2, QuietTokens DEF vars
<1>3. ASSUME NEW e \in Events, Commit(e) PROVE TokensBound'
  BY <1>1, <1>3, QuietTokens DEF Commit
<1>4. ASSUME NEW r \in Relays, RelayStep(r) \/ PublishFails(r) \/ RelayCrash(r)
      PROVE  TokensBound'
  BY <1>4, RelayTokens
<1>5. ASSUME NEW c \in Consumers, ConsumerStep(c) \/ HandlerFails(c) \/ ConsumerCrash(c)
      PROVE  TokensBound'
  BY <1>5, ReclaimTokens, ReadNewTokens, MoveTokens, HandleTokens, AckTokens,
     HandlerFailsTokens, ConsumerCrashTokens DEF ConsumerStep
<1>6. ASSUME NEW m \in DOMAIN pending, GrowStale(m) PROVE TokensBound'
  BY <1>6, GrowStaleTokens
<1>7. QED
  BY <1>2, <1>3, <1>4, <1>5, <1>6 DEF Next

LEMMA TokensInductive == Spec => [](TypeInv /\ TokensBound)
<1>1. Init => TypeInv /\ TokensBound
  <2>1. SUFFICES ASSUME Init PROVE TokensBound
    BY TypeInit
  <2>2. stream = <<>> /\ DOMAIN stream = {} /\ faults = 0 /\ handled = [e \in Events |-> 0]
    BY <2>1 DEF Init
  <2>3. ASSUME NEW e \in Events
        PROVE  handled[e] + Cardinality(Tokens(e)) <= Copies(e) + faults
    <3>1. Tokens(e) = {}
      BY <2>2 DEF Tokens
    <3>2. {m \in DOMAIN stream : stream[m] = e} = {}
      BY <2>2
    <3>3. Cardinality(Tokens(e)) = 0 /\ Copies(e) = 0
      BY <3>1, <3>2, FS_EmptySet DEF Copies
    <3>4. QED
      BY <2>2, <3>3
  <2>4. QED
    BY <2>3 DEF TokensBound
<1>2. TypeInv /\ TokensBound /\ [Next]_vars => (TypeInv /\ TokensBound)'
  BY TokensStep, TypeStep
<1>3. QED
  BY <1>1, <1>2, PTL DEF Spec

(* A handler runs for an event at most once per copy on the stream and     *)
(* once more per fault, whatever the batch sizes and the number of         *)
(* consumers that take messages from one another.                          *)
THEOREM DuplicatesBounded == Spec => []DuplicatesAreBounded
<1>1. TypeInv /\ TokensBound => DuplicatesAreBounded
  <2>1. SUFFICES ASSUME TypeInv, TokensBound, NEW e \in Events
                 PROVE  handled[e] <= Copies(e) + faults
    BY DEF DuplicatesAreBounded
  <2>2. /\ handled[e] \in Nat /\ faults \in Nat
        /\ handled[e] + Cardinality(Tokens(e)) <= Copies(e) + faults
    BY <2>1 DEF TypeInv, GroupTypes, OutboxTypes, TokensBound
  <2>3. Cardinality(Tokens(e)) \in Nat /\ Copies(e) \in Nat
    BY <2>1, TokensFinite
  <2>4. QED
    BY <2>2, <2>3
<1>2. QED
  BY <1>1, TokensInductive, PTL

=============================================================================
