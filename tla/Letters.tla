------------------------------ MODULE Letters ------------------------------
(* What a record carries on its way between brokers and subscriptions      *)
(* (src/dead_letter.rs and every adapter's dead_letter.rs, inherit.rs,      *)
(* convert.rs and prepare): a message is received, dead-lettered, received  *)
(* from the dead-letter queue, dead-lettered again or forwarded, while      *)
(* other tools may touch its headers on the way.                            *)
(*                                                                          *)
(* A header is [name, type, n, long]: n is the number its text spells, or   *)
(* NaN; long says whether it exceeds Pub/Sub's value limit. Names, payloads *)
(* and keys are drawn from small sets; the order of Kafka's headers and     *)
(* their repetition are kept. SQS packs every detail in one attribute, so   *)
(* that header also has the packed fields.                                  *)
EXTENDS Integers, FiniteSets, SequencesExt

CONSTANTS
  Platforms, MaxCount, MaxHops,
  PubSubAttributes,  \* MAX_ATTRIBUTES of a Pub/Sub message (100)
  SqsAttributes      \* attributes SQS accepts in a message (10)

VARIABLES
  platform,  \* the adapter whose records these are
  wire,      \* the message as the broker holds it, until it is received
  rec,       \* the record a subscription holds, until it is published
  stage,     \* "wire", "received", or "refused" by prepare or the broker
  hops,      \* messages published so far
  letter     \* what a dead letter must still say, for the properties

letterVars == <<platform, wire, rec, stage, hops, letter>>

NaN == -1

Details == {"subscription", "failure", "error", "attempts", "count"}
OriginNames(p) == CASE p \in {"kafka", "pulsar", "rabbitmq"} -> {"place", "id", "time"}
                    [] OTHER -> {"place", "id"}

(* DEAD_LETTER_HEADER_PREFIX: "note" is a name with the prefix that the     *)
(* library does not write, "details" is SQS's packed attribute.             *)
Prefixed(name) == name \in Details \cup {"place", "id", "time", "note", "details"}

Text(name, n, long) == [name |-> name, type |-> "string", n |-> n, long |-> long]

-----------------------------------------------------------------------------
(* Field values: what a wire type becomes when a record is built, "none"    *)
(* being left out, and what a record's type becomes when it is published.   *)

servicebus_from_amqp == [string |-> "string", symbol |-> "string", int |-> "int", binary |-> "none"]

rabbitmq_from_amqp == [short_string |-> "string", long_string |-> "string",
                       long_string_raw |-> "bytes", byte_array |-> "bytes", int |-> "int"]

rabbitmq_to_amqp == [string |-> "long_string", bytes |-> "byte_array", int |-> "int"]

(* The base type of a labelled SQS type decides. *)
attribute_from_sqs == [string |-> "string", string_label |-> "string",
                       number |-> "number", number_label |-> "number", custom |-> "none"]

FromWire(p) == CASE p = "servicebus" -> servicebus_from_amqp
                 [] p = "rabbitmq" -> rabbitmq_from_amqp
                 [] p = "sqs" -> attribute_from_sqs
                 [] p = "kafka" -> [string |-> "string", null |-> "null"]
                 [] OTHER -> [string |-> "string"]

(* The other adapters have a wire type for every type of a record. *)
ToWire(p, t) == IF p = "rabbitmq" THEN rabbitmq_to_amqp[t] ELSE t

FromHeaders(p, hs) ==
  LET typed == [i \in DOMAIN hs |-> [hs[i] EXCEPT !.type = FromWire(p)[@]]]
  IN  SelectSeq(typed, LAMBDA h : h.type # "none")

ToHeaders(p, hs) == [i \in DOMAIN hs |-> [hs[i] EXCEPT !.type = ToWire(p, @)]]

-----------------------------------------------------------------------------
(* Reading a dead letter. A lookup yields a header, Absent or Unreadable;   *)
(* a reading is [is, count, origin].                                        *)

Absent == [name |-> "absent"]
Unreadable == [name |-> "unreadable"]
NoDetails == [is |-> "none"]
Malformed == [is |-> "malformed"]

Named(hs, name) == SelectSeq(hs, LAMBDA h : h.name = name)

(* kafka header(): the last value; null or not UTF-8 is an error. The maps  *)
(* of the other adapters hold one value of a name.                          *)
header(hs, name) ==
  LET s == Named(hs, name)
  IN  CASE s = <<>> -> Absent
        [] s # <<>> /\ Last(s).type # "string" -> Unreadable
        [] OTHER -> Last(s)

Bad(h) == h \in {Absent, Unreadable}

(* parse_number: what is absent, unreadable or spells no number. *)
BadNumber(h) == IF Bad(h) THEN TRUE ELSE h.n = NaN

(* DeadLetterDetails::parse: None without a failure, Malformed when any     *)
(* other detail is missing or malformed (an unknown failure is NaN).        *)
parse(hs) ==
  LET failure == header(hs, "failure")
  IN  CASE failure = Absent -> NoDetails
        [] \/ BadNumber(failure)
           \/ \E n \in {"subscription", "error"} : Bad(header(hs, n))
           \/ \E n \in {"attempts", "count"} : BadNumber(header(hs, n)) -> Malformed
        [] OTHER -> [is |-> "letter", count |-> header(hs, "count").n]

OriginOf(hs, p) == [n \in OriginNames(p) |->
                      LET h == header(hs, n) IN IF h = Absent THEN NaN ELSE h.n]

(* A from_record, given the origin names it requires as text, as numbers,   *)
(* and as numbers if they are present.                                      *)
Read(hs, p, texts, numbers, optional) ==
  LET details == parse(hs)
  IN  CASE details \in {NoDetails, Malformed} -> details
        [] \/ \E n \in texts : Bad(header(hs, n))
           \/ \E n \in numbers : BadNumber(header(hs, n))
           \/ \E n \in optional : header(hs, n) # Absent /\ BadNumber(header(hs, n)) -> Malformed
        [] OTHER -> [is |-> "letter", count |-> details.count, origin |-> OriginOf(hs, p)]

kafka_from_record(r) == Read(r.headers, "kafka", {"place"}, {"id"}, {"time"})

servicebus_from_record(r) == Read(r.headers, "servicebus", {"place"}, {"id"}, {})

pulsar_from_record(r) == Read(r.headers, "pulsar", {"place"}, {"id", "time"}, {})

pubsub_from_record(r) == Read(r.headers, "pubsub", {"place", "id"}, {}, {})

rabbitmq_from_record(r) == Read(r.headers, "rabbitmq", {"place", "id", "time"}, {}, {})

(* The details attribute must be text that holds an object with a failure.  *)
sqs_from_record(r) ==
  LET h == header(r.headers, "details")
  IN  CASE h = Absent -> NoDetails
        [] h # Absent /\ BadNumber(h) -> Malformed
        [] OTHER -> LET d == Read(h.fields, "sqs", {"place", "id"}, {}, {})
                    IN  IF d = NoDetails THEN Malformed ELSE d

from_record(p, r) == CASE p = "kafka" -> kafka_from_record(r)
                       [] p = "servicebus" -> servicebus_from_record(r)
                       [] p = "pulsar" -> pulsar_from_record(r)
                       [] p = "pubsub" -> pubsub_from_record(r)
                       [] p = "rabbitmq" -> rabbitmq_from_record(r)
                       [] p = "sqs" -> sqs_from_record(r)

-----------------------------------------------------------------------------
(* Writing a dead letter. A published message is [value, key, partition,    *)
(* meta, headers]; a record also has the place it was received at. meta is  *)
(* Pulsar's event time, RabbitMQ's properties, Service Bus's time to live.  *)


(* DeadLetterDetails::of: one more than the previous count, saturating. *)
of(previous) == IF previous.is = "letter"
                THEN IF previous.count = MaxCount THEN MaxCount ELSE previous.count + 1
                ELSE 1

Origin(r, previous) == IF previous.is = "letter" THEN previous.origin ELSE r.at

(* details.fields() and the adapter's origin fields; an absent timestamp    *)
(* adds no header.                                                          *)
fields(count, origin, long) ==
  <<Text("subscription", 1, FALSE), Text("failure", 1, FALSE), Text("error", 1, long),
    Text("attempts", 1, FALSE), Text("count", count, FALSE)>>
  \o SetToSeq({Text(n, origin[n], FALSE) : n \in {m \in DOMAIN origin : origin[m] # NaN}})

Unprefixed(hs) == SelectSeq(hs, LAMBDA h : ~Prefixed(h.name))

(* The parts every from_dead_letter shares: the record's own headers,       *)
(* followed by the details.                                                 *)
Letter(r, long) ==
  LET previous == from_record(platform, r)
  IN  [value |-> r.value, key |-> r.key, partition |-> r.partition, meta |-> r.meta,
       headers |-> Unprefixed(r.headers) \o fields(of(previous), Origin(r, previous), long)]

kafka_from_dead_letter(r, long) == Letter(r, long)

(* The message ID, which no model state keeps, and the time to live are     *)
(* cleared.                                                                 *)
servicebus_from_dead_letter(r, long) == [Letter(r, long) EXCEPT !.meta = "none"]

pulsar_from_dead_letter(r, long) == Letter(r, long)

(* Every detail is cut to the limit of an attribute value. *)
pubsub_from_dead_letter(r, long) == Letter(r, FALSE)

(* The sink's routing key applies. *)
rabbitmq_from_dead_letter(r, long) == [Letter(r, long) EXCEPT !.key = "none"]

sqs_from_dead_letter(r, long) ==
  LET previous == from_record("sqs", r)
      packed == [name |-> "details", type |-> "string", n |-> 1, long |-> long,
                 fields |-> fields(of(previous), Origin(r, previous), long)]
  IN  [Letter(r, long) EXCEPT !.headers = Append(Unprefixed(r.headers), packed)]

from_dead_letter(r, long) ==
  CASE platform = "kafka" -> kafka_from_dead_letter(r, long)
    [] platform = "servicebus" -> servicebus_from_dead_letter(r, long)
    [] platform = "pulsar" -> pulsar_from_dead_letter(r, long)
    [] platform = "pubsub" -> pubsub_from_dead_letter(r, long)
    [] platform = "rabbitmq" -> rabbitmq_from_dead_letter(r, long)
    [] platform = "sqs" -> sqs_from_dead_letter(r, long)

-----------------------------------------------------------------------------
(* The inheritance middleware's post_handler: what an output takes over     *)
(* from the received record, on = [headers, key, meta] being its settings.  *)

(* Unprefixed names the output does not set itself. *)
Inherited(r, out) ==
  SelectSeq(r.headers, LAMBDA h : ~Prefixed(h.name) /\ Named(out.headers, h.name) = <<>>)

WithHeaders(on, r, out) ==
  IF on.headers THEN [out EXCEPT !.headers = Inherited(r, out) \o @] ELSE out

WithKey(on, r, out) ==
  IF on.key /\ out.key = "none" THEN [out EXCEPT !.key = r.key] ELSE out

WithMeta(on, r, out) ==
  IF on.meta /\ out.meta = "none" THEN [out EXCEPT !.meta = r.meta] ELSE out

kafka_inherit(on, r, out) == WithHeaders(on, r, WithKey(on, r, out))

(* The session, and with it a partition key that is not set. *)
servicebus_inherit(on, r, out) ==
  LET o == WithHeaders(on, r, out)
  IN  IF on.key /\ o.key = "none"
      THEN [o EXCEPT !.key = r.key, !.partition = IF @ = "none" THEN r.partition ELSE @]
      ELSE o

pulsar_inherit(on, r, out) == WithMeta(on, r, WithHeaders(on, r, WithKey(on, r, out)))

pubsub_inherit(on, r, out) == WithKey(on, r, WithHeaders(on, r, out))

rabbitmq_inherit(on, r, out) == WithMeta(on, r, WithHeaders(on, r, out))

sqs_inherit(on, r, out) == WithKey(on, r, WithHeaders(on, r, out))

post_handler(on, r, out) ==
  CASE platform = "kafka" -> kafka_inherit(on, r, out)
    [] platform = "servicebus" -> servicebus_inherit(on, r, out)
    [] platform = "pulsar" -> pulsar_inherit(on, r, out)
    [] platform = "pubsub" -> pubsub_inherit(on, r, out)
    [] platform = "rabbitmq" -> rabbitmq_inherit(on, r, out)
    [] platform = "sqs" -> sqs_inherit(on, r, out)

(* PropagateTombstones: a null value is forwarded by key alone, and         *)
(* rejected without one.                                                    *)
Tombstone(r) == [value |-> "null", key |-> r.key, partition |-> "none",
                 meta |-> "none", headers |-> <<>>]

-----------------------------------------------------------------------------
(* What a sink's prepare accepts; Kafka's, Pulsar's and RabbitMQ's refuse   *)
(* nothing once the value is encoded.                                       *)

(* message_to_amqp: a partition key must equal the session, and a time to   *)
(* live must be positive.                                                   *)
servicebus_prepares(out) ==
  /\ out.key # "none" /\ out.partition # "none" => out.key = out.partition
  /\ out.meta # "zero"

(* A limited number of attributes with values of limited length, and data   *)
(* or an attribute.                                                         *)
pubsub_prepares(out) ==
  /\ Len(out.headers) <= PubSubAttributes
  /\ \A i \in DOMAIN out.headers : ~out.headers[i].long
  /\ out.value = "empty" => out.headers # <<>>

(* A text body; a FIFO queue, where messages have keys, needs the group. *)
sqs_prepares(fifo, out) == out.value # "bytes" /\ (fifo => out.key # "none")

prepares(out) == CASE platform = "servicebus" -> servicebus_prepares(out)
                   [] platform = "pubsub" -> pubsub_prepares(out)
                   [] platform = "sqs" -> sqs_prepares(rec.key # "none", out)
                   [] OTHER -> TRUE

(* The sink leaves it to SQS to reject a message with too many attributes.  *)
Accepts(out) == platform = "sqs" => Len(out.headers) <= SqsAttributes

-----------------------------------------------------------------------------
(* The message's way. *)

NoLetter == [times |-> 0, origin |-> <<>>, record |-> <<>>, output |-> FALSE, set |-> <<>>]

Values(p) == CASE p \in {"kafka", "pulsar"} -> {"text", "null"}
               [] p = "sqs" -> {"text"}
               [] OTHER -> {"text", "empty"}
Keys(p) == IF p = "rabbitmq" THEN {"none"} ELSE {"none", "k"}
Metas(p) == IF p \in {"pulsar", "rabbitmq", "servicebus"} THEN {"none", "m"} ELSE {"none"}

AnyText(p) == ToWire(p, "string")
Own(type) == [name |-> "own", type |-> type, n |-> 5, long |-> FALSE]
Note(p) == [Own(AnyText(p)) EXCEPT !.name = "note"]

(* A producer's message: with one or two headers of its own, repeated on    *)
(* Kafka, or one under the dead-letter prefix.                              *)
Headers(p) ==
  LET own == Own(AnyText(p))
  IN  {<<>>, <<Note(p)>>, <<own, Note(p)>>, <<own, [own EXCEPT !.name = "other"]>>}
        \cup {<<Own(t)>> : t \in DOMAIN FromWire(p)}
              \cup (IF p = "kafka" THEN {<<Own("string"), Note(p), Own("null")>>} ELSE {})

Init ==
  /\ platform \in Platforms
  /\ \E value \in Values(platform), key \in Keys(platform), meta \in Metas(platform),
        headers \in Headers(platform) :
       /\ value = "empty" => platform # "pubsub" \/ headers # <<>>
       /\ wire = [value |-> value, key |-> key, meta |-> meta, headers |-> headers,
                  partition |-> IF platform = "servicebus" THEN key ELSE "none"]
  /\ rec = <<>> /\ stage = "wire" /\ hops = 0 /\ letter = NoLetter

(* Where this receipt finds the message: Kafka may have no timestamp. *)
Place == [n \in OriginNames(platform) |->
            IF n = "time" /\ platform = "kafka" /\ hops = 0 THEN NaN ELSE hops]

(* A source hands the message out as a record. *)
Receive ==
  /\ stage = "wire"
  /\ rec' = [value |-> wire.value, key |-> wire.key, partition |-> wire.partition,
             meta |-> wire.meta, headers |-> FromHeaders(platform, wire.headers), at |-> Place]
  /\ stage' = "received" /\ wire' = <<>>
  /\ UNCHANGED <<platform, hops, letter>>

Publish(out) ==
  /\ hops < MaxHops /\ hops' = hops + 1
  /\ \/ /\ prepares(out) /\ Accepts(out)
        /\ stage' = "wire" /\ wire' = [out EXCEPT !.headers = ToHeaders(platform, @)]
     \/ ~(prepares(out) /\ Accepts(out)) /\ stage' = "refused" /\ UNCHANGED wire
  /\ rec' = <<>>
  /\ UNCHANGED platform

(* The record fails and goes to the dead-letter sink, with a short or a     *)
(* long error. The first of a row of letters fixes what the next must keep. *)
DeadLettered(long) ==
  /\ stage = "received"
  /\ Publish(from_dead_letter(rec, long))
  /\ letter' = IF letter.times = 0
               THEN [NoLetter EXCEPT !.times = 1, !.origin = rec.at, !.record = rec]
               ELSE [letter EXCEPT !.times = @ + 1]

(* The handler succeeds, and its output, with or without a header of its    *)
(* own, inherits from the record.                                           *)
Forward(on, headers, meta) ==
  LET out == [value |-> "text", key |-> "none", partition |-> "none", meta |-> meta,
              headers |-> headers]
  IN  /\ stage = "received" /\ rec.value # "null"
      /\ Publish(post_handler(on, rec, out))
      /\ letter' = [NoLetter EXCEPT !.output = TRUE, !.set = headers]

ForwardTombstone ==
  /\ stage = "received" /\ rec.value = "null" /\ rec.key # "none"
  /\ Publish(Tombstone(rec)) /\ letter' = [NoLetter EXCEPT !.output = TRUE]

(* Required(p): the details without which a letter is malformed. Another    *)
(* tool drops one, or makes a number no number, and the history it told is  *)
(* lost; on Kafka it may also append a second value, which then counts.     *)
Required(p) == (IF p = "sqs" THEN {"details"} ELSE Details \cup OriginNames(p))
               \ (IF p = "kafka" THEN {"time"} ELSE {})
Numbers(p) == CASE p = "sqs" -> {"details"}
                [] p \in {"kafka", "servicebus"} -> {"failure", "attempts", "count", "id"}
                [] p = "pulsar" -> {"failure", "attempts", "count", "id", "time"}
                [] OTHER -> {"failure", "attempts", "count"}

Meddle ==
  /\ stage = "wire" /\ letter.times > 0
  /\ \/ \E n \in Required(platform) :
          wire' = [wire EXCEPT !.headers = SelectSeq(@, LAMBDA h : h.name # n)]
     \/ \E n \in Numbers(platform) :
          wire' = [wire EXCEPT !.headers = [i \in DOMAIN @ |->
                     IF @[i].name = n THEN [@[i] EXCEPT !.n = NaN] ELSE @[i]]]
     \/ /\ platform = "kafka"
        /\ wire' = [wire EXCEPT !.headers = Append(@, Text("count", NaN, FALSE))]
  /\ letter' = NoLetter
  /\ UNCHANGED <<platform, rec, stage, hops>>

Settings == {[headers |-> h, key |-> k, meta |-> k] : h, k \in BOOLEAN}

Next ==
  \/ Receive
  \/ \E long \in BOOLEAN : DeadLettered(long)
  \/ \E on \in Settings, headers \in {<<>>, <<Text("own", 6, FALSE)>>}, meta \in Metas(platform) :
       Forward(on, headers, meta)
  \/ ForwardTombstone
  \/ Meddle

Spec == Init /\ [][Next]_letterVars

-----------------------------------------------------------------------------
TypeOK ==
  /\ platform \in Platforms /\ stage \in {"wire", "received", "refused"}
  /\ hops \in 0..MaxHops /\ letter.times \in 0..MaxHops
  /\ rec # <<>> => from_record(platform, rec).is \in {"none", "malformed", "letter"}

Once(hs) == \A i, j \in DOMAIN hs : hs[i].name = hs[j].name /\ Prefixed(hs[i].name) => i = j

(* However often a payload is dead-lettered, read back from the dead-letter *)
(* queue and dead-lettered again, the letter says how often, saturating at  *)
(* the counter's limit, and where the payload was first received; its       *)
(* value, key and own headers are those of that first receipt, types and    *)
(* order included; and no detail of an earlier failure is left beside the   *)
(* last one's. A letter some other tool broke starts again from this        *)
(* receipt (from_dead_letter, DeadLetterDetails::of).                       *)
LetterTellsHistory ==
  stage = "received" /\ letter.times > 0 =>
    LET d == from_record(platform, rec)  first == letter.record
    IN  /\ d.is = "letter"
        /\ d.count = IF letter.times < MaxCount THEN letter.times ELSE MaxCount
        /\ d.origin = letter.origin
        /\ rec.value = first.value /\ rec.key = first.key /\ rec.partition = first.partition
        /\ platform # "servicebus" => rec.meta = first.meta
        /\ Unprefixed(rec.headers) = Unprefixed(first.headers)
        /\ Once(rec.headers)

(* A letter is refused only when the record it was first made of had no     *)
(* room for the details: they take one of SQS's 10 attributes (the doc of   *)
(* SqsPublish::from_dead_letter) and seven of Pub/Sub's 100. Every other    *)
(* record can be dead-lettered, whatever the error's length, and so can     *)
(* each of its letters however often it returns: the details replace those  *)
(* of the earlier failure instead of adding to them. A refused letter stops *)
(* the subscription over a failure it was told to route.                    *)
HasRoom(r) ==
  LET own == Len(Unprefixed(r.headers))
  IN  CASE platform = "pubsub" -> own + Cardinality(Details \cup OriginNames("pubsub")) <= PubSubAttributes
        [] platform = "sqs" -> own + 1 <= SqsAttributes
        [] OTHER -> TRUE

LettersArePublished ==
  stage = "refused" /\ letter.times > 0 => ~HasRoom(letter.record)

(* An output of a subscription on a dead-letter queue carries no failure    *)
(* details: it reads as a record that was never dead-lettered; and a header *)
(* the handler set itself is not overridden by an inherited one.            *)
OutputsStartAfresh ==
  stage = "wire" /\ letter.output =>
    \A i \in DOMAIN wire.headers :
      LET h == wire.headers[i]
      IN  ~Prefixed(h.name) /\ (Named(letter.set, h.name) # <<>> => h.n = Named(letter.set, h.name)[1].n)
=============================================================================
