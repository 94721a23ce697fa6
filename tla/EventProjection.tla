--------------------------- MODULE EventProjection ---------------------------
(***************************************************************************)
(* The way of an event from a producer through Kafka into Redis.  Events   *)
(* with a handler have random keys, so those of one workflow are spread    *)
(* over partitions; the members of the consumer group handle a message and *)
(* commit its offset later, and a message whose handler fails goes to the  *)
(* dead-letter topic.  Members crash, are evicted while a handler goes on, *)
(* and hand their partitions over at the committed offset, or where there  *)
(* is none yet at the end of the log.                                      *)
(***************************************************************************)
EXTENDS Integers, Sequences, FiniteSets

CONSTANTS
    Members,     \* replicas of the event consumer
    Partitions,  \* of the topics, taken together
    Fresh,       \* those in which the group has never committed an offset
    Producers,   \* each publishes its script in order
    Script,      \* [Producers -> Seq(Kinds)]
    MaxRetries,  \* KAFKA_DLQ_MAX_RETRIES
    MaxRepeats,  \* bound: sends that were acknowledged too late and repeated
    MaxFaults,   \* bound: crashes and evictions of members
    None

\* The events by what their handler does with them.  The loan workflow publishes
\* POLICY_EVALUATED and AI_DECISION_MADE too, with payloads of its own in which
\* the handlers for these types miss what they read.
Kinds == {"submitted", "step", "completed", "evaluated", "made", "audit",
          "workflow_evaluated", "workflow_made", "unknown"}

ASSUME MembersAssumption == Members # {} /\ None \notin Members
ASSUME PartitionsAssumption == Partitions # {} /\ Fresh \subseteq Partitions
ASSUME ScriptAssumption == Script \in [Producers -> Seq(Kinds)]
ASSUME BoundsAssumption == MaxRetries \in Nat /\ MaxRepeats \in Nat /\ MaxFaults \in Nat

VARIABLES
    sent,       \* how much of its script each producer has published
    log,        \* the messages of each partition, with their x-retry-count
    committed,  \* the group's offset in each partition: the messages settled
    position,   \* how far its owner has come in a partition, in memory
    owner,      \* the member a partition is assigned to
    hand,       \* the message each member is handling, and what is left to write
    redis,      \* the message each cached status comes from, and whether it came late
    written,    \* the commands Redis and the audit service executed, by message
    dead,       \* the dead-letter topics
    gaveUp,     \* messages logged as dropped or as lost on the way there
    skipped,    \* history: messages a new owner started behind
    repeats, faults
vars == <<sent, log, committed, position, owner, hand, redis, written, dead, gaveUp, skipped,
          repeats, faults>>
kafka == <<sent, log, repeats>>
group == <<owner, skipped, faults>>

Cached == {"state", "loan"}

\* The writes of a handler, in order: expire and ltrim go with the command before.
Writes(kind) ==
    CASE kind = "submitted" -> <<"loan">>
      [] kind = "step"      -> <<"state">>
      [] kind = "completed" -> <<"state", "loan">>
      [] kind = "evaluated" -> <<"audit">>
      [] kind = "made"      -> <<"scores", "confidences">>
      [] OTHER              -> << >>

\* payload.violations is undefined; zadd refuses a score that is not a number.
Throws(kind) == kind \in {"workflow_evaluated", "workflow_made"}

At(place) == log[place[1]][place[2]]
Idle == [place |-> None, todo |-> << >>, failed |-> FALSE]

\* Any assignment of the partitions, up to the names of the members.
Assignments ==
    {o \in [Partitions -> Members] : o[CHOOSE p \in Partitions : TRUE] = CHOOSE m \in Members : TRUE}

Init ==
    /\ sent = [s \in Producers |-> 0]
    /\ log = [p \in Partitions |-> << >>]
    /\ committed = [p \in Partitions |-> 0]
    /\ position = [p \in Partitions |-> 0]
    /\ owner \in Assignments
    /\ hand = [m \in Members |-> Idle]
    /\ redis = [key \in Cached |-> None]
    /\ written = {} /\ dead = {} /\ gaveUp = {} /\ skipped = {}
    /\ repeats = 0 /\ faults = 0

-----------------------------------------------------------------------------
(* Producers.                                                               *)

Appended(p, message) == log' = [log EXCEPT ![p] = Append(@, message)]

\* Only the decision service gives a key, to events no handler takes; a random
\* one picks the partition.
Publish(s) ==
    /\ sent[s] < Len(Script[s])
    /\ sent' = [sent EXCEPT ![s] = @ + 1]
    /\ \E p \in Partitions : Appended(p, [kind |-> Script[s][sent[s] + 1], retries |-> 0])
    /\ UNCHANGED <<committed, position, hand, redis, written, dead, gaveUp, repeats, group>>

\* The producers are not idempotent: the client repeats a send without an answer.
Resend(p) ==
    /\ repeats < MaxRepeats
    /\ repeats' = repeats + 1
    /\ \E i \in DOMAIN log[p] : Appended(p, log[p][i])
    /\ UNCHANGED <<sent, committed, position, hand, redis, written, dead, gaveUp, group>>

\* Somebody puts a dead letter back into its topic, with its key and its
\* count of retries.
Replay(letter) ==
    /\ repeats < MaxRepeats /\ ~letter.replayed
    /\ repeats' = repeats + 1
    /\ dead' = (dead \ {letter}) \cup {[letter EXCEPT !.replayed = TRUE]}
    /\ Appended(letter.place[1], [kind |-> At(letter.place).kind, retries |-> letter.retries])
    /\ UNCHANGED <<sent, committed, position, hand, redis, written, gaveUp, group>>

-----------------------------------------------------------------------------
(* eachMessage: one message at a time and member.                           *)

Receive(m, p) ==
    /\ owner[p] = m /\ hand[m] = Idle
    /\ position[p] < Len(log[p])
    /\ LET place == <<p, position[p] + 1>>
       IN  hand' = [hand EXCEPT ![m] = [place  |-> place,
                                        todo   |-> Writes(At(place).kind),
                                        failed |-> Throws(At(place).kind)]]
    /\ UNCHANGED <<committed, position, redis, written, dead, gaveUp, kafka, group>>

\* The status a member caches (for one hour up to a day: that an entry expires and
\* shows nothing is left out), late if its partition is another's by now.
Shown(m) == [place |-> hand[m].place, late |-> owner[hand[m].place[1]] # m]

\* Mutant: a failed command is logged and the handler goes on.
WriteSwallows(m) ==
    /\ hand[m].todo # << >> /\ ~hand[m].failed
    /\ hand' = [hand EXCEPT ![m].todo = Tail(@)]
    /\ LET key == Head(hand[m].todo)
           apply == /\ written' = written \cup {<<hand[m].place, key>>}
                    /\ redis' = IF key \in Cached THEN [redis EXCEPT ![key] = Shown(m)]
                                ELSE redis
       IN  apply \/ UNCHANGED <<redis, written>>
    /\ UNCHANGED <<committed, position, dead, gaveUp, kafka, group>>
\* A command that fails may have been executed; the audit record is given up
\* silently (handlePolicyEvent catches its error).
Write(m) ==
    /\ hand[m].todo # << >> /\ ~hand[m].failed
    /\ LET key == Head(hand[m].todo)
           apply == /\ written' = written \cup {<<hand[m].place, key>>}
                    /\ redis' = IF key \in Cached THEN [redis EXCEPT ![key] = Shown(m)]
                                ELSE redis
           next == hand' = [hand EXCEPT ![m].todo = Tail(@)]
           fail == hand' = [hand EXCEPT ![m].failed = TRUE]
       IN  \/ apply /\ next
           \/ apply /\ key # "audit" /\ fail
           \/ UNCHANGED <<redis, written>> /\ IF key = "audit" THEN next ELSE fail
    /\ UNCHANGED <<committed, position, dead, gaveUp, kafka, group>>

\* The message is done, for a member that still owns its partition.
Settle(m) ==
    LET place == hand[m].place
    IN  /\ hand' = [hand EXCEPT ![m] = Idle]
        /\ position' = IF owner[place[1]] = m THEN [position EXCEPT ![place[1]] = place[2]]
                       ELSE position

Done(m) ==
    /\ hand[m] # Idle /\ hand[m].todo = << >> /\ ~hand[m].failed
    /\ Settle(m)
    /\ UNCHANGED <<committed, redis, written, dead, gaveUp, kafka, group>>

\* Mutant: an error of the dead-letter topic is thrown on.
DeadLetterRethrows(m) ==
    /\ hand[m].failed /\ At(hand[m].place).retries < MaxRetries
    /\ \/ /\ dead' = dead \cup {[place |-> hand[m].place, retries |-> At(hand[m].place).retries + 1,
                                 replayed |-> FALSE]}
          /\ Settle(m)
       \/ /\ hand' = [hand EXCEPT ![m] = Idle]
          /\ UNCHANGED <<dead, position>>
    /\ UNCHANGED <<committed, redis, written, gaveUp, kafka, group>>
\* A failed message is sent to the dead-letter topic (again, if it was handled
\* before and not committed), dropped after MaxRetries, or lost.
DeadLetter(m) ==
    /\ hand[m].failed
    /\ LET place == hand[m].place
           retries == At(place).retries
       IN \/ /\ retries < MaxRetries
             /\ dead' = dead \cup {[place |-> place, retries |-> retries + 1, replayed |-> FALSE]}
             /\ UNCHANGED gaveUp
          \/ gaveUp' = gaveUp \cup {place} /\ UNCHANGED dead
    /\ Settle(m)
    /\ UNCHANGED <<committed, redis, written, kafka, group>>

-----------------------------------------------------------------------------
(* The consumer group.                                                      *)

\* Offsets are committed from time to time, by the owner of the partition, once it
\* has settled a message.
Commit(p) ==
    /\ committed[p] < position[p] /\ <<p, position[p]>> \notin skipped
    /\ committed' = [committed EXCEPT ![p] = position[p]]
    /\ UNCHANGED <<position, hand, redis, written, dead, gaveUp, kafka, group>>

\* subscribe says fromBeginning: false.
Unread(p) == p \in Fresh /\ committed[p] = 0

\* Mutant: a new owner starts from the beginning.
ResumeFromStart(lost) ==
    /\ position' = [p \in Partitions |-> IF p \in lost THEN 0 ELSE position[p]]
    /\ UNCHANGED skipped
\* A new owner goes on from the committed offset; without one, from the end.
Resume(lost) ==
    /\ position' = [p \in Partitions |-> IF p \notin lost THEN position[p]
                                         ELSE IF Unread(p) THEN Len(log[p]) ELSE committed[p]]
    /\ skipped' = skipped \cup UNION {{p} \X DOMAIN log[p] : p \in {q \in lost : Unread(q)}}

\* The partitions of a member go to members between two messages.
HandOver(m, heirs) ==
    LET lost == {p \in Partitions : owner[p] = m}
    IN  /\ faults < MaxFaults
        /\ faults' = faults + 1
        /\ \E heir \in [lost -> heirs] :
               owner' = [p \in Partitions |-> IF p \in lost THEN heir[p] ELSE owner[p]]
        /\ Resume(lost)

\* The process ends in the middle of a handler; it comes back, and may be given
\* its partitions again.
Crash(m) ==
    /\ HandOver(m, {m} \cup {n \in Members : hand[n] = Idle})
    /\ hand' = [hand EXCEPT ![m] = Idle]
    /\ UNCHANGED <<committed, redis, written, dead, gaveUp, kafka>>

\* A member is silent for the session timeout while its handler goes on; it joins
\* again when it is done.
Evict(m) ==
    /\ hand[m] # Idle
    /\ HandOver(m, {n \in Members : hand[n] = Idle})
    /\ UNCHANGED <<committed, hand, redis, written, dead, gaveUp, kafka>>

-----------------------------------------------------------------------------
Handle(m) == (\E p \in Partitions : Receive(m, p)) \/ Write(m) \/ Done(m) \/ DeadLetter(m)

Next ==
    \/ \E s \in Producers : Publish(s)
    \/ \E p \in Partitions : Resend(p) \/ Commit(p)
    \/ \E letter \in dead : Replay(letter)
    \/ \E m \in Members : Handle(m) \/ Crash(m) \/ Evict(m)

Spec == Init /\ [][Next]_vars

\* A running member polls, commands and publications end, offsets are committed
\* every few seconds; nobody has to publish or replay anything.
FairSpec ==
    /\ Spec
    /\ \A m \in Members : WF_vars(Handle(m))
    /\ \A p \in Partitions : WF_vars(Commit(p))

-----------------------------------------------------------------------------
(* Properties.                                                              *)

Logged == UNION {{p} \X DOMAIN log[p] : p \in Partitions}
Settled(place) == place[2] <= committed[place[1]]
Missed(place) == place \in gaveUp \cup skipped \/ \E letter \in dead : letter.place = place

\* Offsets, letters and cached statuses are those of logged messages, and a
\* member has in hand what is logged.
TypeOK ==
    /\ sent \in [Producers -> Nat] /\ repeats \in Nat /\ faults \in Nat
    /\ log \in [Partitions -> Seq([kind : Kinds, retries : 0 .. MaxRetries])]
    /\ owner \in [Partitions -> Members]
    /\ \A p \in Partitions : committed[p] \in 0 .. Len(log[p]) /\ position[p] \in 0 .. Len(log[p])
    /\ \A m \in Members : hand[m] = Idle \/ hand[m].place \in Logged
    /\ \A key \in Cached : redis[key] = None \/ redis[key].place \in Logged
    /\ \A w \in written : w[1] \in Logged
    /\ \A letter \in dead : letter.place \in Logged /\ letter.retries \in 1 .. MaxRetries
    /\ gaveUp \subseteq Logged /\ skipped \subseteq Logged

\* Whatever crashes, moves or fails: a message whose offset is committed left all
\* its writes, or a dead letter, or a log line saying that it was given up.  Without
\* a trace may be missing only the audit record of a policy event, and what was
\* logged in a partition before its first commit, when its owner was lost.
NothingVanishes ==
    \A place \in Logged : Settled(place) =>
       \/ Missed(place)
       \/ /\ ~Throws(At(place).kind)
          /\ \A i \in DOMAIN Writes(At(place).kind) :
                LET key == Writes(At(place).kind)[i] IN key = "audit" \/ <<place, key>> \in written

\* A cached status is never older than the last settled message of its partition
\* that bears on it, messages missed and a writer that had lost the partition aside.
\* (Between partitions nothing is ordered: the events of a workflow overwrite
\* each other as they come.)
ShownIsNotStale ==
    \A key \in Cached : (redis[key] # None /\ ~redis[key].late) =>
       LET p == redis[key].place[1]
       IN  \A j \in redis[key].place[2] + 1 .. committed[p] :
              (\E i \in DOMAIN Writes(log[p][j].kind) : Writes(log[p][j].kind)[i] = key)
                 => Missed(<<p, j>>)

\* A message that fails comes back with a higher count each time, at most
\* MaxRetries times, and then never again: no message circles between its topic
\* and the dead letters, and a letter is written only where a handler failed.
RetriesEnd ==
    /\ \A place \in Logged : At(place).retries <= MaxRetries
    /\ \A letter \in dead : /\ letter.retries = At(letter.place).retries + 1
                            /\ letter.retries <= MaxRetries
                            /\ Writes(At(letter.place).kind) # <<"audit">>

\* A message that fails does not block its partition: all that is logged is
\* settled or skipped, although members crash and the dead-letter topic may be down.
KeepsUp == []<>(\A place \in Logged : Settled(place) \/ place \in skipped)
=============================================================================
