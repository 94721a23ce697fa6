------------------------ MODULE EventProjection_proofs ------------------------
(* Proofs about EventProjection, for any members, partitions, producers and  *)
(* scripts, and any number of retries, repetitions and faults.               *)
EXTENDS EventProjection, TLAPS

Message == [kind : Kinds, retries : 0 .. MaxRetries]
Commands == {"loan", "state", "audit", "scores", "confidences"}
Among(x, s) == \E j \in DOMAIN s : s[j] = x
WritesAt(place) == Writes(At(place).kind)

Types ==
    /\ sent \in [Producers -> Nat] /\ repeats \in Nat /\ faults \in Nat
    /\ log \in [Partitions -> Seq(Message)]
    /\ owner \in [Partitions -> Members]
    /\ committed \in [Partitions -> Nat] /\ position \in [Partitions -> Nat]
    /\ DOMAIN hand = Members /\ DOMAIN redis = Cached
    /\ \A w \in written : w[1] \in Logged
    /\ gaveUp \subseteq Logged /\ skipped \subseteq Logged

Offsets == \A p \in Partitions : committed[p] <= position[p] /\ position[p] <= Len(log[p])

Letters ==
    \A letter \in dead :
        /\ letter \in [place : Logged, retries : 1 .. MaxRetries, replayed : BOOLEAN]
        /\ letter.retries = At(letter.place).retries + 1
        /\ WritesAt(letter.place) # <<"audit">>

\* All of the writes of a message are done, or there is a trace of their failure.
Accounted(place) ==
    \/ Missed(place)
    \/ /\ ~Throws(At(place).kind)
       /\ \A i \in DOMAIN WritesAt(place) :
             WritesAt(place)[i] = "audit" \/ <<place, WritesAt(place)[i]>> \in written

Passed(place) == place[2] <= position[place[1]]

\* Nothing a member has gone past bears on an entry after the message it shows.
Recent(key) ==
    redis[key] # None =>
        /\ redis[key] \in [place : Logged, late : BOOLEAN]
        /\ ~redis[key].late =>
              \A place \in Logged :
                 (/\ place[1] = redis[key].place[1] /\ place[2] > redis[key].place[2]
                  /\ Passed(place) /\ Among(key, WritesAt(place)))
                     => Missed(place)

\* The message in hand is the next one of its partition, unless that was lost; what
\* is not left to write was written, and is shown unless something else came later.
Shows(key, place) ==
    redis[key] # None => \/ redis[key].late
                         \/ redis[key].place[1] # place[1]
                         \/ redis[key].place[2] >= place[2]
InHand(m) ==
    hand[m] # Idle =>
       LET place == hand[m].place  todo == hand[m].todo
       IN  /\ hand[m] \in [place : Logged, todo : Seq(Commands), failed : BOOLEAN]
           /\ owner[place[1]] = m => place[2] = position[place[1]] + 1
           /\ \A j \in DOMAIN todo : Among(todo[j], WritesAt(place))
           /\ hand[m].failed => WritesAt(place) # <<"audit">>
           /\ ~hand[m].failed =>
                 /\ ~Throws(At(place).kind)
                 /\ \A i \in DOMAIN WritesAt(place) :
                       LET key == WritesAt(place)[i]
                       IN  Among(key, todo) \/ key = "audit" \/ <<place, key>> \in written
                 /\ owner[place[1]] = m =>
                       \A key \in Cached : Among(key, WritesAt(place)) =>
                                              Among(key, todo) \/ Shows(key, place)

ProjectionInv ==
    /\ Types /\ Offsets /\ Letters
    /\ \A place \in Logged : Passed(place) => Accounted(place)
    /\ \A key \in Cached : Recent(key)
    /\ \A m \in Members : InHand(m)

-----------------------------------------------------------------------------
(* Facts about the data.                                                     *)

LEMMA WritesAreCommands == \A kind : Writes(kind) \in Seq(Commands)
<1>1. \A x \in Commands : <<x>> \in Seq(Commands)
    OBVIOUS
<1>2. \A x, y \in Commands : <<x, y>> \in Seq(Commands)
    OBVIOUS
<1>3. << >> \in Seq(Commands)
    OBVIOUS
<1>4. {"loan", "state", "audit", "scores", "confidences"} \subseteq Commands
    BY DEF Commands
<1> HIDE DEF Commands
<1> QED BY <1>1, <1>2, <1>3, <1>4 DEF Writes

LEMMA ThrowersWriteNothing == \A kind : Throws(kind) => Writes(kind) = << >>
BY DEF Writes, Throws

LEMMA Places ==
    ASSUME Types, NEW place
    PROVE  place \in Logged <=>
              \E p \in Partitions, n \in Nat : n \in 1 .. Len(log[p]) /\ place = <<p, n>>
BY DEF Types, Logged

LEMMA MessageAt ==
    ASSUME Types, NEW place \in Logged
    PROVE  At(place) \in Message /\ place[1] \in Partitions /\ place[2] \in 1 .. Len(log[place[1]])
<1>1. PICK p \in Partitions, n \in Nat : n \in 1 .. Len(log[p]) /\ place = <<p, n>>
    BY Places
<1>2. log[p] \in Seq(Message) BY DEF Types
<1> QED BY <1>1, <1>2 DEF At

LEMMA InitInv == ASSUME Init PROVE ProjectionInv
<1>1. owner \in [Partitions -> Members]
    BY DEF Init, Assignments
<1>2. Logged = {}
    BY DEF Init, Logged
<1>3. Types
    BY <1>1, <1>2 DEF Init, Types
<1>4. Offsets /\ Letters
    BY DEF Init, Offsets, Letters
<1>5. \A key \in Cached : Recent(key)
    BY DEF Init, Recent
<1>6. \A m \in Members : InHand(m)
    BY DEF Init, InHand
<1> QED BY <1>2, <1>3, <1>4, <1>5, <1>6 DEF ProjectionInv

-----------------------------------------------------------------------------
(* The log only grows, and what is accounted for stays so.                   *)

LEMMA LogGrows ==
    ASSUME Types, NEW p \in Partitions, NEW message \in Message, Appended(p, message)
    PROVE  /\ log' \in [Partitions -> Seq(Message)]
           /\ \A q \in Partitions : Len(log'[q]) >= Len(log[q])
           /\ Logged \subseteq Logged'
           /\ \A place \in Logged : At(place)' = At(place)
           /\ \A place \in Logged' \ Logged : place[1] = p /\ place[2] = Len(log[p]) + 1
<1>1. /\ log \in [Partitions -> Seq(Message)]
      /\ log' = [log EXCEPT ![p] = Append(log[p], message)]
    BY DEF Types, Appended
<1>2. log' \in [Partitions -> Seq(Message)]
    BY <1>1
<1>3. \A q \in Partitions : DOMAIN log[q] = 1 .. Len(log[q]) /\ DOMAIN log'[q] = 1 .. Len(log'[q])
    BY <1>1, <1>2
<1>4. \A q \in Partitions :
        /\ Len(log[q]) \in Nat /\ Len(log'[q]) = IF q = p THEN Len(log[q]) + 1 ELSE Len(log[q])
        /\ \A n \in 1 .. Len(log[q]) : log'[q][n] = log[q][n]
    BY <1>1
<1>5. ASSUME NEW place \in Logged PROVE place \in Logged' /\ At(place)' = At(place)
    <2>1. PICK q \in Partitions, n \in Nat : n \in 1 .. Len(log[q]) /\ place = <<q, n>>
        BY Places
    <2>2. n \in DOMAIN log'[q] BY <1>3, <1>4, <2>1
    <2> QED BY <2>1, <2>2, <1>4 DEF Logged, At
<1>6. ASSUME NEW place \in Logged' \ Logged PROVE place[1] = p /\ place[2] = Len(log[p]) + 1
    <2>1. PICK q \in Partitions, n \in Nat : n \in DOMAIN log'[q] /\ place = <<q, n>>
        BY <1>2, <1>3, <1>4 DEF Logged
    <2>2. n \notin DOMAIN log[q] BY <2>1 DEF Logged
    <2> QED BY <1>3, <1>4, <2>1, <2>2
<1> QED BY <1>2, <1>4, <1>5, <1>6

LEMMA AppendStep ==
    ASSUME ProjectionInv, NEW p \in Partitions, NEW message \in Message, Appended(p, message),
           sent' \in [Producers -> Nat], repeats' \in Nat,
           \A letter \in dead' :
              \E l \in dead : letter = l \/ letter = [l EXCEPT !.replayed = TRUE],
           \A letter \in dead : \E l \in dead' : l.place = letter.place,
           UNCHANGED <<committed, position, hand, redis, written, gaveUp, group>>
    PROVE  ProjectionInv'
<1> USE DEF group
<1>1. Types /\ Offsets /\ Letters BY DEF ProjectionInv
<1>2. /\ log' \in [Partitions -> Seq(Message)]
      /\ \A q \in Partitions : Len(log'[q]) >= Len(log[q])
      /\ Logged \subseteq Logged'
      /\ \A place \in Logged : At(place)' = At(place)
      /\ \A place \in Logged' \ Logged : place[1] = p /\ place[2] = Len(log[p]) + 1
    BY <1>1, LogGrows
<1>3. Types' /\ Offsets'
    <2>1. Types' BY <1>1, <1>2 DEF Types
    <2>2. Offsets'
        <3> SUFFICES ASSUME NEW q \in Partitions
                     PROVE committed'[q] <= position'[q] /\ position'[q] <= Len(log'[q])
            BY DEF Offsets
        <3>1. Len(log[q]) \in Nat /\ Len(log'[q]) \in Nat /\ position[q] \in Nat
            BY <1>1, <1>2 DEF Types
        <3> QED BY <1>1, <1>2, <3>1 DEF Offsets
    <2> QED BY <2>1, <2>2
<1>4. \A place \in Logged : Missed(place) => Missed(place)'
    BY DEF Missed
<1>5. \A place \in Logged' : Passed(place)' => place \in Logged /\ Passed(place)
    <2> SUFFICES ASSUME NEW place \in Logged', place \notin Logged PROVE ~Passed(place)'
        BY DEF Passed
    <2>1. place[1] = p /\ place[2] = Len(log[p]) + 1 BY <1>2
    <2>2. position[p] <= Len(log[p]) /\ position[p] \in Nat /\ Len(log[p]) \in Nat
        BY <1>1 DEF Offsets, Types
    <2> QED BY <2>1, <2>2 DEF Passed
<1>6. Letters'
    <2> SUFFICES ASSUME NEW letter \in dead'
                 PROVE /\ letter \in [place : Logged', retries : 1 .. MaxRetries, replayed : BOOLEAN]
                       /\ letter.retries = At(letter.place)'.retries + 1
                       /\ WritesAt(letter.place)' # <<"audit">>
        BY DEF Letters
    <2>1. PICK l \in dead : letter = l \/ letter = [l EXCEPT !.replayed = TRUE]
        OBVIOUS
    <2>2. /\ l \in [place : Logged, retries : 1 .. MaxRetries, replayed : BOOLEAN]
          /\ l.retries = At(l.place).retries + 1 /\ WritesAt(l.place) # <<"audit">>
        BY <1>1 DEF Letters
    <2>3. letter.place = l.place /\ letter.retries = l.retries
          /\ letter \in [place : Logged, retries : 1 .. MaxRetries, replayed : BOOLEAN]
        BY <2>1, <2>2
    <2> QED BY <1>2, <2>2, <2>3 DEF WritesAt
<1>7. \A place \in Logged' : Passed(place)' => Accounted(place)'
    BY <1>2, <1>4, <1>5 DEF ProjectionInv, Accounted, WritesAt
<1>8. \A key \in Cached : Recent(key)'
    BY <1>2, <1>4, <1>5 DEF ProjectionInv, Recent, WritesAt
<1>9. \A m \in Members : InHand(m)'
    <2> SUFFICES ASSUME NEW m \in Members, hand[m] # Idle PROVE InHand(m)'
        BY DEF InHand
    <2>1. InHand(m) /\ hand[m].place \in Logged
        BY DEF ProjectionInv, InHand
    <2> QED BY <1>2, <2>1 DEF InHand, WritesAt, Shows
<1> QED BY <1>3, <1>6, <1>7, <1>8, <1>9 DEF ProjectionInv

LEMMA ProducerStep ==
    ASSUME ProjectionInv,
           \/ \E s \in Producers : Publish(s)
           \/ \E p \in Partitions : Resend(p)
           \/ \E letter \in dead : Replay(letter)
    PROVE  ProjectionInv'
<1>1. Types BY DEF ProjectionInv
<1>2. ASSUME NEW s \in Producers, Publish(s) PROVE ProjectionInv'
    <2>1. Script[s] \in Seq(Kinds) BY ScriptAssumption
    <2>5. /\ sent[s] \in Nat /\ sent[s] < Len(Script[s])
          /\ sent' \in [Producers -> Nat]
        BY <1>1, <1>2 DEF Types, Publish
    <2>2. Script[s][sent[s] + 1] \in Kinds BY <2>1, <2>5
    <2>3. PICK p \in Partitions : Appended(p, [kind |-> Script[s][sent[s] + 1], retries |-> 0])
        BY <1>2 DEF Publish
    <2>4. [kind |-> Script[s][sent[s] + 1], retries |-> 0] \in Message
        BY <2>2, BoundsAssumption DEF Message
    <2>6. /\ repeats' \in Nat /\ dead' = dead
          /\ UNCHANGED <<committed, position, hand, redis, written, gaveUp, group>>
        BY <1>1, <1>2 DEF Publish, Types
    <2> QED BY <2>3, <2>4, <2>5, <2>6, AppendStep
<1>3. ASSUME NEW p \in Partitions, Resend(p) PROVE ProjectionInv'
    <2>1. PICK i \in DOMAIN log[p] : Appended(p, log[p][i])
        BY <1>3 DEF Resend
    <2>2. log[p][i] \in Message BY <1>1 DEF Types
    <2>3. /\ repeats' \in Nat /\ sent' \in [Producers -> Nat] /\ dead' = dead
          /\ UNCHANGED <<committed, position, hand, redis, written, gaveUp, group>>
        BY <1>1, <1>3 DEF Resend, Types
    <2> QED BY <2>1, <2>2, <2>3, AppendStep
<1>4. ASSUME NEW letter \in dead, Replay(letter) PROVE ProjectionInv'
    <2>1. /\ letter \in [place : Logged, retries : 1 .. MaxRetries, replayed : BOOLEAN]
        BY DEF ProjectionInv, Letters
    <2>2. At(letter.place) \in Message /\ letter.place[1] \in Partitions
        BY <1>1, <2>1, MessageAt
    <2> DEFINE again == [kind |-> At(letter.place).kind, retries |-> letter.retries]
               replayed == [letter EXCEPT !.replayed = TRUE]
    <2>3. again \in Message BY <2>1, <2>2, BoundsAssumption DEF Message
    <2>4. replayed.place = letter.place BY <2>1
    <2>5. dead' = (dead \ {letter}) \cup {replayed} /\ Appended(letter.place[1], again)
        BY <1>4 DEF Replay
    <2>6. \A l \in dead' : \E k \in dead : l = k \/ l = [k EXCEPT !.replayed = TRUE]
        BY <2>5
    <2>7. \A l \in dead : \E k \in dead' : k.place = l.place
        BY <2>4, <2>5
    <2>8. /\ repeats' \in Nat /\ sent' \in [Producers -> Nat]
          /\ UNCHANGED <<committed, position, hand, redis, written, gaveUp, group>>
        BY <1>1, <1>4 DEF Replay, Types
    <2> HIDE DEF again, replayed
    <2> QED BY <2>2, <2>3, <2>5, <2>6, <2>7, <2>8, AppendStep
<1> QED BY <1>2, <1>3, <1>4

-----------------------------------------------------------------------------
(* The members.                                                              *)

LEMMA ReceiveStep ==
    ASSUME ProjectionInv, NEW m \in Members, NEW p \in Partitions, Receive(m, p)
    PROVE  ProjectionInv'
<1>0. PICK place : place = <<p, position[p] + 1>>
    OBVIOUS
<1> DEFINE kind == At(place).kind
           message == [place |-> place, todo |-> Writes(kind), failed |-> Throws(kind)]
<1> USE DEF kafka, group
<1>1. Types /\ UNCHANGED <<sent, log, repeats, owner, skipped, faults, committed, position, redis,
                           written, dead, gaveUp>>
    BY DEF ProjectionInv, Receive
<1>2. Logged' = Logged /\ \A pl : At(pl)' = At(pl) /\ (Passed(pl)' <=> Passed(pl))
    BY <1>1 DEF Logged, At, Passed
<1>3. place \in Logged
    <2>1. position[p] \in Nat /\ Len(log[p]) \in Nat BY <1>1 DEF Types
    <2>2. position[p] + 1 \in 1 .. Len(log[p]) BY <2>1 DEF Receive
    <2> QED BY <1>0, <1>1, <2>1, <2>2, Places
<1>4. hand' = [hand EXCEPT ![m] = message]
    BY <1>0 DEF Receive
<1>5. Types' /\ Offsets' /\ Letters'
    BY <1>1, <1>2, <1>4 DEF ProjectionInv, Types, Offsets, Letters, WritesAt
<1>6. /\ \A pl \in Logged' : Passed(pl)' => Accounted(pl)'
      /\ \A key \in Cached : Recent(key)'
    BY <1>1, <1>2 DEF ProjectionInv, Accounted, Missed, Recent, WritesAt
<1>7. ASSUME NEW n \in Members PROVE InHand(n)'
    <2>1. CASE n = m
        <3>1. hand'[m] = message BY <1>1, <1>4 DEF Types
        <3>2. message \in [place : Logged, todo : Seq(Commands), failed : BOOLEAN]
            BY <1>3, WritesAreCommands DEF Throws
        <3>3. WritesAt(place)' = Writes(kind) /\ At(place)' = At(place)
            BY <1>2 DEF WritesAt
        <3>4. Throws(kind) => Writes(kind) # <<"audit">>
            <4>1. << >> # <<"audit">> OBVIOUS
            <4> QED BY <4>1, ThrowersWriteNothing
        <3>5. \A j \in DOMAIN Writes(kind) : Among(Writes(kind)[j], Writes(kind))
            BY DEF Among
        <3>6. /\ message.place = place /\ message.todo = Writes(kind) /\ message.failed = Throws(kind)
            OBVIOUS
        <3> HIDE DEF message, kind
        <3> QED BY <1>0, <1>1, <1>2, <2>1, <3>1, <3>2, <3>3, <3>4, <3>5, <3>6 DEF InHand, kind
    <2>2. CASE n # m
        <3>1. hand'[n] = hand[n] BY <1>1, <1>4, <2>2 DEF Types
        <3> QED BY <1>1, <1>2, <3>1 DEF ProjectionInv, InHand, WritesAt, Shows
    <2> QED BY <2>1, <2>2
<1> QED BY <1>5, <1>6, <1>7 DEF ProjectionInv

\* A member that settles what it has written, or what it has left a trace of.
LEMMA SettleStep ==
    ASSUME ProjectionInv, NEW m \in Members, hand[m] # Idle, Settle(m),
           NEW place, place = hand[m].place,
           UNCHANGED <<sent, log, repeats, owner, skipped, faults, committed, redis, written>>,
           dead \subseteq dead', Letters', gaveUp \subseteq gaveUp', gaveUp' \subseteq Logged,
           owner[place[1]] = m =>
              /\ Accounted(place)'
              /\ \/ Missed(place)'
                 \/ \A key \in Cached : Among(key, WritesAt(place)) => Shows(key, place)
    PROVE  ProjectionInv'
<1> DEFINE p == place[1]
<1>1. Types /\ Offsets /\ InHand(m) BY DEF ProjectionInv
<1>2. place \in Logged /\ p \in Partitions /\ place[2] \in 1 .. Len(log[p])
    BY <1>1, MessageAt DEF InHand
<1>3. /\ hand' = [hand EXCEPT ![m] = Idle]
      /\ position' = IF owner[p] = m THEN [position EXCEPT ![p] = place[2]] ELSE position
    BY DEF Settle
<1>4. /\ \A q \in Partitions : position[q] \in Nat /\ Len(log[q]) \in Nat
      /\ owner[p] = m => place[2] = position[p] + 1
    BY <1>1 DEF Types, InHand
<1>5. /\ position' \in [Partitions -> Nat]
      /\ \A q \in Partitions : \/ position'[q] = position[q]
                               \/ q = p /\ owner[p] = m /\ position'[q] = place[2]
    BY <1>1, <1>2, <1>3 DEF Types
<1>6. Logged' = Logged /\ \A pl : At(pl)' = At(pl)
    BY DEF Logged, At
<1>7. Types' /\ Offsets'
    <2>1. Types' BY <1>1, <1>3, <1>5, <1>6 DEF Types
    <2>2. Offsets'
        BY <1>1, <1>2, <1>4, <1>5 DEF Offsets, Types
    <2> QED BY <2>1, <2>2
<1>8. \A pl : Missed(pl) => Missed(pl)'
    BY DEF Missed
<1>9. \A pl \in Logged : Passed(pl)' => Passed(pl) \/ (pl = place /\ owner[p] = m)
    <2> SUFFICES ASSUME NEW pl \in Logged, Passed(pl)', ~Passed(pl)
                 PROVE pl = place /\ owner[p] = m
        OBVIOUS
    <2>1. PICK q \in Partitions, n \in Nat : n \in 1 .. Len(log[q]) /\ pl = <<q, n>>
        BY <1>1, Places
    <2>2. n <= position'[q] /\ ~(n <= position[q])
        BY <2>1 DEF Passed
    <2>3. q = p /\ owner[p] = m /\ position'[q] = position[p] + 1
        BY <1>4, <1>5, <2>2
    <2>4. n = place[2] BY <1>4, <2>2, <2>3
    <2>5. place = <<place[1], place[2]>> BY <1>1, <1>2, Places
    <2> QED BY <2>1, <2>3, <2>4, <2>5
<1>10. ASSUME NEW pl \in Logged, Passed(pl)' PROVE Accounted(pl)'
    <2>1. CASE Passed(pl)
        BY <1>6, <1>8, <2>1 DEF ProjectionInv, Accounted, WritesAt
    <2> QED BY <1>9, <1>10, <2>1
<1>11. ASSUME NEW key \in Cached PROVE Recent(key)'
    <2> SUFFICES ASSUME redis[key] # None, ~redis[key].late, NEW pl \in Logged,
                        pl[1] = redis[key].place[1], pl[2] > redis[key].place[2],
                        Passed(pl)', Among(key, WritesAt(pl)), Recent(key)
                 PROVE  Missed(pl)'
        BY <1>6 DEF ProjectionInv, Recent, WritesAt
    <2>1. CASE Passed(pl)
        BY <1>8, <2>1 DEF Recent
    <2>2. CASE pl = place /\ owner[p] = m
        <3>1. SUFFICES ASSUME Shows(key, place) PROVE FALSE
            BY <2>2, <1>11
        <3>2. redis[key].place[2] \in Nat /\ place[2] \in Nat
            BY <1>1, <1>2, MessageAt DEF Recent
        <3> QED BY <2>2, <3>1, <3>2 DEF Shows
    <2> QED BY <1>9, <2>1, <2>2
<1>12. ASSUME NEW n \in Members PROVE InHand(n)'
    <2>1. CASE n = m
        BY <1>1, <1>3, <2>1 DEF Types, InHand
    <2>2. CASE n # m /\ hand[n] # Idle
        <3>1. hand'[n] = hand[n] /\ InHand(n) BY <1>1, <1>3, <2>2 DEF Types, ProjectionInv
        <3>2. hand[n].place[1] \in Partitions BY <1>1, <2>2, <3>1, MessageAt DEF InHand
        <3>3. owner[hand[n].place[1]] = n => position'[hand[n].place[1]] = position[hand[n].place[1]]
            BY <1>5, <2>2, <3>2
        <3> QED BY <1>6, <2>2, <3>1, <3>3 DEF InHand, WritesAt, Shows
    <2>3. CASE n # m /\ hand[n] = Idle
        BY <1>1, <1>3, <2>3 DEF Types, InHand
    <2> QED BY <2>1, <2>2, <2>3
<1> QED BY <1>6, <1>7, <1>10, <1>11, <1>12 DEF ProjectionInv

LEMMA DoneStep == ASSUME ProjectionInv, NEW m \in Members, Done(m) PROVE ProjectionInv'
<1>0. PICK place : place = hand[m].place
    OBVIOUS
<1>1. /\ hand[m] # Idle /\ hand[m].todo = << >> /\ ~hand[m].failed /\ Settle(m)
      /\ UNCHANGED <<sent, log, repeats, owner, skipped, faults, committed, redis, written, dead, gaveUp>>
    BY DEF Done, kafka, group
<1>2. Types /\ Letters /\ InHand(m) BY DEF ProjectionInv
<1>3. \A x : ~Among(x, hand[m].todo) BY <1>1 DEF Among
<1>4. Letters' BY <1>1, <1>2 DEF Letters, Logged, At, WritesAt
<1>5. gaveUp' \subseteq Logged BY <1>1, <1>2 DEF Types
<1>6. Accounted(place)'
    <2>1. WritesAt(place)' = WritesAt(place) /\ At(place)' = At(place)
        BY <1>1 DEF WritesAt, At
    <2> QED BY <1>0, <1>1, <1>2, <1>3, <2>1 DEF InHand, Accounted
<1>7. owner[place[1]] = m => \A key \in Cached : Among(key, WritesAt(place)) => Shows(key, place)
    BY <1>0, <1>1, <1>2, <1>3 DEF InHand
<1> QED BY <1>0, <1>1, <1>4, <1>5, <1>6, <1>7, SettleStep

LEMMA DeadLetterStep == ASSUME ProjectionInv, NEW m \in Members, DeadLetter(m) PROVE ProjectionInv'
<1>0. PICK place : place = hand[m].place
    OBVIOUS
<1> DEFINE letter == [place |-> place, retries |-> At(place).retries + 1, replayed |-> FALSE]
<1>1. /\ hand[m].failed /\ Settle(m)
      /\ UNCHANGED <<sent, log, repeats, owner, skipped, faults, committed, redis, written>>
    BY DEF DeadLetter, kafka, group
<1>2. hand[m] # Idle BY <1>1 DEF Idle
<1>3. Types /\ Letters /\ InHand(m) BY DEF ProjectionInv
<1>4. place \in Logged /\ WritesAt(place) # <<"audit">>
    BY <1>0, <1>1, <1>2, <1>3 DEF InHand
<1>5. Logged' = Logged /\ \A pl : At(pl)' = At(pl)
    BY <1>1 DEF Logged, At
<1>6. \/ At(place).retries < MaxRetries /\ dead' = dead \cup {letter} /\ gaveUp' = gaveUp
      \/ gaveUp' = gaveUp \cup {place} /\ dead' = dead
    BY <1>0 DEF DeadLetter
<1>7. dead \subseteq dead' /\ gaveUp \subseteq gaveUp' /\ gaveUp' \subseteq Logged
    BY <1>3, <1>4, <1>6 DEF Types
<1>8. Missed(place)'
    <2>1. CASE dead' = dead \cup {letter}
        <3>1. letter.place = place /\ letter \in dead' BY <2>1
        <3> QED BY <3>1 DEF Missed
    <2>2. CASE gaveUp' = gaveUp \cup {place}
        BY <2>2 DEF Missed
    <2> QED BY <1>6, <2>1, <2>2
<1>9. Letters'
    <2> SUFFICES ASSUME NEW l \in dead', l \notin dead
                 PROVE /\ l \in [place : Logged, retries : 1 .. MaxRetries, replayed : BOOLEAN]
                       /\ l.retries = At(l.place).retries + 1
                       /\ WritesAt(l.place) # <<"audit">>
        BY <1>3, <1>5 DEF Letters, WritesAt
    <2>1. l = letter /\ At(place).retries < MaxRetries BY <1>6
    <2>2. At(place).retries \in 0 .. MaxRetries BY <1>3, <1>4, MessageAt DEF Message
    <2>3. At(place).retries + 1 \in 1 .. MaxRetries BY <2>1, <2>2, BoundsAssumption
    <2> QED BY <1>4, <2>1, <2>3
<1>10. Accounted(place)' BY <1>8 DEF Accounted
<1> QED BY <1>0, <1>1, <1>2, <1>7, <1>8, <1>9, <1>10, SettleStep

\* One command: executed or not, answered or not.
LEMMA WriteStep == ASSUME ProjectionInv, NEW m \in Members, Write(m) PROVE ProjectionInv'
<1>0. PICK place, key : place = hand[m].place /\ key = Head(hand[m].todo)
    OBVIOUS
<1>1. /\ hand[m].todo # << >> /\ ~hand[m].failed
      /\ UNCHANGED <<sent, log, repeats, owner, skipped, faults, committed, position, dead, gaveUp>>
    BY DEF Write, kafka, group
<1>2. hand[m] # Idle BY <1>1 DEF Idle
<1>3. Types /\ Offsets /\ Letters /\ InHand(m) BY DEF ProjectionInv
<1>4. /\ hand[m] \in [place : Logged, todo : Seq(Commands), failed : BOOLEAN]
      /\ place \in Logged /\ place[1] \in Partitions /\ place[2] \in Nat
    BY <1>0, <1>2, <1>3, MessageAt DEF InHand
<1>5. /\ Among(key, WritesAt(place)) /\ Tail(hand[m].todo) \in Seq(Commands)
      /\ \A x : Among(x, hand[m].todo) => x = key \/ Among(x, Tail(hand[m].todo))
      /\ \A j \in DOMAIN Tail(hand[m].todo) : Among(Tail(hand[m].todo)[j], WritesAt(place))
    <2>1. hand[m].todo \in Seq(Commands) /\ hand[m].todo # << >> BY <1>1, <1>4
    <2>2. /\ Tail(hand[m].todo) \in Seq(Commands) /\ 1 \in DOMAIN hand[m].todo /\ key = hand[m].todo[1]
          /\ \A j \in DOMAIN hand[m].todo : j = 1 \/ (/\ j - 1 \in DOMAIN Tail(hand[m].todo)
                                                     /\ Tail(hand[m].todo)[j - 1] = hand[m].todo[j])
          /\ \A j \in DOMAIN Tail(hand[m].todo) : /\ j + 1 \in DOMAIN hand[m].todo
                                                  /\ Tail(hand[m].todo)[j] = hand[m].todo[j + 1]
        BY <1>0, <2>1
    <2>3. \A j \in DOMAIN hand[m].todo : Among(hand[m].todo[j], WritesAt(place))
        BY <1>0, <1>2, <1>3 DEF InHand
    <2> QED BY <2>2, <2>3 DEF Among
<1>6. PICK next, shown : /\ next = [hand[m] EXCEPT !.todo = Tail(@)]
                         /\ shown = [place |-> place, late |-> owner[place[1]] # m]
    OBVIOUS
<1>7. PICK fail : fail = [hand[m] EXCEPT !.failed = TRUE]
    OBVIOUS
<1>18. next # fail
    <2>1. ~next.failed /\ fail.failed BY <1>1, <1>4, <1>6, <1>7
    <2> QED BY <2>1
<1>8. /\ \/ /\ written' = written \cup {<<place, key>>}
            /\ redis' = IF key \in Cached THEN [redis EXCEPT ![key] = shown] ELSE redis
            /\ hand' = [hand EXCEPT ![m] = next] \/ (key # "audit" /\ hand' = [hand EXCEPT ![m] = fail])
         \/ /\ written' = written /\ redis' = redis
            /\ \/ key = "audit" /\ hand' = [hand EXCEPT ![m] = next]
               \/ key # "audit" /\ hand' = [hand EXCEPT ![m] = fail]
    BY <1>0, <1>6, <1>7 DEF Write, Shown
<1>9. Logged' = Logged /\ \A pl : At(pl)' = At(pl) /\ (Passed(pl)' <=> Passed(pl))
    BY <1>1 DEF Logged, At, Passed
<1>10. \A pl : Missed(pl)' <=> Missed(pl)
    BY <1>1 DEF Missed
<1>11. written \subseteq written' /\ \A w \in written' : w \in written \/ w = <<place, key>>
    BY <1>8
<1>12. Types' /\ Offsets' /\ Letters'
    <2>1. Offsets' /\ Letters'
        BY <1>1, <1>3, <1>9 DEF Offsets, Letters, WritesAt
    <2>2. DOMAIN hand' = Members /\ DOMAIN redis' = Cached
        BY <1>3, <1>8 DEF Types
    <2>3. \A w \in written' : w[1] \in Logged
        BY <1>3, <1>4, <1>11 DEF Types
    <2> QED BY <1>1, <1>3, <1>9, <2>1, <2>2, <2>3 DEF Types
<1>13. \A pl \in Logged' : Passed(pl)' => Accounted(pl)'
    BY <1>9, <1>10, <1>11 DEF ProjectionInv, Accounted, WritesAt
<1>14. \A k \in Cached : redis'[k] = redis[k] \/ (k = key /\ redis'[k] = shown)
    BY <1>3, <1>8 DEF Types
<1>15. owner[place[1]] = m => place[2] = position[place[1]] + 1
    BY <1>0, <1>2, <1>3 DEF InHand
<1>16. ASSUME NEW k \in Cached PROVE Recent(k)'
    <2>1. CASE redis'[k] = redis[k]
        BY <1>9, <1>10, <2>1 DEF ProjectionInv, Recent, WritesAt
    <2>2. CASE redis'[k] = shown
        <3>1. shown \in [place : Logged, late : BOOLEAN] /\ shown.place = place
            BY <1>4, <1>6
        <3>2. ASSUME ~shown.late, NEW pl \in Logged, pl[1] = place[1], pl[2] > place[2], Passed(pl)
              PROVE  FALSE
            <4>1. place[2] = position[place[1]] + 1 BY <1>6, <1>15, <3>2
            <4>2. position[place[1]] \in Nat /\ pl[2] \in Nat
                BY <1>3, <1>4, <3>2, MessageAt DEF Types
            <4> QED BY <3>2, <4>1, <4>2 DEF Passed
        <3> QED BY <1>9, <2>2, <3>1, <3>2 DEF Recent
    <2> QED BY <1>14, <2>1, <2>2
<1>17. ASSUME NEW n \in Members PROVE InHand(n)'
    <2>1. CASE n # m
        <3>1. hand'[n] = hand[n] /\ InHand(n) BY <1>3, <1>8, <2>1 DEF Types, ProjectionInv
        <3>2. ASSUME hand[n] # Idle, owner[hand[n].place[1]] = n, NEW k \in Cached, Shows(k, hand[n].place)
              PROVE  Shows(k, hand[n].place)'
            <4>1. CASE redis'[k] = redis[k]
                BY <3>1, <3>2, <4>1 DEF Shows
            <4>2. CASE redis'[k] = shown
                <5>1. shown.place = place /\ (~shown.late => owner[place[1]] = m) BY <1>6
                <5> QED BY <2>1, <3>1, <3>2, <4>2, <5>1 DEF Shows
            <4> QED BY <1>14, <4>1, <4>2
        <3> QED BY <1>1, <1>9, <1>11, <3>1, <3>2 DEF InHand, WritesAt
    <2>2. CASE n = m /\ hand'[m] = next
        <3>1. /\ next \in [place : Logged, todo : Seq(Commands), failed : BOOLEAN]
              /\ next.place = place /\ next.todo = Tail(hand[m].todo) /\ ~next.failed
            BY <1>0, <1>1, <1>4, <1>5, <1>6
        <3>2. (<<place, key>> \in written' /\ (key \in Cached => redis'[key] = shown)) \/ key = "audit"
            <4>1. CASE /\ written' = written \cup {<<place, key>>}
                       /\ redis' = IF key \in Cached THEN [redis EXCEPT ![key] = shown] ELSE redis
                BY <1>3, <4>1 DEF Types
            <4>2. CASE written' = written /\ key = "audit"
                BY <4>2
            <4>3. CASE key # "audit" /\ hand' = [hand EXCEPT ![m] = fail]
                BY <1>3, <1>18, <2>2, <4>3 DEF Types
            <4> QED BY <1>8, <4>1, <4>2, <4>3
        <3>3. ASSUME NEW i \in DOMAIN WritesAt(place)
              PROVE  \/ Among(WritesAt(place)[i], next.todo)
                     \/ WritesAt(place)[i] = "audit"
                     \/ <<place, WritesAt(place)[i]>> \in written'
            BY <1>0, <1>1, <1>2, <1>3, <1>5, <1>11, <3>1, <3>2 DEF InHand
        <3>4. ASSUME owner[place[1]] = m, NEW k \in Cached, Among(k, WritesAt(place))
              PROVE  Among(k, next.todo) \/ Shows(k, place)'
            <4>1. Among(k, hand[m].todo) \/ Shows(k, place)
                BY <1>0, <1>1, <1>2, <1>3, <3>4 DEF InHand
            <4>2. CASE redis'[k] = shown
                <5>1. shown.place = place BY <1>6
                <5> QED BY <1>4, <4>2, <5>1 DEF Shows
            <4>3. CASE redis'[k] = redis[k] /\ Shows(k, place)
                BY <4>3 DEF Shows
            <4>4. CASE k = key
                BY <3>2, <4>2, <4>4 DEF Cached
            <4> QED BY <1>5, <1>14, <3>1, <4>1, <4>2, <4>3, <4>4
        <3>5. ~Throws(At(place).kind) BY <1>0, <1>1, <1>2, <1>3 DEF InHand
        <3> QED BY <1>1, <1>5, <1>9, <1>15, <2>2, <3>1, <3>3, <3>4, <3>5 DEF InHand, WritesAt
    <2>3. CASE n = m /\ hand'[m] = fail
        <3>1. /\ fail \in [place : Logged, todo : Seq(Commands), failed : BOOLEAN]
              /\ fail.place = place /\ fail.todo = hand[m].todo /\ fail.failed
            BY <1>0, <1>4, <1>7
        <3>2. key # "audit" \/ next = fail
            BY <1>3, <1>8, <2>3 DEF Types
        <3>3. key # "audit"
            BY <1>1, <1>4, <1>6, <3>1, <3>2
        <3>4. WritesAt(place) # <<"audit">>
            BY <1>5, <3>3 DEF Among
        <3> QED BY <1>0, <1>1, <1>2, <1>3, <1>9, <2>3, <3>1, <3>4 DEF InHand, WritesAt
    <2>4. hand'[m] \in {next, fail} BY <1>3, <1>8 DEF Types
    <2> QED BY <2>1, <2>2, <2>3, <2>4
<1> QED BY <1>12, <1>13, <1>16, <1>17 DEF ProjectionInv

-----------------------------------------------------------------------------
(* The group.                                                                *)

LEMMA CommitStep == ASSUME ProjectionInv, NEW p \in Partitions, Commit(p) PROVE ProjectionInv'
<1> USE DEF kafka, group
<1>1. Types /\ Offsets /\ Letters BY DEF ProjectionInv
<1>2. Logged' = Logged /\ \A pl : At(pl)' = At(pl) /\ (Passed(pl)' <=> Passed(pl))
    BY DEF Commit, Logged, At, Passed
<1>3. Types' /\ Offsets' /\ Letters'
    <2>1. committed' \in [Partitions -> Nat] /\ Types'
        BY <1>1, <1>2 DEF Types, Commit
    <2>2. Offsets' BY <1>1 DEF Types, Offsets, Commit
    <2>3. Letters' BY <1>1, <1>2 DEF Letters, WritesAt, Commit
    <2> QED BY <2>1, <2>2, <2>3
<1>4. \A pl : Missed(pl)' <=> Missed(pl)
    BY DEF Missed, Commit
<1>5. /\ \A pl \in Logged' : Passed(pl)' => Accounted(pl)'
      /\ \A key \in Cached : Recent(key)'
    BY <1>2, <1>4 DEF ProjectionInv, Accounted, Recent, WritesAt, Commit
<1>6. \A m \in Members : InHand(m)'
    BY <1>2 DEF ProjectionInv, InHand, WritesAt, Shows, Commit
<1> QED BY <1>3, <1>5, <1>6 DEF ProjectionInv

\* Partitions go to members with nothing in hand, at an offset behind or with
\* everything before it skipped.
LEMMA HandOverStep ==
    ASSUME ProjectionInv, NEW m \in Members, NEW heirs \in SUBSET Members, HandOver(m, heirs),
           \A n \in heirs : hand'[n] = Idle,
           DOMAIN hand' = Members, \A n \in Members : hand'[n] \in {hand[n], Idle},
           UNCHANGED <<committed, redis, written, dead, gaveUp, kafka>>
    PROVE  ProjectionInv'
<1>0. PICK lost \in SUBSET Partitions : lost = {p \in Partitions : owner[p] = m}
    OBVIOUS
<1>1. Types /\ Offsets /\ Letters /\ UNCHANGED <<sent, log, repeats, committed, redis, written, dead, gaveUp>>
    BY DEF ProjectionInv, kafka
<1>2. PICK heir \in [lost -> heirs] :
        owner' = [p \in Partitions |-> IF p \in lost THEN heir[p] ELSE owner[p]]
    BY <1>0 DEF HandOver
<1>3. /\ position' = [p \in Partitions |-> IF p \notin lost THEN position[p]
                                          ELSE IF Unread(p) THEN Len(log[p]) ELSE committed[p]]
      /\ skipped' = skipped \cup UNION {{p} \X DOMAIN log[p] : p \in {q \in lost : Unread(q)}}
      /\ faults' = faults + 1
    BY <1>0 DEF HandOver, Resume
<1>4. Logged' = Logged /\ \A pl : At(pl)' = At(pl)
    BY <1>1 DEF Logged, At
<1>5. \A p \in Partitions : /\ Len(log[p]) \in Nat /\ committed[p] \in Nat /\ position[p] \in Nat
                            /\ committed[p] <= position[p] /\ position[p] <= Len(log[p])
                            /\ Unread(p) => committed[p] = 0
    BY <1>1 DEF Types, Offsets, Unread
<1>6. Types'
    <2>1. owner' \in [Partitions -> Members] BY <1>1, <1>2 DEF Types
    <2>2. position' \in [Partitions -> Nat] BY <1>3, <1>5
    <2>3. skipped' \subseteq Logged BY <1>1, <1>3 DEF Types, Logged
    <2> QED BY <1>1, <1>3, <1>4, <2>1, <2>2, <2>3 DEF Types
<1>7. Offsets' /\ Letters'
    <2>1. Offsets' BY <1>1, <1>3, <1>5 DEF Offsets
    <2>2. Letters' BY <1>1, <1>4 DEF Letters, WritesAt
    <2> QED BY <2>1, <2>2
<1>8. \A pl : Missed(pl) => Missed(pl)'
    BY <1>1, <1>3 DEF Missed
<1>9. ASSUME NEW pl \in Logged, Passed(pl)' PROVE Passed(pl) \/ Missed(pl)'
    <2>1. PICK p \in Partitions, n \in Nat : n \in 1 .. Len(log[p]) /\ pl = <<p, n>>
        BY <1>1, Places
    <2>2. n <= position'[p] BY <1>9, <2>1 DEF Passed
    <2>3. CASE p \in lost /\ Unread(p)
        <3>1. n \in DOMAIN log[p] BY <1>1, <2>1 DEF Types
        <3>2. pl \in skipped' BY <1>3, <2>1, <2>3, <3>1
        <3> QED BY <3>2 DEF Missed
    <2>4. CASE ~(p \in lost /\ Unread(p))
        <3>1. position'[p] <= position[p] /\ position'[p] \in Nat BY <1>3, <1>5, <2>4
        <3> QED BY <1>5, <2>1, <2>2, <3>1 DEF Passed
    <2> QED BY <2>3, <2>4
<1>10. \A pl \in Logged' : Passed(pl)' => Accounted(pl)'
    BY <1>1, <1>4, <1>8, <1>9 DEF ProjectionInv, Accounted, WritesAt
<1>11. \A key \in Cached : Recent(key)'
    BY <1>1, <1>4, <1>8, <1>9 DEF ProjectionInv, Recent, WritesAt
<1>12. ASSUME NEW n \in Members PROVE InHand(n)'
    <2> SUFFICES ASSUME hand'[n] # Idle PROVE InHand(n)'
        BY DEF InHand
    <2>1. hand'[n] = hand[n] /\ hand[n] # Idle /\ n \notin heirs /\ InHand(n)
        BY DEF ProjectionInv
    <2>2. hand[n].place[1] \in Partitions
        BY <1>1, <2>1, MessageAt DEF InHand
    <2>3. owner'[hand[n].place[1]] = n =>
            /\ owner[hand[n].place[1]] = n
            /\ position'[hand[n].place[1]] = position[hand[n].place[1]]
        BY <1>2, <1>3, <2>1, <2>2
    <2> QED BY <1>1, <1>4, <2>1, <2>3 DEF InHand, WritesAt, Shows
<1> QED BY <1>6, <1>7, <1>10, <1>11, <1>12 DEF ProjectionInv

LEMMA CrashStep == ASSUME ProjectionInv, NEW m \in Members, Crash(m) PROVE ProjectionInv'
<1>1. DOMAIN hand = Members BY DEF ProjectionInv, Types
<1>2. PICK heirs \in SUBSET Members : heirs = {m} \cup {n \in Members : hand[n] = Idle}
    OBVIOUS
<1>3. hand' = [hand EXCEPT ![m] = Idle] /\ HandOver(m, heirs)
    BY <1>2 DEF Crash
<1> QED BY <1>1, <1>2, <1>3, HandOverStep DEF Crash

LEMMA EvictStep == ASSUME ProjectionInv, NEW m \in Members, Evict(m) PROVE ProjectionInv'
<1>1. DOMAIN hand = Members BY DEF ProjectionInv, Types
<1>2. PICK heirs \in SUBSET Members : heirs = {n \in Members : hand[n] = Idle}
    OBVIOUS
<1>3. hand' = hand /\ HandOver(m, heirs)
    BY <1>2 DEF Evict
<1> QED BY <1>1, <1>2, <1>3, HandOverStep DEF Evict

LEMMA InvariantStep == ASSUME ProjectionInv, [Next]_vars PROVE ProjectionInv'
<1>1. CASE UNCHANGED vars
    <2>1. Logged' = Logged /\ \A pl : At(pl)' = At(pl) /\ (Passed(pl)' <=> Passed(pl))
                                      /\ (Missed(pl)' <=> Missed(pl))
        BY <1>1 DEF vars, Logged, At, Passed, Missed
    <2>2. Types' /\ Offsets' /\ Letters'
        BY <1>1, <2>1 DEF vars, ProjectionInv, Types, Offsets, Letters, WritesAt
    <2>3. /\ \A pl \in Logged' : Passed(pl)' => Accounted(pl)'
          /\ \A key \in Cached : Recent(key)'
        BY <1>1, <2>1 DEF vars, ProjectionInv, Accounted, Recent, WritesAt
    <2>4. \A m \in Members : InHand(m)'
        BY <1>1, <2>1 DEF vars, ProjectionInv, InHand, WritesAt, Shows
    <2> QED BY <2>2, <2>3, <2>4 DEF ProjectionInv
<1>2. ASSUME NEW m \in Members, Handle(m) PROVE ProjectionInv'
    BY <1>2, ReceiveStep, WriteStep, DoneStep, DeadLetterStep DEF Handle
<1> QED BY <1>1, <1>2, ProducerStep, CommitStep, CrashStep, EvictStep DEF Next

-----------------------------------------------------------------------------
\* The inductive invariant of the projection.
THEOREM ProjectionInvariance == Spec => []ProjectionInv
BY InitInv, InvariantStep, PTL DEF Spec

\* Offsets, letters, entries and the messages in hand are those of logged messages.
THEOREM ProjectionTypes == Spec => []TypeOK
<1>1. ASSUME ProjectionInv PROVE TypeOK
    <2>1. Types /\ Offsets /\ Letters BY <1>1 DEF ProjectionInv
    <2>2. \A p \in Partitions : committed[p] \in 0 .. Len(log[p]) /\ position[p] \in 0 .. Len(log[p])
        <3> SUFFICES ASSUME NEW p \in Partitions
                     PROVE committed[p] \in 0 .. Len(log[p]) /\ position[p] \in 0 .. Len(log[p])
            OBVIOUS
        <3>1. Len(log[p]) \in Nat /\ committed[p] \in Nat /\ position[p] \in Nat
            BY <2>1 DEF Types
        <3> QED BY <2>1, <3>1 DEF Offsets
    <2>3. \A m \in Members : hand[m] = Idle \/ hand[m].place \in Logged
        BY <1>1 DEF ProjectionInv, InHand
    <2>4. \A key \in Cached : redis[key] = None \/ redis[key].place \in Logged
        BY <1>1 DEF ProjectionInv, Recent
    <2>5. \A letter \in dead : letter.place \in Logged /\ letter.retries \in 1 .. MaxRetries
        BY <2>1 DEF Letters
    <2> QED BY <2>1, <2>2, <2>3, <2>4, <2>5 DEF TypeOK, Types, Message
<1> QED BY <1>1, ProjectionInvariance, PTL

\* What is settled left its writes or a trace, through crashes, evictions, repeated
\* sends and replayed letters: offsets are committed only behind settled messages.
THEOREM NothingEverVanishes == Spec => []NothingVanishes
<1>1. ASSUME ProjectionInv PROVE NothingVanishes
    <2> SUFFICES ASSUME NEW place \in Logged, Settled(place) PROVE Accounted(place)
        BY DEF NothingVanishes, Accounted, WritesAt
    <2>1. Types /\ Offsets BY <1>1 DEF ProjectionInv
    <2>2. place[1] \in Partitions /\ place[2] \in Nat BY <2>1, MessageAt
    <2>3. /\ committed[place[1]] \in Nat /\ position[place[1]] \in Nat
          /\ committed[place[1]] <= position[place[1]]
        BY <2>1, <2>2 DEF Types, Offsets
    <2>4. Passed(place) BY <2>2, <2>3 DEF Settled, Passed
    <2> QED BY <1>1, <2>4 DEF ProjectionInv
<1> QED BY <1>1, ProjectionInvariance, PTL

\* The count of retries in a message grows with each dead letter, up to MaxRetries.
THEOREM RetriesDoEnd == Spec => []RetriesEnd
<1>1. ASSUME ProjectionInv PROVE RetriesEnd
    <2>1. Types /\ Letters BY <1>1 DEF ProjectionInv
    <2>2. \A place \in Logged : At(place).retries <= MaxRetries
        BY <2>1, MessageAt, BoundsAssumption DEF Message
    <2>3. \A letter \in dead : letter.retries <= MaxRetries
        BY <2>1, BoundsAssumption DEF Letters
    <2> QED BY <2>1, <2>2, <2>3 DEF RetriesEnd, Letters, WritesAt
<1> QED BY <1>1, ProjectionInvariance, PTL

\* Within a partition a status is only replaced by a later one, lost messages and
\* writers that had lost the partition aside.
THEOREM ShownStaysRecent == Spec => []ShownIsNotStale
<1>1. ASSUME ProjectionInv PROVE ShownIsNotStale
    <2> SUFFICES ASSUME NEW key \in Cached, redis[key] # None, ~redis[key].late,
                        NEW j \in redis[key].place[2] + 1 .. committed[redis[key].place[1]],
                        \E i \in DOMAIN Writes(log[redis[key].place[1]][j].kind) :
                            Writes(log[redis[key].place[1]][j].kind)[i] = key
                 PROVE  Missed(<<redis[key].place[1], j>>)
        BY DEF ShownIsNotStale
    <2>1. Types /\ Offsets /\ Recent(key) BY <1>1 DEF ProjectionInv
    <2>2. PICK p \in Partitions, n \in Nat : n \in 1 .. Len(log[p]) /\ redis[key].place = <<p, n>>
        BY <2>1, Places DEF Recent
    <2>3. /\ committed[p] \in Nat /\ position[p] \in Nat /\ Len(log[p]) \in Nat
          /\ committed[p] <= position[p] /\ position[p] <= Len(log[p])
        BY <2>1 DEF Types, Offsets
    <2>4. j \in n + 1 .. committed[p] BY <2>2
    <2>5. j \in Nat /\ j \in 1 .. Len(log[p]) /\ j > n /\ j <= position[p]
        BY <2>3, <2>4
    <2>6. <<p, j>> \in Logged BY <2>1, <2>5, Places
    <2>7. Passed(<<p, j>>) /\ Among(key, WritesAt(<<p, j>>))
        BY <2>2, <2>5 DEF Passed, Among, WritesAt, At
    <2> QED BY <2>1, <2>2, <2>5, <2>6, <2>7 DEF Recent
<1> QED BY <1>1, ProjectionInvariance, PTL

=============================================================================
