----------------------------- MODULE PubSubProofs -----------------------------
(***************************************************************************)
(* Theorems about the publish-subscribe registry, for any numbers of       *)
(* subscribers, publishers and topics and any capacity: what a command does *)
(* to the registry, and that every subscription is served as its kind asks, *)
(* by an invariant that says, in the middle of a publication, how often it *)
(* is still to be sent to each channel.                                    *)
(***************************************************************************)
EXTENDS PubSub, FiniteSetTheorems, SequenceTheorems, TLAPS

\* A publication is due to a channel a finite number of times.
LEMMA CopiesAreNats ==
    ASSUME NEW c, NEW ts \in Seq(Topics), NEW m \in Nat
    PROVE  Copies(m, Due(c, ts)) \in Seq(Nat)
<1>1. Due(c, ts) \subseteq 1 .. Len(ts)
  BY DEF Due
<1>2. IsFiniteSet(1 .. Len(ts))
  BY FS_Interval
<1>3. Cardinality(Due(c, ts)) \in Nat
  BY <1>1, <1>2, FS_Subset, FS_CardinalityType
<1> QED
  BY <1>3 DEF Copies

LEMMA RangeOfTopics ==
    ASSUME NEW ts \in Seq(Topics)
    PROVE  Range(ts) \subseteq Topics
  BY DEF Range

\* Removing subscriptions keeps the registry's types.
LEMMA RemoveTyped ==
    ASSUME TypeOK, NEW R, NEW then \in {"recv", "send", "gone"}, Remove(R, then)
    PROVE  /\ topics' \in [Topics -> [Chans -> {"no", "sub", "once"}]]
           /\ revTopics' \in [Chans -> SUBSET Topics] /\ closed' \subseteq Chans
           /\ pc' \in {"recv", "send", "gone", "panicked"}
<1>1. topics' \in [Topics -> [Chans -> {"no", "sub", "once"}]]
  BY DEF TypeOK, Remove
<1>2. revTopics' \in [Chans -> SUBSET Topics]
  BY DEF TypeOK, Remove
<1>3. closed' \subseteq Chans
  BY DEF TypeOK, Remove, Left
<1> QED
  BY <1>1, <1>2, <1>3 DEF Remove

LEMMA InitTyped == Init => TypeOK
  BY CapacityAssumption DEF Init, TypeOK, NoCall, Commands

\* What the callers do keeps the types.
LEMMA ClientTyped ==
    ASSUME TypeOK, Client
    PROVE  TypeOK'
<1> USE TopicsAssumption, OpsAssumption DEF AllOps
<1>1. ASSUME NEW p \in Callers, NEW op, NEW ts \in Seq(Topics), Offer(p, op, ts),
             made' \subseteq Chans, mine' \in [Chans -> SUBSET Topics]
      PROVE  TypeOK'
  <2>1. call' \in [Callers -> Commands]
    BY <1>1 DEF Offer, TypeOK, Commands
  <2> QED
    BY <1>1, <2>1 DEF Offer, TypeOK, registry, sending, history
<1>2. ASSUME NEW c \in Chans, NEW op, NEW ts \in TopicLists, Sub(c, op, ts)
      PROVE  TypeOK'
  <2>1. ts \in Seq(Topics) /\ Range(ts) \subseteq Topics
    BY RangeOfTopics
  <2> QED
    BY <1>1, <1>2, <2>1 DEF Sub, Callers, TypeOK
<1>3. ASSUME NEW c \in Chans, NEW ts \in TopicLists, AddSub(c, ts)
      PROVE  TypeOK'
  <2>1. ts \in Seq(Topics) /\ Range(ts) \subseteq Topics
    BY RangeOfTopics
  <2> QED
    BY <1>1, <1>3, <2>1 DEF AddSub, Callers, TypeOK
<1>4. ASSUME NEW c \in Chans, NEW ts \in TopicLists, Unsub(c, ts)
      PROVE  TypeOK'
  <2>1. mine' \in [Chans -> SUBSET Topics]
    BY <1>4 DEF Unsub, TypeOK
  <2> QED
    BY <1>1, <1>4, <2>1 DEF Unsub, Callers, TypeOK
<1>5. ASSUME NEW p \in Publishers, NEW ts \in TopicLists, Pub(p, ts) \/ Close(p, ts)
      PROVE  TypeOK'
  BY <1>1, <1>5 DEF Pub, Close, Callers, TypeOK
<1>6. ASSUME NEW p \in Publishers, Shutdown(p)
      PROVE  TypeOK'
  <2>1. <<>> \in Seq(Topics)
    OBVIOUS
  <2> QED
    BY <1>1, <1>6, <2>1 DEF Shutdown, Callers, TypeOK
<1> QED
  BY <1>2, <1>3, <1>4, <1>5, <1>6 DEF Client

\* Taking a command keeps the types.
LEMMA TakeTyped ==
    ASSUME TypeOK, NEW p \in Callers, p \in Chans \/ call[p].op \notin {"sub", "subOnce", "addSub", "unsub"},
           Take(p)
    PROVE  TypeOK'
<1>1. call[p].topics \in Seq(Topics) /\ call' \in [Callers -> Commands]
  <2>1. NoCall \in Commands /\ call[p] \in Commands
    BY DEF NoCall, Commands, TypeOK
  <2> QED
    BY <2>1 DEF Take, Subscribe, Unsubscribe, CloseTopics, End, Publish, Taken, TypeOK, Commands
<1>2. Range(call[p].topics) \subseteq Topics
  BY <1>1, RangeOfTopics
<1>3. CASE Subscribe(p)
  <2>1. p \in Chans
    BY <1>3 DEF Subscribe
  <2>2. /\ topics' \in [Topics -> [Chans -> {"no", "sub", "once"}]]
        /\ revTopics' \in [Chans -> SUBSET Topics]
    BY <1>2, <1>3, <2>1 DEF Subscribe, Add, TypeOK
  <2> QED
    BY <1>1, <1>3, <2>2 DEF Subscribe, Add, Taken, TypeOK, sending
<1>4. CASE Unsubscribe(p)
  BY <1>1, <1>4, RemoveTyped DEF Unsubscribe, Taken, TypeOK, sending
<1>5. CASE CloseTopics(p)
  BY <1>1, <1>5, RemoveTyped DEF CloseTopics, Taken, TypeOK, sending
<1>6. CASE End(p)
  BY <1>1, <1>6, RemoveTyped DEF End, Taken, TypeOK, sending
<1>7. CASE Publish(p)
  <2>1. ASSUME NEW c \in Chans
        PROVE  owed[c] \o Copies(msg + 1, Due(c, call[p].topics)) \in Seq(Nat)
    <3>1. Copies(msg + 1, Due(c, call[p].topics)) \in Seq(Nat)
      BY <1>1, CopiesAreNats DEF TypeOK
    <3> QED
      BY <3>1 DEF TypeOK
  <2> QED
    BY <1>1, <1>7, <2>1 DEF Publish, Taken, TypeOK, registry
<1> QED
  BY <1>3, <1>4, <1>5, <1>6, <1>7 DEF Take

(***************************************************************************)
(* The invariant.                                                          *)
(***************************************************************************)
\* The commands that a caller can be waiting with, if nobody uses AddSub.
Offers ==
    /\ \A p \in Publishers : call[p].op \in {"none", "pub", "closeTopic", "shutdown"}
    /\ \A c \in Chans :
        /\ call[c].op \in {"none", "sub", "subOnce", "unsub"}
        /\ call[c].op \in {"sub", "subOnce"} => c \in made /\ call[c].topics # <<>>

\* The two maps of the registry say the same.
Mirrored == \A t \in Topics, c \in Chans : topics[t][c] # "no" <=> t \in revTopics[c]

\* A channel has no topics before its Sub is taken.
NotYet == \A c \in Chans \ Subscribed : revTopics[c] = {}

\* A channel is closed when it has no topics, after that.
ClosedIffLeft == closed = {c \in Subscribed : revTopics[c] = {}}

\* What a publication has still to serve: subscriptions that exist, each of another
\* channel, so that ending one SubOnce does not touch the others.
Pending == todo \cup (IF at = None THEN {} ELSE {at})

Serving ==
    /\ pc # "send" => todo = {} /\ at = None
    /\ at \notin todo
    /\ \A x \in Pending : x[1] \in revTopics[x[2]]
    /\ \A x, y \in Pending : x[2] = y[2] => x = y

IInv == TypeOK /\ Offers /\ Mirrored /\ NotYet /\ ClosedIffLeft /\ Serving /\ pc # "panicked"

LEMMA InitInv == Init => IInv
<1> SUFFICES ASSUME Init PROVE IInv
  OBVIOUS
<1>1. TypeOK
  BY InitTyped
<1>2. Offers /\ Mirrored /\ NotYet /\ ClosedIffLeft
  BY DEF Init, Offers, Mirrored, NotYet, ClosedIffLeft, Subscribed, NoCall, Callers
<1>3. Serving /\ pc # "panicked"
  BY DEF Init, Serving, Pending
<1> QED
  BY <1>1, <1>2, <1>3 DEF IInv

\* Removing subscriptions closes the channels that lose their last, none of them
\* for the second time.
LEMMA RemoveKeeps ==
    ASSUME TypeOK, Mirrored, NotYet, ClosedIffLeft, NEW R, NEW then, Remove(R, then),
           Subscribed' = Subscribed
    PROVE  Mirrored' /\ NotYet' /\ ClosedIffLeft' /\ pc' = then
<1>1. Mirrored'
  BY DEF Mirrored, Remove, TypeOK
<1>2. NotYet'
  BY DEF NotYet, Remove, TypeOK
<1>3. Left(R) = {c \in Chans : revTopics[c] # {} /\ revTopics'[c] = {}}
  BY DEF Left, Subscribers, Mirrored, Remove, TypeOK
<1>4. Left(R) \cap closed = {}
  BY <1>3 DEF ClosedIffLeft
<1>5. Left(R) \subseteq Subscribed
  BY <1>3 DEF NotYet
<1>6. \A c \in Chans : revTopics[c] = {} => revTopics'[c] = {}
  BY DEF Remove
<1>7. Subscribed \subseteq Chans
  BY DEF Subscribed, TypeOK
<1>8. ClosedIffLeft'
  BY <1>3, <1>5, <1>6, <1>7 DEF ClosedIffLeft, Remove
<1> QED
  BY <1>1, <1>2, <1>4, <1>8 DEF Remove

\* What the callers do touches only their commands.
LEMMA ClientKeeps ==
    ASSUME "addSub" \notin Ops, IInv, Client
    PROVE  IInv'
<1> USE DEF IInv
<1>1. TypeOK'
  BY ClientTyped
<1>2. ASSUME NEW p \in Callers, NEW op, NEW ts, Offer(p, op, ts), Offers', Subscribed' = Subscribed
      PROVE  IInv'
  <2>1. UNCHANGED <<topics, revTopics, closed, pc, todo, at>>
    BY <1>2 DEF Offer, registry, sending
  <2> QED
    BY <1>1, <1>2, <2>1 DEF Mirrored, NotYet, ClosedIffLeft, Serving, Pending
<1>3. ASSUME NEW c \in Chans, NEW op \in {"sub", "subOnce"}, NEW ts \in TopicLists, Sub(c, op, ts)
      PROVE  IInv'
  <2>1. call' = [call EXCEPT ![c] = [op |-> op, topics |-> ts]] /\ made' = made \cup {c} /\ ts # <<>>
    BY <1>3 DEF Sub, Offer
  <2>2. Offers'
    BY <2>1, CallersAssumption DEF Offers, TypeOK, Callers
  <2>3. Subscribed' = Subscribed
    BY <1>3, <2>1 DEF Subscribed, TypeOK, Callers, Sub
  <2> QED
    BY <1>2, <1>3, <2>2, <2>3 DEF Sub, Callers
<1>4. ASSUME NEW c \in Chans, NEW ts \in TopicLists, AddSub(c, ts)
      PROVE  IInv'
  BY <1>4 DEF AddSub, Offer
<1>5. ASSUME NEW c \in Chans, NEW ts \in TopicLists, Unsub(c, ts)
      PROVE  IInv'
  <2>1. call[c] = NoCall /\ call' = [call EXCEPT ![c] = [op |-> "unsub", topics |-> ts]] /\ made' = made
    BY <1>5 DEF Unsub, Offer
  <2>2. Offers'
    BY <2>1, CallersAssumption DEF Offers, TypeOK, Callers
  <2>3. Subscribed' = Subscribed
    BY <2>1 DEF Subscribed, TypeOK, Callers, NoCall
  <2> QED
    BY <1>2, <1>5, <2>2, <2>3 DEF Unsub, Callers
<1>6. ASSUME NEW p \in Publishers, NEW op \in {"pub", "closeTopic", "shutdown"}, NEW ts, Offer(p, op, ts),
             made' = made
      PROVE  IInv'
  <2>1. call' = [call EXCEPT ![p] = [op |-> op, topics |-> ts]]
    BY <1>6 DEF Offer
  <2>2. Offers'
    BY <1>6, <2>1, CallersAssumption DEF Offers, TypeOK, Callers
  <2>3. Subscribed' = Subscribed
    BY <1>6, <2>1, CallersAssumption DEF Subscribed, TypeOK, Callers
  <2> QED
    BY <1>2, <1>6, <2>2, <2>3 DEF Callers
<1>7. ASSUME NEW p \in Publishers, Shutdown(p)
      PROVE  IInv'
  BY <1>6, <1>7 DEF Shutdown
<1>8. ASSUME NEW p \in Publishers, NEW ts \in TopicLists, Pub(p, ts) \/ Close(p, ts)
      PROVE  IInv'
  BY <1>6, <1>8 DEF Pub, Close
<1> QED
  BY <1>3, <1>4, <1>5, <1>7, <1>8 DEF Client

LEMMA TakeKeeps ==
    ASSUME IInv, NEW p \in Callers, Take(p)
    PROVE  IInv'
<1> USE DEF IInv
<1>1. p \in Chans \/ call[p].op \notin {"sub", "subOnce", "addSub", "unsub"}
  BY DEF Offers, Callers
<1>2. TypeOK'
  BY <1>1, TakeTyped
<1>3. /\ pc = "recv" /\ todo = {} /\ at = None
      /\ call' = [call EXCEPT ![p] = NoCall] /\ made' = made /\ call[p] # NoCall
  BY DEF Take, Subscribe, Unsubscribe, CloseTopics, End, Publish, Taken, Serving
<1>4. Offers'
  BY <1>3 DEF Offers, TypeOK, NoCall
<1>5. ASSUME call[p].op \notin {"sub", "subOnce"}
      PROVE  Subscribed' = Subscribed
  BY <1>3, <1>5 DEF Subscribed, TypeOK, NoCall, Callers
<1>6. ASSUME NEW R, NEW then \in {"recv", "gone"}, Remove(R, then), call[p].op \notin {"sub", "subOnce"},
             UNCHANGED sending
      PROVE  IInv'
  <2>1. Mirrored' /\ NotYet' /\ ClosedIffLeft' /\ pc' = then
    BY <1>5, <1>6, RemoveKeeps
  <2>2. Serving'
    BY <1>3, <1>6 DEF Serving, Pending, sending
  <2> QED
    BY <1>2, <1>4, <1>6, <2>1, <2>2
<1>7. CASE Subscribe(p)
  <2>1. /\ p \in Chans /\ p \in made /\ call[p].topics \in Seq(Topics) /\ call[p].topics # <<>>
        /\ call[p].op \in {"sub", "subOnce"}
    BY <1>7, <1>1 DEF Subscribe, Offers, TypeOK, Commands, Callers
  <2>2. Range(call[p].topics) # {} /\ Range(call[p].topics) \subseteq Topics
    <3>1. 1 \in DOMAIN call[p].topics
      BY <2>1
    <3> QED
      BY <2>1, <3>1, RangeOfTopics DEF Range
  <2>3. PICK kind \in {"sub", "once"} : Add(p, call[p].topics, kind)
    BY <1>7 DEF Subscribe
  <2>4. Subscribed' = Subscribed \cup {p} /\ p \notin Subscribed
    BY <1>3, <2>1 DEF Subscribed, TypeOK, NoCall
  <2>5. revTopics' = [revTopics EXCEPT ![p] = @ \cup Range(call[p].topics)] /\ closed' = closed
    BY <2>3 DEF Add
  <2>6. Mirrored'
    BY <2>1, <2>2, <2>3 DEF Mirrored, Add, TypeOK
  <2>7. NotYet'
    BY <2>4, <2>5 DEF NotYet, TypeOK
  <2>8. Subscribed \subseteq Chans
    BY DEF Subscribed, TypeOK
  <2>9. ClosedIffLeft'
    BY <2>1, <2>2, <2>4, <2>5, <2>8 DEF ClosedIffLeft, TypeOK
  <2>10. UNCHANGED <<pc, todo, at>>
    BY <1>7 DEF Subscribe, sending
  <2>11. Serving'
    BY <1>3, <2>10 DEF Serving, Pending
  <2> QED
    BY <1>2, <1>4, <2>6, <2>7, <2>9, <2>10, <2>11
<1>8. CASE Unsubscribe(p)
  BY <1>6, <1>8 DEF Unsubscribe
<1>9. CASE CloseTopics(p)
  BY <1>6, <1>9 DEF CloseTopics
<1>10. CASE End(p)
  BY <1>6, <1>10 DEF End
<1>11. CASE Publish(p)
  <2>1. UNCHANGED <<topics, revTopics, closed, todo, at>> /\ pc' = "send" /\ call[p].op = "pub"
    BY <1>11 DEF Publish, registry
  <2>2. Subscribed' = Subscribed
    BY <1>5, <2>1
  <2> QED
    BY <1>2, <1>3, <1>4, <2>1, <2>2 DEF Mirrored, NotYet, ClosedIffLeft, Serving, Pending
<1> QED
  BY <1>7, <1>8, <1>9, <1>10, <1>11 DEF Take

LEMMA SendKeeps ==
    ASSUME IInv, Send
    PROVE  IInv'
<1> USE DEF IInv
<1>1. CASE NextTopic
  <2>1. UNCHANGED <<topics, revTopics, closed, buf, call, made, mine, pc, msg, at, got, owed>>
    BY <1>1 DEF NextTopic, registry, clients, history
  <2>2. Head(rest) \in Topics /\ rest' \in Seq(Topics)
    BY <1>1 DEF NextTopic, TypeOK
  <2>3. todo' = {Head(rest)} \X Subscribers(Head(rest))
    BY <1>1 DEF NextTopic
  <2>4. TypeOK'
    BY <2>1, <2>2, <2>3 DEF TypeOK, Subscribers
  <2>5. pc = "send" /\ at' = None
    BY <1>1, <2>1 DEF NextTopic
  <2>6. ASSUME NEW x \in todo'
        PROVE  x[1] = Head(rest) /\ x[1] \in revTopics[x[2]] /\ x = <<x[1], x[2]>>
    <3>1. PICK c \in Chans : x = <<Head(rest), c>> /\ topics[Head(rest)][c] # "no"
      BY <2>3, <2>6 DEF Subscribers
    <3> QED
      BY <2>2, <3>1 DEF Mirrored
  <2>7. None \notin todo'
    BY <2>2, <2>3, CallersAssumption DEF Subscribers
  <2>8. Serving'
    BY <2>1, <2>5, <2>6, <2>7 DEF Serving, Pending
  <2> QED
    BY <2>1, <2>4, <2>8 DEF Offers, Mirrored, NotYet, ClosedIffLeft, Subscribed
<1>2. CASE PickChannel
  <2>1. UNCHANGED <<topics, revTopics, closed, buf, call, made, mine, pc, msg, rest, got, owed>>
    BY <1>2 DEF PickChannel, registry, clients, history
  <2>2. at = None /\ at' \in todo /\ todo' = todo \ {at'}
    BY <1>2 DEF PickChannel
  <2>3. TypeOK'
    BY <2>1, <2>2 DEF TypeOK
  <2>4. Serving'
    BY <1>2, <2>1, <2>2 DEF PickChannel, Serving, Pending
  <2> QED
    BY <2>1, <2>3, <2>4 DEF Offers, Mirrored, NotYet, ClosedIffLeft, Subscribed
<1>3. CASE Deliver
  <2>1. UNCHANGED <<call, made, mine, msg, rest, todo, got, owed>>
    BY <1>3 DEF Deliver, clients, history
  <2>2. PICK R : Remove(R, "send") /\ (R = {} \/ R = Topics \X {at[2]})
    BY <1>3 DEF Deliver
  <2>3. at \in Topics \X Chans /\ at' = None /\ pc = "send"
    BY <1>3 DEF Deliver, TypeOK
  <2>4. Subscribed' = Subscribed
    BY <2>1 DEF Subscribed
  <2>5. Mirrored' /\ NotYet' /\ ClosedIffLeft' /\ pc' = "send"
    BY <2>2, <2>4, RemoveKeeps
  <2>7. buf' \in [Chans -> Seq(Nat)] /\ \A c \in Chans : Len(buf'[c]) <= Capacity
    <3>1. buf' = [buf EXCEPT ![at[2]] = Append(@, msg)] /\ at[2] \in Chans /\ Len(buf[at[2]]) < Capacity
      BY <1>3, <2>3 DEF Deliver
    <3>2. /\ Append(buf[at[2]], msg) \in Seq(Nat)
          /\ Len(Append(buf[at[2]], msg)) <= Capacity
      BY <3>1, CapacityAssumption DEF TypeOK
    <3> QED
      BY <3>1, <3>2 DEF TypeOK
  <2>8. TypeOK'
    <3>1. /\ topics' \in [Topics -> [Chans -> {"no", "sub", "once"}]]
          /\ revTopics' \in [Chans -> SUBSET Topics] /\ closed' \subseteq Chans
      BY <2>2, RemoveTyped
    <3> QED
      BY <2>1, <2>3, <2>5, <2>7, <3>1 DEF TypeOK
  <2>9. \A x \in todo : x[2] # at[2] /\ x \in Topics \X Chans
    BY <1>3 DEF Deliver, Serving, Pending, TypeOK
  <2>10. \A x \in todo : revTopics'[x[2]] = revTopics[x[2]]
    BY <2>2, <2>9 DEF Remove, TypeOK
  <2>11. Serving'
    BY <2>1, <2>3, <2>5, <2>10, CallersAssumption DEF Serving, Pending, TypeOK
  <2> QED
    BY <2>1, <2>5, <2>8, <2>11 DEF Offers
<1>4. CASE SendOnClosed
  <2>1. at \in Pending /\ at[2] \in closed
    BY <1>4 DEF SendOnClosed, Pending
  <2> QED
    BY <2>1 DEF Serving, ClosedIffLeft
<1>5. CASE EndPublish
  <2>1. UNCHANGED <<topics, revTopics, closed, buf, call, made, mine, msg, rest, todo, at, got, owed>>
    BY <1>5 DEF EndPublish, registry, clients, history, sending
  <2> QED
    BY <1>5, <2>1 DEF EndPublish, TypeOK, Offers, Mirrored, NotYet, ClosedIffLeft, Subscribed, Serving, Pending
<1> QED
  BY <1>1, <1>2, <1>3, <1>4, <1>5 DEF Send

LEMMA ReadKeeps ==
    ASSUME IInv, NEW c \in Chans, Read(c)
    PROVE  IInv'
<1>1. UNCHANGED <<topics, revTopics, closed, call, made, mine, pc, msg, rest, todo, at, owed>>
  BY DEF Read, registry, clients, sending
<1>2. buf[c] \in Seq(Nat) /\ buf[c] # <<>> /\ Len(buf[c]) <= Capacity
  BY DEF Read, IInv, TypeOK
<1>3. Head(buf[c]) \in Nat /\ Tail(buf[c]) \in Seq(Nat) /\ Len(Tail(buf[c])) <= Capacity
  BY <1>2, CapacityAssumption
<1>4. got[c] \in Seq(Nat) /\ Append(got[c], Head(buf[c])) \in Seq(Nat)
  BY <1>3 DEF IInv, TypeOK
<1>5. TypeOK'
  BY <1>1, <1>3, <1>4 DEF Read, IInv, TypeOK
<1> QED
  BY <1>1, <1>5 DEF IInv, Offers, Mirrored, NotYet, ClosedIffLeft, Subscribed, Serving, Pending

LEMMA StepKeeps ==
    ASSUME "addSub" \notin Ops, IInv, [Next]_vars
    PROVE  IInv'
<1>1. CASE Next
  BY <1>1, ClientKeeps, TakeKeeps, SendKeeps, ReadKeeps DEF Next
<1>2. CASE UNCHANGED vars
  BY <1>2 DEF vars, registry, clients, sending, history, IInv, TypeOK, Offers, Mirrored, NotYet,
              ClosedIffLeft, Subscribed, Serving, Pending
<1> QED
  BY <1>1, <1>2

\* Without AddSub the registry's fields keep their types, and no channel holds more
\* than its capacity (pubsub.go:60).
THEOREM TypeCorrect ==
    ASSUME "addSub" \notin Ops
    PROVE  Spec => []TypeOK
<1>1. IInv /\ [Next]_vars => IInv'
  BY StepKeeps
<1>2. IInv => TypeOK
  BY DEF IInv
<1> QED
  BY InitInv, <1>1, <1>2, PTL DEF Spec

\* Without AddSub no message is sent on a closed channel and no channel is closed
\* twice (pubsub.go:168 and 206).
THEOREM NeverPanics ==
    ASSUME "addSub" \notin Ops
    PROVE  Spec => []NoPanic
<1>1. IInv /\ [Next]_vars => IInv'
  BY StepKeeps
<1>2. IInv => NoPanic
  BY DEF IInv, NoPanic
<1> QED
  BY InitInv, <1>1, <1>2, PTL DEF Spec

\* Without AddSub a channel is closed when its last topic goes, by whatever
\* operation, and not before (pubsub.go:205-208).
THEOREM ClosedExactlyWhenLeft ==
    ASSUME "addSub" \notin Ops
    PROVE  Spec => []ClosedWhenLeft
<1>1. IInv /\ [Next]_vars => IInv'
  BY StepKeeps
<1>2. IInv => ClosedWhenLeft
  BY DEF IInv, ClosedWhenLeft, ClosedIffLeft, Mirrored, Subscribers, Subscribed, TypeOK
<1> QED
  BY InitInv, <1>1, <1>2, PTL DEF Spec

-------------------------------------------------------------------------------

(***************************************************************************)
(* Sequences of one message.                                               *)
(***************************************************************************)
Repeat(m, n) == [i \in 1 .. n |-> m]

LEMMA RepeatTyped ==
    ASSUME NEW m \in Nat, NEW n \in Nat
    PROVE  Repeat(m, n) \in Seq(Nat) /\ Len(Repeat(m, n)) = n
  BY DEF Repeat

LEMMA Regroup ==
    \A s, t, u \in Seq(Nat) : (s \o t) \o u = s \o (t \o u)
  BY ConcatAssociative, SMTT(30)

\* The last message sent is one less to send.
LEMMA OneLess ==
    ASSUME NEW s \in Seq(Nat), NEW m \in Nat, NEW n \in Nat
    PROVE  s \o Repeat(m, n + 1) = Append(s, m) \o Repeat(m, n)
<1>1. <<m>> \in Seq(Nat) /\ Repeat(m, n) \in Seq(Nat) /\ Len(Repeat(m, n)) = n
  BY RepeatTyped
<1>2. Repeat(m, n + 1) = <<m>> \o Repeat(m, n)
  <2>1. Repeat(m, n + 1) \in Seq(Nat) /\ Len(Repeat(m, n + 1)) = n + 1
    BY RepeatTyped
  <2>2. <<m>> \o Repeat(m, n) \in Seq(Nat) /\ Len(<<m>> \o Repeat(m, n)) = n + 1
    BY <1>1
  <2>3. ASSUME NEW i \in 1 .. n + 1
        PROVE  Repeat(m, n + 1)[i] = (<<m>> \o Repeat(m, n))[i]
    <3>1. i # 1 => Repeat(m, n)[i - 1] = m
      BY DEF Repeat
    <3>2. (<<m>> \o Repeat(m, n))[i] = IF i = 1 THEN m ELSE Repeat(m, n)[i - 1]
      BY <1>1
    <3>3. Repeat(m, n + 1)[i] = m
      BY DEF Repeat
    <3> QED
      BY <3>1, <3>2, <3>3
  <2> QED
    BY <2>1, <2>2, <2>3, SeqEqual
<1>3. Append(s, m) = s \o <<m>>
  BY AppendIsConcat
<1>4. (s \o <<m>>) \o Repeat(m, n) = s \o (<<m>> \o Repeat(m, n))
  BY <1>1, Regroup
<1> QED
  BY <1>2, <1>3, <1>4

LEMMA AppendAtEnd ==
    \A s, t \in Seq(Nat), m \in Nat :
        s \o t \in Seq(Nat) /\ s \o Append(t, m) = Append(s \o t, m)
<1> SUFFICES ASSUME NEW s \in Seq(Nat), NEW t \in Seq(Nat), NEW m \in Nat
             PROVE  s \o t \in Seq(Nat) /\ s \o Append(t, m) = Append(s \o t, m)
  OBVIOUS
<1>1. <<m>> \in Seq(Nat) /\ s \o t \in Seq(Nat)
  OBVIOUS
<1>2. Append(t, m) = t \o <<m>>
  BY AppendIsConcat
<1>3. Append(s \o t, m) = (s \o t) \o <<m>>
  BY <1>1, AppendIsConcat
<1>4. (s \o t) \o <<m>> = s \o (t \o <<m>>)
  BY <1>1, Regroup
<1> QED
  BY <1>1, <1>2, <1>3, <1>4

\* What has been read and what is still in the channel.
LEMMA ReadMoves ==
    ASSUME NEW s \in Seq(Nat), NEW t \in Seq(Nat), t # <<>>
    PROVE  Append(s, Head(t)) \o Tail(t) = s \o t
<1>1. Head(t) \in Nat /\ <<Head(t)>> \in Seq(Nat) /\ Tail(t) \in Seq(Nat)
  OBVIOUS
<1>2. Append(s, Head(t)) = s \o <<Head(t)>>
  BY <1>1, AppendIsConcat
<1>3. t = <<Head(t)>> \o Tail(t)
  <2>1. <<Head(t)>> \o Tail(t) \in Seq(Nat) /\ Len(<<Head(t)>> \o Tail(t)) = Len(t)
    BY <1>1
  <2>2. \A i \in 1 .. Len(t) : t[i] = (<<Head(t)>> \o Tail(t))[i]
    BY <1>1
  <2> QED
    BY <2>1, <2>2, SeqEqual
<1>4. (s \o <<Head(t)>>) \o Tail(t) = s \o (<<Head(t)>> \o Tail(t))
  BY <1>1, ConcatAssociative
<1> QED
  BY <1>2, <1>3, <1>4

(***************************************************************************)
(* How often a publication is due to a channel, topic by topic.            *)
(***************************************************************************)
DueNumber(c, ts) == Cardinality(Due(c, ts))

LEMMA DueFinite ==
    ASSUME NEW c, NEW ts \in Seq(Topics)
    PROVE  IsFiniteSet(Due(c, ts)) /\ DueNumber(c, ts) \in Nat
<1>1. Due(c, ts) \subseteq 1 .. Len(ts)
  BY DEF Due
<1> QED
  <2>1. IsFiniteSet(1 .. Len(ts))
    BY FS_Interval
  <2>2. IsFiniteSet(Due(c, ts))
    BY <1>1, <2>1, FS_Subset
  <2> QED
    BY <2>2, FS_CardinalityType DEF DueNumber

LEMMA NothingDue ==
    ASSUME NEW c
    PROVE  DueNumber(c, <<>>) = 0
  BY FS_EmptySet DEF Due, DueNumber

\* The places shift by one when the first topic is done.
LEMMA Shift ==
    ASSUME NEW S \in SUBSET Nat, IsFiniteSet(S)
    PROVE  /\ IsFiniteSet({i + 1 : i \in S})
           /\ Cardinality({i + 1 : i \in S}) = Cardinality(S)
<1> DEFINE T == {i + 1 : i \in S}
           f == [i \in S |-> i + 1]
<1>1. f \in Bijection(S, T)
  BY DEF Bijection, Injection, Surjection, IsInjective
<1>2. ExistsBijection(S, T)
  BY <1>1 DEF ExistsBijection
<1> QED
  BY <1>2, FS_Bijection

LEMMA DueByTopic ==
    ASSUME NEW c \in Chans, NEW ts \in Seq(Topics), ts # <<>>, TypeOK
    PROVE  DueNumber(c, ts) = CASE topics[Head(ts)][c] = "no" -> DueNumber(c, Tail(ts))
                                [] topics[Head(ts)][c] = "once" -> 1
                                [] topics[Head(ts)][c] = "sub" -> DueNumber(c, Tail(ts)) + 1
<1> DEFINE later == {i + 1 : i \in Due(c, Tail(ts))}
<1>1. /\ Tail(ts) \in Seq(Topics) /\ Len(Tail(ts)) = Len(ts) - 1 /\ Len(ts) \in Nat \ {0}
      /\ \A i \in 1 .. Len(ts) - 1 : Tail(ts)[i] = ts[i + 1]
      /\ Head(ts) = ts[1] /\ Head(ts) \in Topics
      /\ DOMAIN ts = 1 .. Len(ts) /\ DOMAIN Tail(ts) = 1 .. Len(ts) - 1
  OBVIOUS
<1>2. /\ IsFiniteSet(Due(c, Tail(ts))) /\ Due(c, Tail(ts)) \subseteq 1 .. Len(ts) - 1
  BY <1>1, DueFinite DEF Due
<1>3. IsFiniteSet(later) /\ Cardinality(later) = DueNumber(c, Tail(ts)) /\ 1 \notin later
  <2>1. Due(c, Tail(ts)) \in SUBSET Nat
    BY <1>2
  <2>2. IsFiniteSet(later) /\ Cardinality(later) = Cardinality(Due(c, Tail(ts)))
    BY <1>2, <2>1, Shift
  <2>3. 1 \notin later
    BY <1>2
  <2> QED
    BY <2>2, <2>3 DEF DueNumber
<1>4. ASSUME topics[Head(ts)][c] # "once", NEW i \in 2 .. Len(ts)
      PROVE  i \in Due(c, ts) <=> i - 1 \in Due(c, Tail(ts))
  <2>1. i - 1 \in 1 .. Len(ts) - 1 /\ Tail(ts)[i - 1] = ts[i]
    BY <1>1
  <2>2. (\A j \in 1 .. i - 1 : topics[ts[j]][c] # "once")
        <=> (\A j \in 1 .. (i - 1) - 1 : topics[Tail(ts)[j]][c] # "once")
    <3>1. ASSUME NEW j \in 1 .. (i - 1) - 1
          PROVE  j + 1 \in 1 .. i - 1 /\ Tail(ts)[j] = ts[j + 1]
      BY <1>1
    <3>2. ASSUME NEW j \in 1 .. i - 1, j # 1
          PROVE  j - 1 \in 1 .. (i - 1) - 1 /\ Tail(ts)[j - 1] = ts[j]
      BY <1>1, <3>2
    <3> QED
      <4>1. ASSUME \A j \in 1 .. (i - 1) - 1 : topics[Tail(ts)[j]][c] # "once", NEW j \in 1 .. i - 1
            PROVE  topics[ts[j]][c] # "once"
        BY <1>1, <1>4, <3>2, <4>1
      <4>2. ASSUME \A j \in 1 .. i - 1 : topics[ts[j]][c] # "once", NEW j \in 1 .. (i - 1) - 1
            PROVE  topics[Tail(ts)[j]][c] # "once"
        BY <3>1, <4>2
      <4> QED
        BY <4>1, <4>2
  <2> QED
    BY <1>1, <2>1, <2>2 DEF Due
<1>5. 1 \in Due(c, ts) <=> topics[Head(ts)][c] # "no"
  BY <1>1 DEF Due, Subscribers
<1>6. CASE topics[Head(ts)][c] = "once"
  <2>1. ASSUME NEW i \in Due(c, ts)
        PROVE  i = 1
    BY <1>1, <1>6 DEF Due
  <2>2. Due(c, ts) = {1}
    BY <1>5, <1>6, <2>1
  <2> QED
    BY <1>6, <2>2, FS_Singleton DEF DueNumber
<1>7. CASE topics[Head(ts)][c] # "once"
  <2>1. Due(c, ts) \ {1} = later
    <3>1. ASSUME NEW i \in Due(c, ts) \ {1}
          PROVE  i \in later
      <4>1. i \in 2 .. Len(ts) /\ i - 1 \in Due(c, Tail(ts)) /\ (i - 1) + 1 = i
        BY <1>1, <1>4, <1>7, <3>1 DEF Due
      <4> QED
        BY <4>1
    <3>2. ASSUME NEW i \in Due(c, Tail(ts))
          PROVE  i + 1 \in Due(c, ts) \ {1}
      <4>1. i + 1 \in 2 .. Len(ts) /\ (i + 1) - 1 = i
        BY <1>1, <1>2
      <4> QED
        BY <1>4, <1>7, <4>1
    <3> QED
      BY <3>1, <3>2
  <2>2. topics[Head(ts)][c] \in {"no", "sub"}
    BY <1>1, <1>7 DEF TypeOK
  <2>3. CASE topics[Head(ts)][c] = "no"
    <3>1. Due(c, ts) = later
      BY <1>5, <2>1, <2>3
    <3> QED
      BY <1>3, <2>3, <3>1 DEF DueNumber
  <2>4. CASE topics[Head(ts)][c] = "sub"
    <3>1. Due(c, ts) = later \cup {1}
      BY <1>5, <2>1, <2>4
    <3> QED
      BY <1>3, <2>4, <3>1, FS_AddElement DEF DueNumber
  <2> QED
    BY <2>2, <2>3, <2>4
<1> QED
  BY <1>6, <1>7

(***************************************************************************)
(* The invariant.                                                          *)
(***************************************************************************)
\* A channel's subscriptions are all of one kind, as only one call makes them.
OneKind == \A c \in Chans, t, u \in Topics :
    topics[t][c] = "once" => topics[u][c] \in {"no", "once"}

IsOnce(c) == \E t \in Topics : topics[t][c] = "once"

Told(c) == got[c] \o buf[c]

\* Before its Sub is taken a channel has been told nothing.
Fresh == \A c \in Chans \ Subscribed : Told(c) = <<>>

\* How often the publication at hand is still to be sent to c.
Ahead(c) ==
    IF pc # "send" THEN 0
    ELSE IF \E x \in Pending : x[2] = c
         THEN IF IsOnce(c) THEN 1 ELSE DueNumber(c, rest) + 1
         ELSE DueNumber(c, rest)

OnItsWay == \A c \in Chans : owed[c] = Told(c) \o Repeat(msg, Ahead(c))

SInv == IInv /\ OneKind /\ Fresh /\ OnlyOnce /\ OnItsWay

LEMMA AheadTyped ==
    ASSUME TypeOK, NEW c \in Chans
    PROVE  Ahead(c) \in Nat /\ Told(c) \in Seq(Nat)
<1>1. DueNumber(c, rest) \in Nat
  BY DueFinite DEF TypeOK
<1>2. got[c] \in Seq(Nat) /\ buf[c] \in Seq(Nat)
  BY DEF TypeOK
<1> QED
  BY <1>1, <1>2 DEF Ahead, Told

LEMMA InitServed == Init => SInv
<1> SUFFICES ASSUME Init PROVE SInv
  OBVIOUS
<1>1. OneKind
  BY DEF Init, OneKind
<1>2. \A c \in Chans : Told(c) = <<>>
  BY DEF Init, Told
<1>3. \A c \in Chans : Ahead(c) = 0
  BY DEF Init, Ahead
<1>4. ASSUME NEW c \in Chans
      PROVE  owed[c] = Told(c) \o Repeat(msg, Ahead(c))
  <2>1. Repeat(msg, 0) = <<>>
    BY DEF Repeat
  <2> QED
    BY <1>2, <1>3, <2>1 DEF Init
<1> QED
  BY <1>1, <1>2, <1>4, InitInv DEF SInv, Fresh, OnlyOnce, OnItsWay, Told

\* A step that leaves the sending alone and takes subscriptions away at most.
LEMMA FewerServed ==
    ASSUME SInv, IInv', UNCHANGED <<buf, got, owed, msg>>, Subscribed \subseteq Subscribed',
           \A c \in Chans, t \in Topics : topics'[t][c] \in {"no", topics[t][c]},
           \A c \in Chans : Ahead(c)' = Ahead(c)
    PROVE  SInv'
<1>1. \A c \in Chans : Told(c)' = Told(c)
  BY DEF Told
<1>2. OneKind'
  BY DEF OneKind, SInv
<1>3. Fresh'
  BY <1>1 DEF Fresh, SInv
<1>4. OnlyOnce'
  BY DEF OnlyOnce, SInv
<1>5. OnItsWay'
  BY <1>1 DEF OnItsWay, SInv
<1> QED
  BY <1>2, <1>3, <1>4, <1>5 DEF SInv

LEMMA ClientServed ==
    ASSUME "addSub" \notin Ops, SInv, Client
    PROVE  SInv'
<1>1. IInv'
  BY ClientKeeps DEF SInv
<1>2. ASSUME NEW p \in Callers, NEW op, NEW ts, Offer(p, op, ts), Subscribed' = Subscribed
      PROVE  SInv'
  <2>1. UNCHANGED <<topics, buf, got, owed, pc, msg, rest, todo, at>>
    BY <1>2 DEF Offer, registry, sending, history
  <2>2. \A c \in Chans : Ahead(c)' = Ahead(c)
    BY <2>1 DEF Ahead, Pending, IsOnce, DueNumber, Due, Subscribers
  <2> QED
    BY <1>1, <1>2, <2>1, <2>2, FewerServed
<1>3. ASSUME NEW c \in Chans, NEW op \in {"sub", "subOnce"}, NEW ts \in TopicLists, Sub(c, op, ts)
      PROVE  SInv'
  <2>1. call' = [call EXCEPT ![c] = [op |-> op, topics |-> ts]] /\ made' = made \cup {c} /\ c \notin made
    BY <1>3 DEF Sub, Offer
  <2>2. Subscribed' = Subscribed
    BY <1>3, <2>1 DEF Subscribed, SInv, IInv, TypeOK, Callers
  <2> QED
    BY <1>2, <1>3, <2>2 DEF Sub, Callers
<1>4. ASSUME NEW c \in Chans, NEW ts \in TopicLists, Unsub(c, ts)
      PROVE  SInv'
  <2>1. call[c] = NoCall /\ call' = [call EXCEPT ![c] = [op |-> "unsub", topics |-> ts]] /\ made' = made
    BY <1>4 DEF Unsub, Offer
  <2>2. Subscribed' = Subscribed
    BY <2>1 DEF Subscribed, SInv, IInv, TypeOK, Callers, NoCall
  <2> QED
    BY <1>2, <1>4, <2>2 DEF Unsub, Callers
<1>5. ASSUME NEW p \in Publishers, NEW op, NEW ts, Offer(p, op, ts), made' = made
      PROVE  SInv'
  <2>1. call' = [call EXCEPT ![p] = [op |-> op, topics |-> ts]]
    BY <1>5 DEF Offer
  <2>2. Subscribed' = Subscribed
    BY <1>5, <2>1, CallersAssumption DEF Subscribed, SInv, IInv, TypeOK, Callers
  <2> QED
    BY <1>2, <1>5, <2>2 DEF Callers
<1>6. ASSUME NEW p \in Publishers, NEW ts \in TopicLists, Pub(p, ts) \/ Close(p, ts) \/ Shutdown(p)
      PROVE  SInv'
  BY <1>5, <1>6 DEF Pub, Close, Shutdown
<1>7. ASSUME NEW c \in Chans, NEW ts \in TopicLists, AddSub(c, ts)
      PROVE  SInv'
  BY <1>7 DEF AddSub, Offer
<1>8. ASSUME NEW p \in Publishers, Shutdown(p)
      PROVE  SInv'
  BY <1>5, <1>8 DEF Shutdown
<1> QED
  BY <1>3, <1>4, <1>6, <1>7, <1>8 DEF Client

\* Reading moves a message from the channel to its reader.
LEMMA ReadServed ==
    ASSUME SInv, NEW r \in Chans, Read(r)
    PROVE  SInv'
<1>1. IInv'
  BY ReadKeeps DEF SInv
<1>2. UNCHANGED <<topics, call, made, pc, msg, rest, todo, at, owed>>
  BY DEF Read, registry, clients, sending
<1>3. ASSUME NEW c \in Chans
      PROVE  Told(c)' = Told(c)
  <2>1. CASE c = r
    <3>1. got[c] \in Seq(Nat) /\ buf[c] \in Seq(Nat) /\ buf[c] # <<>>
      BY <2>1 DEF Read, SInv, IInv, TypeOK
    <3>2. got'[c] = Append(got[c], Head(buf[c])) /\ buf'[c] = Tail(buf[c])
      BY <2>1 DEF Read, SInv, IInv, TypeOK
    <3> QED
      BY <3>1, <3>2, ReadMoves DEF Told
  <2>2. CASE c # r
    BY <2>2 DEF Read, Told, SInv, IInv, TypeOK
  <2> QED
    BY <2>1, <2>2
<1>4. \A c \in Chans : Ahead(c)' = Ahead(c)
  BY <1>2 DEF Ahead, Pending, IsOnce, DueNumber, Due, Subscribers
<1>5. Subscribed' = Subscribed
  BY <1>2 DEF Subscribed
<1>6. Fresh'
  BY <1>3, <1>5 DEF Fresh, SInv
<1>7. OnlyOnce'
  BY <1>2, <1>3 DEF OnlyOnce, SInv, Told
<1>8. OnItsWay'
  BY <1>2, <1>3, <1>4 DEF OnItsWay, SInv
<1>9. OneKind'
  BY <1>2 DEF OneKind, SInv
<1> QED
  BY <1>1, <1>6, <1>7, <1>8, <1>9 DEF SInv

\* Taking a command: only Sub and SubOnce add to the registry, only Pub starts to
\* send.
LEMMA TakeServed ==
    ASSUME SInv, NEW p \in Callers, Take(p)
    PROVE  SInv'
<1>1. IInv'
  BY TakeKeeps DEF SInv
<1>2. /\ pc = "recv" /\ todo = {} /\ at = None /\ buf' = buf /\ got' = got
      /\ call' = [call EXCEPT ![p] = NoCall] /\ made' = made /\ call[p] # NoCall
  BY DEF Take, Subscribe, Unsubscribe, CloseTopics, End, Publish, Taken, SInv, IInv, Serving
<1>3. \A c \in Chans : Ahead(c) = 0
  BY <1>2 DEF Ahead
<1>4. Subscribed \subseteq Subscribed'
  BY <1>2 DEF Subscribed, SInv, IInv, TypeOK, NoCall, Callers
<1>5. \A c \in Chans : Told(c)' = Told(c)
  BY <1>2 DEF Told
<1>6. ASSUME NEW R, NEW then, then # "send", Remove(R, then), UNCHANGED sending, owed' = owed
      PROVE  SInv'
  <2>1. \A c \in Chans, t \in Topics : topics'[t][c] \in {"no", topics[t][c]}
    BY <1>6 DEF Remove, SInv, IInv, TypeOK
  <2>2. \A c \in Chans : Ahead(c)' = 0
    BY <1>6 DEF Ahead, Remove
  <2> QED
    BY <1>1, <1>2, <1>3, <1>4, <1>6, <2>1, <2>2, FewerServed DEF sending
<1>7. CASE Subscribe(p)
  <2>1. /\ p \in Chans /\ p \in made /\ call[p].topics \in Seq(Topics)
        /\ call[p].op \in {"sub", "subOnce"}
    BY <1>2, <1>7 DEF Subscribe, SInv, IInv, Offers, TypeOK, Commands, Callers
  <2>2. Range(call[p].topics) \subseteq Topics
    BY <2>1, RangeOfTopics
  <2>3. PICK kind \in {"sub", "once"} : Add(p, call[p].topics, kind)
    BY <1>7 DEF Subscribe
  <2>4. p \notin Subscribed /\ \A t \in Topics : topics[t][p] = "no"
    BY <2>1 DEF Subscribed, SInv, IInv, NotYet, Mirrored
  <2>5. UNCHANGED <<pc, msg, rest, todo, at, owed>>
    BY <1>7 DEF Subscribe, sending
  <2>6. \A t \in Topics : /\ topics'[t][p] \in {"no", kind}
                          /\ \A c \in Chans \ {p} : topics'[t][c] = topics[t][c]
    BY <2>1, <2>2, <2>3, <2>4 DEF Add, SInv, IInv, TypeOK
  <2>7. OneKind'
    BY <2>1, <2>3, <2>6 DEF OneKind, SInv
  <2>8. Fresh'
    BY <1>4, <1>5 DEF Fresh, SInv
  <2>9. Told(p)' = <<>>
    BY <1>5, <2>1, <2>4 DEF Fresh, SInv
  <2>10. OnlyOnce'
    BY <1>5, <2>6, <2>9 DEF OnlyOnce, SInv, Told
  <2>11. OnItsWay'
    <3>1. \A c \in Chans : Ahead(c)' = Ahead(c)
      BY <1>2, <1>3, <2>5 DEF Ahead
    <3> QED
      BY <1>5, <2>5, <3>1 DEF OnItsWay, SInv
  <2> QED
    BY <1>1, <2>7, <2>8, <2>10, <2>11 DEF SInv
<1>8. CASE Unsubscribe(p)
  BY <1>6, <1>8 DEF Unsubscribe
<1>9. CASE CloseTopics(p)
  BY <1>6, <1>9 DEF CloseTopics
<1>10. CASE End(p)
  BY <1>6, <1>10 DEF End
<1>11. CASE Publish(p)
  <2>1. /\ UNCHANGED <<topics, todo, at>> /\ pc' = "send" /\ msg' = msg + 1 /\ rest' = call[p].topics
        /\ owed' = [c \in Chans |-> owed[c] \o Copies(msg + 1, Due(c, call[p].topics))]
    BY <1>11 DEF Publish, registry
  <2>2. OneKind' /\ Fresh' /\ OnlyOnce'
    BY <1>4, <1>5, <2>1 DEF OneKind, Fresh, OnlyOnce, SInv, Told
  <2>3. ASSUME NEW c \in Chans
        PROVE  owed'[c] = Told(c)' \o Repeat(msg', Ahead(c)')
    <3>1. Ahead(c)' = DueNumber(c, call[p].topics)
      BY <1>2, <2>1 DEF Ahead, Pending, DueNumber, Due, Subscribers
    <3>2. Copies(msg + 1, Due(c, call[p].topics)) = Repeat(msg + 1, DueNumber(c, call[p].topics))
      BY DEF Copies, Repeat, DueNumber
    <3>3. owed[c] = Told(c)
      <4>1. owed[c] = Told(c) \o Repeat(msg, 0)
        BY <1>3 DEF OnItsWay, SInv
      <4>2. Repeat(msg, 0) = <<>>
        BY DEF Repeat
      <4>3. Told(c) \in Seq(Nat)
        BY AheadTyped DEF SInv, IInv
      <4> QED
        BY <4>1, <4>2, <4>3
    <3> QED
      BY <1>5, <2>1, <3>1, <3>2, <3>3
  <2> QED
    BY <1>1, <2>2, <2>3 DEF SInv, OnItsWay
<1> QED
  BY <1>7, <1>8, <1>9, <1>10, <1>11 DEF Take

\* Going to the next topic moves its subscriptions from the topics to come to those
\* to be served.
LEMMA NextTopicServed ==
    ASSUME SInv, NextTopic
    PROVE  SInv'
<1>1. IInv'
  BY SendKeeps DEF SInv, Send
<1>2. /\ UNCHANGED <<topics, revTopics, closed, buf, call, made, mine, pc, msg, at, got, owed>>
      /\ pc = "send" /\ todo = {} /\ at = None /\ rest # <<>>
      /\ todo' = {Head(rest)} \X Subscribers(Head(rest)) /\ rest' = Tail(rest)
  BY DEF NextTopic, registry, clients, history
<1>3. rest \in Seq(Topics) /\ Head(rest) \in Topics /\ Tail(rest) \in Seq(Topics)
  BY <1>2 DEF SInv, IInv, TypeOK
<1>4. ASSUME NEW c \in Chans
      PROVE  Ahead(c)' = Ahead(c)
  <2>1. (\E x \in Pending' : x[2] = c) <=> topics[Head(rest)][c] # "no"
    <3>1. Pending' = {Head(rest)} \X Subscribers(Head(rest))
      BY <1>2 DEF Pending
    <3>2. \A x \in Pending' : x[2] \in Subscribers(Head(rest))
      BY <3>1
    <3>3. ASSUME c \in Subscribers(Head(rest))
          PROVE  \E x \in Pending' : x[2] = c
      <4>1. <<Head(rest), c>> \in Pending' /\ <<Head(rest), c>>[2] = c
        BY <3>1, <3>3
      <4> QED
        BY <4>1
    <3> QED
      BY <3>2, <3>3 DEF Subscribers
  <2>2. Ahead(c) = DueNumber(c, rest)
    BY <1>2 DEF Ahead, Pending
  <2>3. IsOnce(c)' = IsOnce(c) /\ DueNumber(c, rest)' = DueNumber(c, Tail(rest))
    BY <1>2 DEF IsOnce, DueNumber, Due, Subscribers
  <2>4. topics[Head(rest)][c] \in {"no", "sub", "once"}
    BY <1>3 DEF SInv, IInv, TypeOK
  <2>5. topics[Head(rest)][c] = "once" => IsOnce(c)
    BY <1>3 DEF IsOnce
  <2>6. topics[Head(rest)][c] = "sub" => ~ IsOnce(c)
    BY <1>3 DEF IsOnce, OneKind, SInv
  <2>7. CASE topics[Head(rest)][c] = "no"
    <3>1. DueNumber(c, rest) = DueNumber(c, Tail(rest))
      BY <1>2, <1>3, <2>7, DueByTopic DEF SInv, IInv
    <3>2. Ahead(c)' = DueNumber(c, Tail(rest))
      BY <1>2, <2>1, <2>3, <2>7 DEF Ahead
    <3> QED
      BY <2>2, <3>1, <3>2
  <2>8. CASE topics[Head(rest)][c] = "once"
    <3>1. DueNumber(c, rest) = 1
      BY <1>2, <1>3, <2>8, DueByTopic DEF SInv, IInv
    <3>2. Ahead(c)' = 1
      BY <1>2, <2>1, <2>3, <2>5, <2>8 DEF Ahead
    <3> QED
      BY <2>2, <3>1, <3>2
  <2>9. CASE topics[Head(rest)][c] = "sub"
    <3>1. DueNumber(c, rest) = DueNumber(c, Tail(rest)) + 1
      BY <1>2, <1>3, <2>9, DueByTopic DEF SInv, IInv
    <3>2. Ahead(c)' = DueNumber(c, Tail(rest)) + 1
      BY <1>2, <2>1, <2>3, <2>6, <2>9 DEF Ahead
    <3> QED
      BY <2>2, <3>1, <3>2
  <2> QED
    BY <2>4, <2>7, <2>8, <2>9
<1>5. Subscribed' = Subscribed /\ \A c \in Chans, t \in Topics : topics'[t][c] = topics[t][c]
  BY <1>2 DEF Subscribed
<1> QED
  BY <1>1, <1>2, <1>4, <1>5, FewerServed

LEMMA PickChannelServed ==
    ASSUME SInv, PickChannel
    PROVE  SInv'
<1>1. IInv'
  BY SendKeeps DEF SInv, Send
<1>2. UNCHANGED <<topics, revTopics, closed, buf, call, made, mine, pc, msg, rest, got, owed>>
  BY DEF PickChannel, registry, clients, history
<1>3. Pending' = Pending
  <2>1. at' # None
    BY CallersAssumption DEF PickChannel, SInv, IInv, TypeOK
  <2> QED
    BY <2>1 DEF PickChannel, Pending
<1>4. \A c \in Chans : Ahead(c)' = Ahead(c)
  BY <1>2, <1>3 DEF Ahead, IsOnce, DueNumber, Due, Subscribers
<1>5. Subscribed' = Subscribed /\ \A c \in Chans, t \in Topics : topics'[t][c] = topics[t][c]
  BY <1>2 DEF Subscribed
<1> QED
  BY <1>1, <1>2, <1>4, <1>5, FewerServed

\* Nothing is left to send when the publication ends.
LEMMA EndPublishServed ==
    ASSUME SInv, EndPublish
    PROVE  SInv'
<1>1. IInv'
  BY SendKeeps DEF SInv, Send
<1>2. /\ UNCHANGED <<topics, revTopics, closed, buf, call, made, mine, msg, rest, todo, at, got, owed>>
      /\ pc = "send" /\ pc' = "recv" /\ todo = {} /\ at = None /\ rest = <<>>
  BY DEF EndPublish, registry, clients, sending, history
<1>3. \A c \in Chans : Ahead(c)' = 0 /\ Ahead(c) = 0
  BY <1>2, NothingDue DEF Ahead, Pending
<1>4. Subscribed' = Subscribed /\ \A c \in Chans, t \in Topics : topics'[t][c] = topics[t][c]
  BY <1>2 DEF Subscribed
<1> QED
  BY <1>1, <1>2, <1>3, <1>4, FewerServed

\* A send takes one from what is still to be sent, and the end of a SubOnce takes
\* all that its channel was subscribed to.
LEMMA DeliverServed ==
    ASSUME SInv, Deliver
    PROVE  SInv'
<1>1. IInv'
  BY SendKeeps DEF SInv, Send
<1>2. /\ UNCHANGED <<call, made, mine, msg, rest, todo, got, owed>>
      /\ pc = "send" /\ at # None /\ at' = None /\ pc' = "send"
      /\ buf' = [buf EXCEPT ![at[2]] = Append(@, msg)]
      /\ topics' = [t \in Topics |-> [c \in Chans |->
            IF Once /\ <<t, c>> \in Topics \X {at[2]} THEN "no" ELSE topics[t][c]]]
  <2>1. pc' # "panicked"
    BY <1>1 DEF IInv
  <2> QED
    BY <2>1 DEF Deliver, Remove, clients, history
<1>0. PICK d \in Chans : d = at[2]
  BY <1>2 DEF SInv, IInv, TypeOK
<1>3. /\ at \in Topics \X Chans /\ at[1] \in Topics
      /\ \A x \in todo : x[2] # d
      /\ Pending = todo \cup {at} /\ Pending' = todo
  BY <1>0, <1>2 DEF SInv, IInv, TypeOK, Serving, Pending
<1>4. topics[at[1]][d] # "no"
  <2>1. at[1] \in revTopics[d]
    BY <1>0, <1>2 DEF SInv, IInv, Serving, Pending
  <2> QED
    BY <1>3, <2>1 DEF SInv, IInv, Mirrored
<1>5. IsOnce(d) <=> Once
  <2>1. Once => IsOnce(d)
    BY <1>0, <1>3 DEF Once, IsOnce
  <2>2. IsOnce(d) => Once
    BY <1>0, <1>3, <1>4 DEF Once, IsOnce, OneKind, SInv
  <2> QED
    BY <2>1, <2>2
<1>6. \A c \in Chans, t \in Topics : topics'[t][c] \in {"no", topics[t][c]}
  BY <1>2
<1>7. \A c \in Chans \ {d}, t \in Topics : topics'[t][c] = topics[t][c]
  BY <1>0, <1>2
<1>8. Once => \A t \in Topics : topics'[t][d] = "no"
  BY <1>0, <1>2, <1>3
<1>9. ~ Once => \A c \in Chans, t \in Topics : topics'[t][c] = topics[t][c]
  BY <1>2
<1>10. Subscribed' = Subscribed /\ d \in Subscribed
  BY <1>2, <1>3, <1>4 DEF Subscribed, SInv, IInv, NotYet, Mirrored
<1>11. \A c \in Chans \ {d} : Told(c)' = Told(c)
  BY <1>0, <1>2 DEF Told, SInv, IInv, TypeOK
<1>12. Told(d)' = Append(Told(d), msg) /\ Told(d) \in Seq(Nat) /\ msg \in Nat
  <2>1. got[d] \in Seq(Nat) /\ buf[d] \in Seq(Nat) /\ msg \in Nat
    BY <1>3 DEF SInv, IInv, TypeOK
  <2>2. got'[d] = got[d] /\ buf'[d] = Append(buf[d], msg)
    BY <1>0, <1>2, <1>3 DEF SInv, IInv, TypeOK
  <2>3. got[d] \o Append(buf[d], msg) = Append(got[d] \o buf[d], msg) /\ got[d] \o buf[d] \in Seq(Nat)
    BY <2>1, AppendAtEnd
  <2> QED
    BY <2>1, <2>2, <2>3 DEF Told
<1>13. OneKind'
  BY <1>6 DEF OneKind, SInv
<1>14. Fresh'
  BY <1>10, <1>11 DEF Fresh, SInv
<1>15. OnlyOnce'
  <2>1. ASSUME NEW c \in Chans, \E t \in Topics : topics'[t][c] = "once"
        PROVE  Told(c)' = <<>>
    <3>1. IsOnce(c)
      BY <1>6, <2>1 DEF IsOnce
    <3>2. c # d
      BY <1>5, <1>8, <2>1, <3>1
    <3> QED
      BY <1>11, <3>1, <3>2 DEF OnlyOnce, IsOnce, SInv, Told
  <2> QED
    BY <2>1 DEF OnlyOnce, Told
<1>16. ASSUME NEW c \in Chans \ {d}
       PROVE  Ahead(c)' = Ahead(c)
  <2>1. (\E x \in Pending' : x[2] = c) <=> \E x \in Pending : x[2] = c
    BY <1>0, <1>3
  <2>2. IsOnce(c)' = IsOnce(c)
    BY <1>7 DEF IsOnce
  <2>3. Due(c, rest)' = Due(c, rest)
    <3>1. \A i \in DOMAIN rest : rest[i] \in Topics
      BY DEF SInv, IInv, TypeOK
    <3>2. \A i \in DOMAIN rest : topics'[rest[i]][c] = topics[rest[i]][c]
      BY <1>7, <3>1
    <3>3. \A i \in DOMAIN rest : \A j \in 1 .. i - 1 : j \in DOMAIN rest
      BY DEF SInv, IInv, TypeOK
    <3>4. ASSUME NEW i \in DOMAIN rest
          PROVE  i \in Due(c, rest)' <=> i \in Due(c, rest)
      BY <1>2, <3>2, <3>3 DEF Due, Subscribers
    <3>5. Due(c, rest) \subseteq DOMAIN rest /\ Due(c, rest)' \subseteq DOMAIN rest
      BY <1>2 DEF Due
    <3> QED
      BY <3>4, <3>5
  <2> QED
    BY <1>2, <2>1, <2>2, <2>3 DEF Ahead, DueNumber
<1>17. Ahead(d) = Ahead(d)' + 1 /\ Ahead(d)' \in Nat
  <2>1. (\E x \in Pending : x[2] = d) /\ ~ \E x \in Pending' : x[2] = d
    BY <1>0, <1>3
  <2>2. Ahead(d)' = DueNumber(d, rest)'
    BY <1>2, <2>1 DEF Ahead
  <2>3. CASE Once
    <3>1. Due(d, rest)' = {}
      <4>1. \A i \in DOMAIN rest : rest[i] \in Topics
        BY DEF SInv, IInv, TypeOK
      <4>2. \A i \in DOMAIN rest : topics'[rest[i]][d] = "no"
        BY <1>8, <2>3, <4>1
      <4> QED
        BY <1>2, <4>2 DEF Due, Subscribers
    <3>2. DueNumber(d, rest)' = 0
      BY <3>1, FS_EmptySet DEF DueNumber
    <3>3. Ahead(d) = 1
      BY <1>2, <1>5, <2>1, <2>3 DEF Ahead
    <3> QED
      BY <2>2, <3>2, <3>3
  <2>4. CASE ~ Once
    <3>1. topics' = topics
      BY <1>2, <2>4 DEF SInv, IInv, TypeOK
    <3>2. DueNumber(d, rest)' = DueNumber(d, rest)
      BY <1>2, <3>1 DEF DueNumber, Due, Subscribers
    <3>3. Ahead(d) = DueNumber(d, rest) + 1
      BY <1>2, <1>5, <2>1, <2>4 DEF Ahead
    <3>4. DueNumber(d, rest) \in Nat
      BY DueFinite DEF SInv, IInv, TypeOK
    <3> QED
      BY <2>2, <3>2, <3>3, <3>4
  <2> QED
    BY <2>3, <2>4
<1>18. ASSUME NEW c \in Chans
       PROVE  owed'[c] = Told(c)' \o Repeat(msg', Ahead(c)')
  <2>1. owed'[c] = owed[c] /\ msg' = msg /\ owed[c] = Told(c) \o Repeat(msg, Ahead(c))
    BY <1>2 DEF OnItsWay, SInv
  <2>2. CASE c # d
    BY <1>11, <1>16, <2>1, <2>2
  <2>3. CASE c = d
    <3>1. Told(d) \o Repeat(msg, Ahead(d)' + 1) = Append(Told(d), msg) \o Repeat(msg, Ahead(d)')
      BY <1>12, <1>17, OneLess
    <3> QED
      BY <1>12, <1>17, <2>1, <2>3, <3>1
  <2> QED
    BY <2>2, <2>3
<1> QED
  BY <1>1, <1>13, <1>14, <1>15, <1>18 DEF SInv, OnItsWay

LEMMA StepServed ==
    ASSUME "addSub" \notin Ops, SInv, [Next]_vars
    PROVE  SInv'
<1>1. ASSUME SendOnClosed
      PROVE  FALSE
  <2>1. at \in Pending /\ at[2] \in closed
    BY <1>1 DEF SendOnClosed, Pending
  <2> QED
    BY <2>1 DEF SInv, IInv, Serving, ClosedIffLeft
<1>2. CASE Send
  BY <1>1, <1>2, NextTopicServed, PickChannelServed, DeliverServed, EndPublishServed DEF Send
<1>3. CASE Next
  BY <1>2, <1>3, ClientServed, ReadServed, TakeServed DEF Next
<1>4. CASE UNCHANGED vars
  <2>1. IInv'
    BY <1>4, StepKeeps DEF SInv
  <2>2. UNCHANGED <<topics, buf, got, owed, call, made, pc, msg, rest, todo, at>>
    BY <1>4 DEF vars, registry, clients, sending, history
  <2>3. \A c \in Chans : Ahead(c)' = Ahead(c)
    BY <2>2 DEF Ahead, Pending, IsOnce, DueNumber, Due, Subscribers
  <2> QED
    BY <2>1, <2>2, <2>3, FewerServed DEF Subscribed
<1> QED
  BY <1>3, <1>4

\* Without AddSub every subscriber is told each publication as often as its
\* subscriptions called for when it was made, in order, and one of SubOnce nothing
\* before its one message (pubsub.go:160-175).
THEOREM EverySubscriptionServed ==
    ASSUME "addSub" \notin Ops
    PROVE  Spec => []Served
<1>1. SInv /\ [Next]_vars => SInv'
  BY StepServed
<1>2. SInv => Served
  <2> SUFFICES ASSUME SInv PROVE Served
    OBVIOUS
  <2>1. ASSUME pc = "recv", NEW c \in Chans
        PROVE  Told(c) = owed[c]
    <3>1. Repeat(msg, 0) = <<>> /\ Ahead(c) = 0
      BY <2>1 DEF Repeat, Ahead
    <3>2. owed[c] = Told(c) \o Repeat(msg, Ahead(c)) /\ Told(c) \in Seq(Nat)
      BY AheadTyped DEF SInv, IInv, OnItsWay
    <3> QED
      BY <3>1, <3>2
  <2> QED
    BY <2>1 DEF Served, EveryoneServed, Told, SInv
<1> QED
  BY InitServed, <1>1, <1>2, PTL DEF Spec
===============================================================================
