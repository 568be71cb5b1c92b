-------------------------------- MODULE PubSub --------------------------------
(***************************************************************************)
(* The publish-subscribe registry (src/server/pubsub.go).  One goroutine   *)
(* owns the registry and receives commands on an unbuffered channel, so a  *)
(* caller waits until its command is taken.  A publication is a series of  *)
(* sends on bounded channels, each of which may block; every other command *)
(* runs to its end.                                                        *)
(*                                                                         *)
(* Each subscriber makes one channel and is named by it.  The maps topics  *)
(* and revTopics are total here: an absent key is "no", or the empty set.  *)
(***************************************************************************)
EXTENDS Integers, Sequences, FiniteSets, Functions

CONSTANTS
    Chans,         \* subscribers, and the channels they make
    Publishers,    \* callers that publish, close topics and shut down
    Topics,
    TopicLists,    \* the arguments topics ...string that callers pass
    Ops,           \* the operations that callers use
    Capacity,      \* PubSub.capacity
    MaxPubs,       \* bound: how many publications are made
    None,          \* no subscription
    ReadsInCall    \* subscribers read their channel in a goroutine of its own

AllOps == {"sub", "subOnce", "addSub", "unsub", "pub", "closeTopic", "shutdown"}

ASSUME CallersAssumption  == Chans \cap Publishers = {} /\ None \notin Topics \X Chans
ASSUME TopicsAssumption   == TopicLists \subseteq Seq(Topics)
ASSUME OpsAssumption      == Ops \subseteq AllOps
ASSUME CapacityAssumption == Capacity \in Nat \ {0} /\ MaxPubs \in Nat
ASSUME ReadsAssumption    == ReadsInCall \in BOOLEAN

VARIABLES
    topics,      \* registry.topics: for each topic and channel "no", "sub" or "once"
    revTopics,   \* registry.revTopics: the topics of each channel
    closed,      \* the channels that have been closed
    buf,         \* what is in each channel
    call,        \* the command each caller waits to hand over
    made,        \* the channels that have been made
    mine,        \* the topics a subscriber has asked for and not given up
    pc,          \* where the goroutine is: recv, send, gone, or panicked
    msg,         \* the publication being sent; also counts them
    rest,        \* the topics still to be sent to
    todo,        \* the subscriptions <<topic, channel>> of one topic still to be served
    at,          \* the subscription it is sending for, or None
    got,         \* history: what each subscriber has read
    owed         \* history: what each channel ought to be sent

registry == <<topics, revTopics, closed>>
clients  == <<call, made, mine>>
sending  == <<msg, rest, todo, at>>
history  == <<got, owed>>
vars == <<registry, buf, clients, pc, sending, history>>

Callers == Chans \cup Publishers
Messages == 1 .. MaxPubs

NoCall == [op |-> "none", topics |-> <<>>]

Init ==
    /\ topics = [t \in Topics |-> [c \in Chans |-> "no"]]
    /\ revTopics = [c \in Chans |-> {}]
    /\ closed = {}
    /\ buf = [c \in Chans |-> <<>>]
    /\ call = [p \in Callers |-> NoCall]
    /\ made = {} /\ mine = [c \in Chans |-> {}]
    /\ pc = "recv" /\ msg = 0 /\ rest = <<>> /\ todo = {} /\ at = None
    /\ got = [c \in Chans |-> <<>>] /\ owed = [c \in Chans |-> <<>>]

(***************************************************************************)
(* The callers.                                                            *)
(***************************************************************************)
Offer(p, op, ts) ==
    /\ op \in Ops /\ call[p] = NoCall
    /\ call' = [call EXCEPT ![p] = [op |-> op, topics |-> ts]]
    /\ UNCHANGED <<registry, buf, pc, sending, history>>

Sub(c, op, ts) ==
    /\ c \notin made /\ ts # <<>> /\ op \in {"sub", "subOnce"}
    /\ made' = made \cup {c}
    /\ mine' = [mine EXCEPT ![c] = Range(ts)]
    /\ Offer(c, op, ts)

\* A subscriber adds to a channel that it has not itself left altogether.
AddSub(c, ts) ==
    /\ mine[c] # {}
    /\ mine' = [mine EXCEPT ![c] = @ \cup Range(ts)]
    /\ Offer(c, "addSub", ts)
    /\ UNCHANGED made

Unsub(c, ts) ==
    /\ c \in made
    /\ mine' = [mine EXCEPT ![c] = IF ts = <<>> THEN {} ELSE @ \ Range(ts)]
    /\ Offer(c, "unsub", ts)
    /\ UNCHANGED made

\* Pub, Close, Shutdown.
Pub(p, ts) ==
    /\ msg + Cardinality({q \in Publishers : call[q].op = "pub"}) < MaxPubs
    /\ Offer(p, "pub", ts)
    /\ UNCHANGED <<made, mine>>

Close(p, ts) == Offer(p, "closeTopic", ts) /\ UNCHANGED <<made, mine>>

Shutdown(p) == Offer(p, "shutdown", <<>>) /\ UNCHANGED <<made, mine>>

Read(c) ==
    /\ buf[c] # <<>> /\ (ReadsInCall \/ call[c] = NoCall)
    /\ got' = [got EXCEPT ![c] = Append(@, Head(buf[c]))]
    /\ buf' = [buf EXCEPT ![c] = Tail(@)]
    /\ UNCHANGED <<registry, clients, pc, sending, owed>>

(***************************************************************************)
(* The registry.                                                           *)
(***************************************************************************)
Add(c, ts, kind) ==
    /\ topics' = [t \in Topics |-> IF t \in Range(ts) THEN [topics[t] EXCEPT ![c] = kind]
                                                      ELSE topics[t]]
    /\ revTopics' = [revTopics EXCEPT ![c] = @ \cup Range(ts)]
    /\ UNCHANGED closed

Subscribers(t) == {c \in Chans : topics[t][c] # "no"}

\* The channels that lose their last topic when the subscriptions R are removed.
\* Faulty variants: without the test that there was a subscription; without the
\* test that it was the last.
LeftUnchecked(R) == {c \in Chans : \E t \in Topics : /\ <<t, c>> \in R
                                                     /\ revTopics[c] \subseteq {x \in Topics : <<x, c>> \in R}}

LeftAny(R) == {c \in Chans : \E t \in Topics : <<t, c>> \in R /\ c \in Subscribers(t)}

Left(R) == {c \in Chans : /\ \E t \in Topics : <<t, c>> \in R /\ c \in Subscribers(t)
                          /\ revTopics[c] \subseteq {t \in Topics : <<t, c>> \in R}}

\* remove, for each subscription in R, in whatever order; then is where the
\* goroutine goes, unless it closes a channel twice.
Remove(R, then) ==
    /\ topics' = [t \in Topics |-> [c \in Chans |-> IF <<t, c>> \in R THEN "no" ELSE topics[t][c]]]
    /\ revTopics' = [c \in Chans |-> {t \in revTopics[c] : <<t, c>> \notin R}]
    /\ closed' = closed \cup Left(R)
    /\ pc' = IF Left(R) \cap closed = {} THEN then ELSE "panicked"

\* How often a publication to ts is sent to c: once for each of its topics in ts,
\* up to and including the first it has subscribed to with SubOnce.
Due(c, ts) ==
    {i \in DOMAIN ts : /\ c \in Subscribers(ts[i])
                       /\ \A j \in 1 .. i - 1 : topics[ts[j]][c] # "once"}

Copies(m, S) == [i \in 1 .. Cardinality(S) |-> m]

(***************************************************************************)
(* The goroutine takes a command of caller p.                              *)
(***************************************************************************)
Taken(p) ==
    /\ pc = "recv" /\ call[p] # NoCall
    /\ call' = [call EXCEPT ![p] = NoCall]
    /\ UNCHANGED <<buf, made, mine, got>>

Subscribe(c) ==
    /\ Taken(c) /\ call[c].op \in {"sub", "subOnce", "addSub"}
    /\ Add(c, call[c].topics, IF call[c].op = "subOnce" THEN "once" ELSE "sub")
    /\ UNCHANGED <<pc, sending, owed>>

Unsubscribe(c) ==
    /\ Taken(c) /\ call[c].op = "unsub"
    /\ Remove(IF call[c].topics = <<>> THEN Topics \X {c} ELSE Range(call[c].topics) \X {c}, "recv")
    /\ UNCHANGED <<sending, owed>>

CloseTopics(p) ==
    /\ Taken(p) /\ call[p].op = "closeTopic"
    /\ Remove(Range(call[p].topics) \X Chans, "recv")
    /\ UNCHANGED <<sending, owed>>

End(p) ==
    /\ Taken(p) /\ call[p].op = "shutdown"
    /\ Remove(Topics \X Chans, "gone")
    /\ UNCHANGED <<sending, owed>>

Publish(p) ==
    /\ Taken(p) /\ call[p].op = "pub"
    /\ msg' = msg + 1 /\ rest' = call[p].topics /\ pc' = "send"
    /\ owed' = [c \in Chans |-> owed[c] \o Copies(msg + 1, Due(c, call[p].topics))]
    /\ UNCHANGED <<registry, todo, at>>

(***************************************************************************)
(* send, for each topic in turn and its channels in any order.             *)
(***************************************************************************)
NextTopic ==
    /\ pc = "send" /\ todo = {} /\ at = None /\ rest # <<>>
    /\ todo' = {Head(rest)} \X Subscribers(Head(rest)) /\ rest' = Tail(rest)
    /\ UNCHANGED <<registry, buf, clients, pc, msg, at, history>>

PickChannel ==
    /\ pc = "send" /\ at = None
    /\ at' \in todo /\ todo' = todo \ {at'}
    /\ UNCHANGED <<registry, buf, clients, pc, msg, rest, history>>

EndPublish ==
    /\ pc = "send" /\ todo = {} /\ at = None /\ rest = <<>>
    /\ pc' = "recv"
    /\ UNCHANGED <<registry, buf, clients, sending, history>>

\* The subscription being served is of SubOnce.
Once == topics[at[1]][at[2]] = "once"

\* Faulty variants of Deliver: the channel is full and the message is dropped; the
\* send does not wait; only the one subscription of SubOnce is removed; the
\* channel is taken to be full a place too early.
DeliverOrDrop ==
    /\ pc = "send" /\ at # None /\ at[2] \notin closed
    /\ buf' = IF Len(buf[at[2]]) < Capacity THEN [buf EXCEPT ![at[2]] = Append(@, msg)] ELSE buf
    /\ at' = None
    /\ Remove(IF Once THEN Topics \X {at[2]} ELSE {}, "send")
    /\ UNCHANGED <<clients, msg, rest, todo, history>>

DeliverUnbounded ==
    /\ pc = "send" /\ at # None /\ at[2] \notin closed
    /\ buf' = [buf EXCEPT ![at[2]] = Append(@, msg)]
    /\ at' = None
    /\ Remove(IF Once THEN Topics \X {at[2]} ELSE {}, "send")
    /\ UNCHANGED <<clients, msg, rest, todo, history>>

DeliverKeepsOthers ==
    /\ pc = "send" /\ at # None /\ at[2] \notin closed /\ Len(buf[at[2]]) < Capacity
    /\ buf' = [buf EXCEPT ![at[2]] = Append(@, msg)]
    /\ at' = None
    /\ Remove(IF Once THEN {at} ELSE {}, "send")
    /\ UNCHANGED <<clients, msg, rest, todo, history>>

DeliverShort ==
    /\ pc = "send" /\ at # None /\ at[2] \notin closed /\ Len(buf[at[2]]) < Capacity - 1
    /\ buf' = [buf EXCEPT ![at[2]] = Append(@, msg)]
    /\ at' = None
    /\ Remove(IF Once THEN Topics \X {at[2]} ELSE {}, "send")
    /\ UNCHANGED <<clients, msg, rest, todo, history>>

\* ch <- msg, once there is room, and the end of a SubOnce.
Deliver ==
    /\ pc = "send" /\ at # None /\ at[2] \notin closed /\ Len(buf[at[2]]) < Capacity
    /\ buf' = [buf EXCEPT ![at[2]] = Append(@, msg)]
    /\ at' = None
    /\ Remove(IF Once THEN Topics \X {at[2]} ELSE {}, "send")
    /\ UNCHANGED <<clients, msg, rest, todo, history>>

SendOnClosed ==
    /\ pc = "send" /\ at # None /\ at[2] \in closed
    /\ pc' = "panicked"
    /\ UNCHANGED <<registry, buf, clients, sending, history>>

-------------------------------------------------------------------------------
Client ==
    \/ \E c \in Chans, ts \in TopicLists :
        (\E op \in {"sub", "subOnce"} : Sub(c, op, ts)) \/ AddSub(c, ts) \/ Unsub(c, ts)
    \/ \E p \in Publishers : Shutdown(p) \/ \E ts \in TopicLists : Pub(p, ts) \/ Close(p, ts)

Take(p) == Subscribe(p) \/ Unsubscribe(p) \/ CloseTopics(p) \/ Publish(p) \/ End(p)

Send == NextTopic \/ PickChannel \/ Deliver \/ SendOnClosed \/ EndPublish

\* A panic is not recovered: the process is gone.
Next ==
    /\ pc # "panicked"
    /\ Client \/ (\E c \in Chans : Read(c)) \/ (\E p \in Callers : Take(p)) \/ Send

Spec == Init /\ [][Next]_vars

Running(A) == pc # "panicked" /\ A

\* Subscribers go on reading; a waiting caller is served in its turn.
FairSpec ==
    /\ Spec
    /\ WF_vars(Running(Send))
    /\ \A p \in Callers : SF_vars(Running(Take(p)))
    /\ \A c \in Chans : WF_vars(Running(Read(c)))

-------------------------------------------------------------------------------
Commands == [op : AllOps \cup {"none"}, topics : Seq(Topics)]

\* Type invariant of the registry, the channels and the goroutine.
TypeOK ==
    /\ topics \in [Topics -> [Chans -> {"no", "sub", "once"}]]
    /\ revTopics \in [Chans -> SUBSET Topics] /\ closed \subseteq Chans
    /\ buf \in [Chans -> Seq(Nat)] /\ \A c \in Chans : Len(buf[c]) <= Capacity
    /\ call \in [Callers -> Commands] /\ made \subseteq Chans /\ mine \in [Chans -> SUBSET Topics]
    /\ pc \in {"recv", "send", "gone", "panicked"} /\ msg \in Nat /\ rest \in Seq(Topics)
    /\ todo \subseteq Topics \X Chans /\ at \in (Topics \X Chans) \cup {None}
    /\ got \in [Chans -> Seq(Nat)] /\ owed \in [Chans -> Seq(Nat)]

\* "All of them receive messages published on the topic": when the goroutine is
\* ready for a command, every channel has been sent each publication as often as
\* its subscriptions at the time called for, in order, and nothing else.
EveryoneServed == pc = "recv" => \A c \in Chans : got[c] \o buf[c] = owed[c]

\* A channel of SubOnce is sent one message, though a publication may name several
\* of its topics and further publications may be waiting.
OnlyOnce ==
    \A c \in Chans : (\E t \in Topics : topics[t][c] = "once") => got[c] \o buf[c] = <<>>

\* Every subscription is served as its kind of subscription asks: each message of
\* its topics in order, or the first one alone.
Served == EveryoneServed /\ OnlyOnce

\* The channels whose Sub has been taken.
Subscribed == {c \in made : call[c].op \notin {"sub", "subOnce"}}

\* A channel is closed when it has lost its last topic and not before, however it
\* lost it: Unsub, Close, Shutdown or the one message of SubOnce.
ClosedWhenLeft ==
    pc # "panicked" => closed = {c \in Subscribed : \A t \in Topics : c \notin Subscribers(t)}

\* No send on a closed channel and no second close, as long as AddSub is not used.
NoPanic == pc # "panicked"

\* Every caller gets on while the goroutine lives, if subscribers go on reading
\* while they wait for it themselves.  If they do not (ReadsInCall FALSE), a
\* subscriber in Unsub whose channel is full waits for the goroutine for ever.
CallsReturn ==
    \A p \in Callers : call[p] # NoCall ~> (call[p] = NoCall \/ pc \in {"gone", "panicked"})
===============================================================================
