------------------------------ MODULE EventBus ------------------------------
(***************************************************************************)
(* event_bus_t of src/src/ngx_lua_cpp.cpp: events are published to topics, *)
(* any number of consumers poll a topic with the cursor of their last      *)
(* poll.  Both operations hold the mutex throughout.                       *)
(***************************************************************************)
EXTENDS Naturals, Sequences, FiniteSets

CONSTANTS
    Topics,    \* topics that are published to
    Feeds,     \* consumers (WebSocket and SSE feeds)
    FeedTopic, \* the topic each of them polls
    BusBound,  \* 512 in the code
    MaxEvents  \* bound: events published to a topic by Lua code

ASSUME BusAssumption ==
    FeedTopic \in [Feeds -> Topics] /\ BusBound \in Nat \ {0} /\ MaxEvents \in Nat

VARIABLES
    nextId,    \* next_id, shared by all topics
    topics,    \* the queue of each topic: records with an id and a payload
    cursor,    \* last_id of each consumer
    fed,       \* events each consumer got, in order
    published  \* all events of each topic, in order (history)

busVars == <<nextId, topics, cursor, fed, published>>

BusInit ==
    /\ nextId = 1
    /\ topics = [t \in Topics |-> <<>>] /\ published = [t \in Topics |-> <<>>]
    /\ cursor = [c \in Feeds |-> 0] /\ fed = [c \in Feeds |-> <<>>]

\* pub()
Pub(t, payload) ==
    LET e == [id |-> nextId, payload |-> payload]
        q == Append(topics[t], e) IN
    /\ nextId' = nextId + 1
    /\ topics' = [topics EXCEPT ![t] = IF Len(q) > BusBound THEN Tail(q) ELSE q]
    /\ published' = [published EXCEPT ![t] = Append(@, e)]
    /\ UNCHANGED <<cursor, fed>>

\* poll() copies the events with an id above last_id.  pub() numbers upwards, so
\* they are what comes after those already seen.
Newer(q, lastId) == SubSeq(q, Cardinality({i \in DOMAIN q : q[i].id <= lastId}) + 1, Len(q))

\* Mutant: the cursor is the id the next event will have.
EventsAhead(c) ==
    LET out == Newer(topics[FeedTopic[c]], cursor[c]) IN
    /\ out # <<>>
    /\ fed' = [fed EXCEPT ![c] = @ \o out] /\ cursor' = [cursor EXCEPT ![c] = nextId]
    /\ UNCHANGED <<nextId, topics, published>>

\* events(), with the loop of poll(); a consumer comes back with the cursor
\* it was given.  A poll that finds nothing changes nothing.
Events(c) ==
    LET out == Newer(topics[FeedTopic[c]], cursor[c]) IN
    /\ out # <<>>
    /\ fed' = [fed EXCEPT ![c] = @ \o out]
    /\ cursor' = [cursor EXCEPT ![c] = out[Len(out)].id]
    /\ UNCHANGED <<nextId, topics, published>>

\* pub() from Lua
LuaPub(t) == Len(published[t]) < MaxEvents /\ Pub(t, "any")

BusNext == (\E t \in Topics : LuaPub(t)) \/ (\E c \in Feeds : Events(c))

BusSpec == BusInit /\ [][BusNext]_busVars

(***************************************************************************)
(* "safe for many concurrent consumers": a consumer gets the events of its *)
(* topic in order and none twice; one it skipped was pushed out by         *)
(* BusBound later events of that topic before the consumer came back.      *)
(***************************************************************************)
FeedComplete ==
    \A c \in Feeds :
      /\ \A i, j \in DOMAIN fed[c] : i < j => fed[c][i].id < fed[c][j].id
      /\ \A i \in DOMAIN published[FeedTopic[c]] :
           LET all == published[FeedTopic[c]] IN
           all[i].id <= cursor[c] =>
             \/ \E k \in DOMAIN fed[c] : fed[c][k] = all[i]
             \/ Cardinality({j \in DOMAIN all : i < j /\ all[j].id <= cursor[c]}) >= BusBound

=============================================================================
