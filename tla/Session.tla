------------------------------ MODULE Session ------------------------------
(***************************************************************************)
(* The account-subscription protocol of lib/websocket.cpp (class session)  *)
(* and of rpc::subscription::WebSocketSubscriber (lib/solana.cpp).  How    *)
(* the connection comes about is told in three steps here; module          *)
(* Subscriber joins them with the whole chain of module Lifecycle.         *)
(*                                                                         *)
(* Two threads share the session: the writer, which calls onAccountChange, *)
(* removeAccountChangeListener and the destructor, and the reader, which   *)
(* runs the io_context and therefore on_read and every user callback       *)
(* ("writing using one thread and read using another", solana.cpp:1094).   *)
(* The third party is the RPC server, which is external; the websocket is  *)
(* a pair of FIFO channels that may be cut at any moment.                  *)
(*                                                                         *)
(* A step of a thread is what it does between two points at which the      *)
(* other thread can run: a critical section of mutex_for_maps, a           *)
(* ws.write, the completion of a read, the call of a user callback.  A     *)
(* section under unique_lock is one step.  The two sections under          *)
(* shared_lock (unsubscribe and get_callback) are two steps each, enter    *)
(* and leave, because they may overlap.                                    *)
(***************************************************************************)
EXTENDS Integers, Sequences, Functions

CONSTANTS
  Accounts,            \* public keys that can be subscribed to
  WsIds,               \* subscription ids the server can hand out
  MaxRequests,         \* bound: successful calls of onAccountChange
  MaxQueued,           \* bound: no new notification, and no new removal,
                       \* while this many messages are on their way to
                       \* the client, or in both directions together
  AwaitsConfirmation   \* TRUE: the user removes a listener only after its
                       \* on_subscribe ran, as examples/ws.cpp does;
                       \* FALSE: at any time after onAccountChange returned,
                       \* as tests/main.cpp does

ASSUME BoundsAssumption ==
  /\ MaxRequests \in Nat
  /\ MaxQueued \in Nat

ASSUME DisciplineAssumption == AwaitsConfirmation \in BOOLEAN

VARIABLES
  \* state of WebSocketSubscriber and of session
  curr_id,          \* WebSocketSubscriber::curr_id
  callback_map,     \* request id -> [acct, subscribed, ws_id]
  maps_wsid_to_id,  \* server's subscription id -> request id
  is_connected,     \* session::is_connected
  writer, reader,   \* where the two threads are, and their locals
  \* the websocket and the server
  open,             \* the websocket still transfers messages
  to_server,        \* messages written by the client, oldest first
  to_client,        \* messages sent by the server, oldest first
  issued,           \* every ws id ever handed out -> [id, acct]
  live,             \* ws ids the server sends notifications for
  \* what has happened so far
  asked,            \* request ids written to the socket -> account
  unsubscribed,     \* ids for which removeAccountChangeListener has returned
  confirmed,        \* ids whose on_subscribe ran
  finished          \* ids whose on_unsubscribe ran

clientVars == <<curr_id, callback_map, maps_wsid_to_id, is_connected>>
serverVars == <<issued, live>>
netVars    == <<open, to_server, to_client>>
userVars   == <<asked, unsubscribed, confirmed, finished>>
vars == <<clientVars, serverVars, netVars, userVars, writer, reader>>

NoWsId == 0                     \* a ws_id the server never handed out
NoEntries == [x \in {} |-> x]   \* the empty map

\* the map f after f[k] = v
Put(f, k, v) == [x \in DOMAIN f \cup {k} |-> IF x = k THEN v ELSE f[x]]

----------------------------------------------------------------------------
(* Requests and messages. *)

\* RequestContent: acct stands for params and cb, which belong together
RequestContent == [acct: Accounts, subscribed: BOOLEAN,
                   ws_id: WsIds \cup {NoWsId}]

SubscriptionRequest(id, acct) ==
  [kind |-> "subscribe", id |-> id, acct |-> acct]

\* broken: the request reuses the id of the subscription
UnsubscriptionRequestSameId(id, ws) ==
  [kind |-> "unsubscribe", id |-> id, ws |-> ws]

UnsubscriptionRequest(id, ws) ==
  [kind |-> "unsubscribe", id |-> id + 1, ws |-> ws]

ToServer ==
  [kind: {"subscribe"}, id: Nat, acct: Accounts]
    \cup [kind: {"unsubscribe"}, id: Nat, ws: WsIds \cup {NoWsId}]

SubscribedReply(id, ws)  == [kind |-> "subscribed", id |-> id, ws |-> ws]
UnsubscribedReply(id)    == [kind |-> "unsubscribed", id |-> id]
ErrorReply(id)           == [kind |-> "error", id |-> id]
Notification(ws, acct)   == [kind |-> "notification", ws |-> ws, acct |-> acct]

Notifications == [kind: {"notification"}, ws: WsIds, acct: Accounts]

ToClient ==
  [kind: {"subscribed"}, id: Nat, ws: WsIds]
    \cup [kind: {"unsubscribed", "error"}, id: Nat]
    \cup Notifications

\* A user callback about to run on the reader thread: which of the three
\* callbacks of which request, the account that request is for, and the
\* account the data is about.
UserCallback == [event: {"on_subscribe", "on_unsubscribe", "cb"},
                 id: Nat, acct: Accounts, data: Accounts]

\* the value found in ws_id: RequestContent does not initialise it, so until
\* the confirmation has arrived it is whatever the memory held
WsIdRead(request) ==
  IF request.subscribed THEN {request.ws_id} ELSE WsIds \cup {NoWsId}

----------------------------------------------------------------------------
(* What the calls do to the state of the session. *)

\* broken: curr_id is left as it is
NextRequestIdStuck(id) == id

\* curr_id += 2
NextRequestId(id) == id + 2

\* broken: the confirmation is not recorded in the request
ConfirmedRequestForgets(request, ws) == request

\* subscribed = true; ws_id = result
ConfirmedRequest(request, ws) ==
  [request EXCEPT !.subscribed = TRUE, !.ws_id = ws]

\* broken: key and value swapped
MappedSwapped(ws, id) == Put(maps_wsid_to_id, id, ws)

\* maps_wsid_to_id[ws] = id
Mapped(ws, id) == Put(maps_wsid_to_id, ws, id)

\* broken: nothing erased, or everything
UnmappedNothing(ws) == maps_wsid_to_id
UnmappedAll(ws) == NoEntries

\* maps_wsid_to_id.erase(ws)
Unmapped(ws) == Restrict(maps_wsid_to_id, DOMAIN maps_wsid_to_id \ {ws})

\* broken: the request stays
RequestKept(id) == callback_map

\* callback_map.erase(ite)
RequestErased(id) == Restrict(callback_map, DOMAIN callback_map \ {id})

----------------------------------------------------------------------------
(* Where the threads are. *)

Idle          == [at |-> "idle"]
Disconnected  == [at |-> "disconnected"]

WriterState ==
  [at: {"idle", "disconnected"}]
    \cup [at: {"subscribe_write", "subscribe_return"}, id: Nat, acct: Accounts]
    \cup [at: {"unsubscribe_locked"}, id: Nat]
    \cup [at: {"unsubscribe_write"}, id: Nat, ws: WsIds \cup {NoWsId}]

\* before the handshake succeeded, and before on_handshake ran
Connecting == [at |-> "connecting"]
Handshaken == [at |-> "handshaken"]
Reading == [at |-> "reading"]
Stopped == [at |-> "stopped"]

ReaderState ==
  [at: {"connecting", "handshaken", "reading", "stopped"}]
    \cup [at: {"dispatch"}, msg: ToClient]
    \cup [at: {"get_callback_locked"}, msg: Notifications]
    \cup [at: {"calling"}, callback: UserCallback]

\* mutex_for_maps: who holds it shared; nobody holds it exclusively between
\* two steps
WriterHoldsShared == writer.at = "unsubscribe_locked"
ReaderHoldsShared == reader.at = "get_callback_locked"

----------------------------------------------------------------------------
Init ==
  /\ curr_id = 0
  /\ callback_map = NoEntries
  /\ maps_wsid_to_id = NoEntries
  /\ is_connected = FALSE
  /\ writer = Idle
  /\ reader = Connecting
  /\ open = FALSE
  /\ to_server = <<>> /\ to_client = <<>>
  /\ issued = NoEntries /\ live = {}
  /\ asked = NoEntries
  /\ unsubscribed = {} /\ confirmed = {} /\ finished = {}

----------------------------------------------------------------------------
(* The writer thread. *)

\* onAccountChange, up to the end of the critical section of
\* session::subscribe.  It excludes the reader's shared section.
Subscribe(acct) ==
  /\ writer = Idle
  /\ curr_id < 2 * MaxRequests
  /\ ~ReaderHoldsShared
  /\ callback_map' =
       Put(callback_map, curr_id,
           [acct |-> acct, subscribed |-> FALSE, ws_id |-> NoWsId])
  /\ writer' = [at |-> "subscribe_write", id |-> curr_id, acct |-> acct]
  /\ UNCHANGED <<curr_id, maps_wsid_to_id, is_connected, reader,
                 serverVars, netVars, userVars>>

\* ws.write puts the message on the wire; if the connection is gone but the
\* client has not noticed, the write succeeds and the message is lost.  Nothing
\* keeps the user from a write while the handshake is under way, which beast
\* does not allow: it throws, or the message comes first or is lost.
Written(msg) ==
  \/ (open \/ reader = Connecting) /\ to_server' = Append(to_server, msg)
  \/ ~open /\ reader # Stopped /\ UNCHANGED to_server

\* the write of session::subscribe succeeds
SubscribeWrite ==
  /\ writer.at = "subscribe_write"
  /\ Written(SubscriptionRequest(writer.id, writer.acct))
  /\ writer' = [at |-> "subscribe_return",
                id |-> writer.id, acct |-> writer.acct]
  /\ asked' = Put(asked, writer.id, writer.acct)
  /\ UNCHANGED <<clientVars, serverVars, open, to_client, reader,
                 unsubscribed, confirmed, finished>>

\* the write throws: onAccountChange is left before curr_id moves on, and the
\* entry stays in callback_map
SubscribeWriteThrows ==
  /\ writer.at = "subscribe_write"
  /\ ~open
  /\ writer' = Idle
  /\ UNCHANGED <<clientVars, serverVars, netVars, userVars, reader>>

\* curr_id += 2; return req.id
SubscribeReturn ==
  /\ writer.at = "subscribe_return"
  /\ curr_id' = NextRequestId(curr_id)
  /\ writer' = Idle
  /\ UNCHANGED <<callback_map, maps_wsid_to_id, is_connected, reader,
                 serverVars, netVars, userVars>>

\* the ids onAccountChange has returned to the user
Returned == {i \in DOMAIN asked : i < curr_id}

\* removeAccountChangeListener: session::unsubscribe takes mutex_for_maps
\* shared and finds the request.
Unsubscribe(id) ==
  /\ writer = Idle
  /\ id \in Returned
  /\ AwaitsConfirmation => id \in confirmed
  /\ Len(to_server) + Len(to_client) < MaxQueued
  /\ id \in DOMAIN callback_map
  /\ writer' = [at |-> "unsubscribe_locked", id |-> id]
  /\ UNCHANGED <<clientVars, serverVars, netVars, userVars, reader>>

\* It finds no request and returns.
UnsubscribeUnknown(id) ==
  /\ writer = Idle
  /\ id \in Returned
  /\ AwaitsConfirmation => id \in confirmed
  /\ id \notin DOMAIN callback_map
  /\ unsubscribed' = unsubscribed \cup {id}
  /\ UNCHANGED <<clientVars, serverVars, netVars, writer, reader,
                 asked, confirmed, finished>>

\* The rest of the critical section: the request for the server is made from
\* ws_id, and the mapping of ws_id is erased while the lock is held shared.
UnsubscribeErase ==
  /\ WriterHoldsShared
  /\ \E ws \in WsIdRead(callback_map[writer.id]) :
       /\ writer' = [at |-> "unsubscribe_write", id |-> writer.id, ws |-> ws]
       /\ maps_wsid_to_id' = Unmapped(ws)
  /\ UNCHANGED <<curr_id, callback_map, is_connected, reader,
                 serverVars, netVars, userVars>>

\* the write of session::unsubscribe succeeds and the call returns
UnsubscribeWrite ==
  /\ writer.at = "unsubscribe_write"
  /\ Written(UnsubscriptionRequest(writer.id, writer.ws))
  /\ writer' = Idle
  /\ unsubscribed' = unsubscribed \cup {writer.id}
  /\ UNCHANGED <<clientVars, serverVars, open, to_client, reader,
                 asked, confirmed, finished>>

\* the write throws: the request was not sent, the mapping is already erased
UnsubscribeWriteThrows ==
  /\ writer.at = "unsubscribe_write"
  /\ ~open
  /\ writer' = Idle
  /\ UNCHANGED <<clientVars, serverVars, netVars, userVars, reader>>

\* ~WebSocketSubscriber calls session::disconnect: the flag falls and the
\* closing handshake starts.
Disconnect ==
  /\ writer = Idle
  /\ is_connected' = FALSE
  /\ writer' = Disconnected
  /\ UNCHANGED <<curr_id, callback_map, maps_wsid_to_id, reader,
                 serverVars, netVars, userVars>>

----------------------------------------------------------------------------
(* The reader thread: up to the first read. *)

\* the handshake succeeded: messages can be sent ...
HandshakeSucceeds ==
  /\ reader = Connecting
  /\ open' = TRUE
  /\ reader' = Handshaken
  /\ UNCHANGED <<clientVars, serverVars, to_server, to_client, userVars, writer>>

\* ... on_handshake raises the flag and reads
OnHandshake ==
  /\ reader = Handshaken
  /\ is_connected' = TRUE
  /\ reader' = Reading
  /\ UNCHANGED <<curr_id, callback_map, maps_wsid_to_id, serverVars, netVars,
                 userVars, writer>>

\* one of on_resolve, on_connect, on_handshake is given an error and returns
ConnectFails ==
  /\ reader = Connecting
  /\ reader' = Stopped
  /\ to_server' = <<>>
  /\ UNCHANGED <<clientVars, serverVars, open, to_client, userVars, writer>>

----------------------------------------------------------------------------
(* The reader thread: on_read. *)

\* The read completes with a message.  on_read tests is_connected and parses
\* before it takes any lock, so what it dispatches may be stale by then.
ReadMessage ==
  /\ reader = Reading
  /\ to_client # <<>>
  /\ to_client' = Tail(to_client)
  /\ reader' = IF is_connected
               THEN [at |-> "dispatch", msg |-> Head(to_client)]
               ELSE Stopped
  /\ UNCHANGED <<clientVars, serverVars, open, to_server, userVars, writer>>

\* The read completes with an error once everything received has been read:
\* on_read logs it and returns, and no read is started again.
ReadFails ==
  /\ reader = Reading
  /\ to_client = <<>>
  /\ ~open
  /\ reader' = Stopped
  /\ UNCHANGED <<clientVars, serverVars, netVars, userVars, writer>>

\* the callback of a request, called outside the lock
CallbackOf(event, id, data) ==
  [at |-> "calling",
   callback |-> [event |-> event, id |-> id,
                 acct |-> callback_map[id].acct, data |-> data]]

\* A boolean result: the answer to an unsubscription.  id-- leads back to the
\* request, which is erased; maps_wsid_to_id is not touched.
DispatchUnsubscribed ==
  /\ reader.at = "dispatch"
  /\ reader.msg.kind = "unsubscribed"
  /\ ~WriterHoldsShared
  /\ LET id == reader.msg.id - 1 IN
       IF id \in DOMAIN callback_map
       THEN /\ callback_map' = RequestErased(id)
            /\ reader' =
                 CallbackOf("on_unsubscribe", id, callback_map[id].acct)
       ELSE /\ reader' = Reading
            /\ UNCHANGED callback_map
  /\ UNCHANGED <<curr_id, maps_wsid_to_id, is_connected, serverVars, netVars,
                 userVars, writer>>

\* Any other result: the confirmation of a subscription.
DispatchSubscribed ==
  /\ reader.at = "dispatch"
  /\ reader.msg.kind = "subscribed"
  /\ ~WriterHoldsShared
  /\ LET id == reader.msg.id
         ws == reader.msg.ws IN
       IF id \in DOMAIN callback_map
       THEN /\ callback_map' =
                 [callback_map EXCEPT ![id] = ConfirmedRequest(@, ws)]
            /\ maps_wsid_to_id' = Mapped(ws, id)
            /\ reader' =
                 CallbackOf("on_subscribe", id, callback_map[id].acct)
       ELSE /\ reader' = Reading
            /\ UNCHANGED <<callback_map, maps_wsid_to_id>>
  /\ UNCHANGED <<curr_id, is_connected, serverVars, netVars, userVars, writer>>

\* No result and no params.subscription: call_callback returns at once.
DispatchError ==
  /\ reader.at = "dispatch"
  /\ reader.msg.kind = "error"
  /\ reader' = Reading
  /\ UNCHANGED <<clientVars, serverVars, netVars, userVars, writer>>

\* A notification: call_callback enters get_callback, which takes
\* mutex_for_maps shared.
DispatchNotification ==
  /\ reader.at = "dispatch"
  /\ reader.msg.kind = "notification"
  /\ reader' = [at |-> "get_callback_locked", msg |-> reader.msg]
  /\ UNCHANGED <<clientVars, serverVars, netVars, userVars, writer>>

\* the request a notification for ws is for, if both maps know it
RequestOf(ws) ==
  {id \in DOMAIN callback_map :
     ws \in DOMAIN maps_wsid_to_id /\ maps_wsid_to_id[ws] = id}

\* get_callback finds the callback and releases the lock.
GetCallback ==
  /\ ReaderHoldsShared
  /\ \E id \in RequestOf(reader.msg.ws) :
       reader' = CallbackOf("cb", id, reader.msg.acct)
  /\ UNCHANGED <<clientVars, serverVars, netVars, userVars, writer>>

\* get_callback finds nothing.  While the writer erases from
\* maps_wsid_to_id under the same shared lock the search is a data race, and
\* it may miss an entry that is there.
GetCallbackNone ==
  /\ ReaderHoldsShared
  /\ RequestOf(reader.msg.ws) = {} \/ WriterHoldsShared
  /\ reader' = Reading
  /\ UNCHANGED <<clientVars, serverVars, netVars, userVars, writer>>

\* The user's callback runs; whether it returns or throws, the next read is
\* started.
RunCallback ==
  /\ reader.at = "calling"
  /\ confirmed' = IF reader.callback.event = "on_subscribe"
                  THEN confirmed \cup {reader.callback.id} ELSE confirmed
  /\ finished' = IF reader.callback.event = "on_unsubscribe"
                 THEN finished \cup {reader.callback.id} ELSE finished
  /\ reader' = Reading
  /\ UNCHANGED <<clientVars, serverVars, netVars, asked, unsubscribed, writer>>

----------------------------------------------------------------------------
(* The server and the network: external, as src/ uses them. *)

\* the server accepts a subscription and gives it an id of its own
ServerAccepts ==
  /\ open
  /\ to_server # <<>>
  /\ Head(to_server).kind = "subscribe"
  /\ \E ws \in WsIds \ DOMAIN issued :
       /\ issued' = Put(issued, ws, [id |-> Head(to_server).id,
                                     acct |-> Head(to_server).acct])
       /\ live' = live \cup {ws}
       /\ to_client' =
            Append(to_client, SubscribedReply(Head(to_server).id, ws))
  /\ to_server' = Tail(to_server)
  /\ UNCHANGED <<clientVars, open, userVars, writer, reader>>

\* the server refuses a request: any subscription, or the end of one it does
\* not send
ServerRefuses ==
  /\ open
  /\ to_server # <<>>
  /\ Head(to_server).kind = "unsubscribe" => Head(to_server).ws \notin live
  /\ to_client' = Append(to_client, ErrorReply(Head(to_server).id))
  /\ to_server' = Tail(to_server)
  /\ UNCHANGED <<clientVars, serverVars, open, userVars, writer, reader>>

\* the server ends a subscription
ServerUnsubscribes ==
  /\ open
  /\ to_server # <<>>
  /\ Head(to_server).kind = "unsubscribe"
  /\ Head(to_server).ws \in live
  /\ live' = live \ {Head(to_server).ws}
  /\ to_client' = Append(to_client, UnsubscribedReply(Head(to_server).id))
  /\ to_server' = Tail(to_server)
  /\ UNCHANGED <<clientVars, issued, open, userVars, writer, reader>>

\* the account of a live subscription changed
ServerNotifies(ws) ==
  /\ open
  /\ ws \in live
  /\ Len(to_client) < MaxQueued
  /\ to_client' = Append(to_client, Notification(ws, issued[ws].acct))
  /\ UNCHANGED <<clientVars, serverVars, open, to_server, userVars,
                 writer, reader>>

\* The connection ends: the network fails, the server goes away, or the
\* closing handshake completes.  What the client had not read may be lost.
Cut ==
  /\ open
  /\ open' = FALSE
  /\ to_server' = <<>>
  /\ \E n \in 0 .. Len(to_client) : to_client' = SubSeq(to_client, 1, n)
  /\ UNCHANGED <<clientVars, serverVars, userVars, writer, reader>>

----------------------------------------------------------------------------
WriterStep ==
  \/ SubscribeWrite \/ SubscribeWriteThrows \/ SubscribeReturn
  \/ UnsubscribeErase \/ UnsubscribeWrite \/ UnsubscribeWriteThrows

UserCall ==
  \/ \E acct \in Accounts : Subscribe(acct)
  \/ \E id \in Returned : Unsubscribe(id) \/ UnsubscribeUnknown(id)
  \/ Disconnect

ConnectStep == HandshakeSucceeds \/ OnHandshake \/ ConnectFails

ReaderStep ==
  \/ ReadMessage \/ ReadFails
  \/ DispatchUnsubscribed \/ DispatchSubscribed
  \/ DispatchError \/ DispatchNotification
  \/ GetCallback \/ GetCallbackNone \/ RunCallback

ServerStep == ServerAccepts \/ ServerRefuses \/ ServerUnsubscribes

\* the destructor has closed the session and the reader thread has ended
Terminated ==
  /\ writer = Disconnected /\ reader = Stopped /\ ~open
  /\ UNCHANGED vars

Next ==
  \/ WriterStep \/ UserCall \/ ConnectStep \/ ReaderStep \/ ServerStep
  \/ \E ws \in live : ServerNotifies(ws)
  \/ Cut
  \/ Terminated

Spec == Init /\ [][Next]_vars
----------------------------------------------------------------------------
\* Every variable keeps its type: the maps of session hold request ids and ids
\* of the server where they should, and each thread has the locals of the place
\* it is at (websocket.hpp:112-132).
TypeOK ==
  /\ curr_id \in Nat
  /\ DOMAIN callback_map \subseteq Nat
  /\ callback_map \in [DOMAIN callback_map -> RequestContent]
  /\ DOMAIN maps_wsid_to_id \subseteq WsIds
  /\ maps_wsid_to_id \in [DOMAIN maps_wsid_to_id -> Nat]
  /\ is_connected \in BOOLEAN /\ open \in BOOLEAN
  /\ writer \in WriterState /\ reader \in ReaderState
  /\ to_server \in Seq(ToServer) /\ to_client \in Seq(ToClient)
  /\ DOMAIN issued \subseteq WsIds
  /\ issued \in [DOMAIN issued -> [id: Nat, acct: Accounts]]
  /\ live \subseteq DOMAIN issued
  /\ DOMAIN asked \subseteq Nat
  /\ asked \in [DOMAIN asked -> Accounts]
  /\ unsubscribed \subseteq Nat
  /\ confirmed \subseteq Nat /\ finished \subseteq Nat

Calling(event) == reader.at = "calling" /\ reader.callback.event = event

\* Data about an account reaches only a callback that was registered for that
\* account: across the id given by onAccountChange, the server's choice of a
\* subscription id, the confirmation that joins the two in the maps, and the
\* lookup of a notification.
CallbackMatchesData ==
  reader.at = "calling" =>
    /\ reader.callback.acct = reader.callback.data
    /\ reader.callback.id \in DOMAIN asked
    /\ reader.callback.acct = asked[reader.callback.id]

\* The strengthening that makes CallbackMatchesData inductive: wherever an id
\* of onAccountChange travels together with an account or with an id of the
\* server, the pair is the one the user asked for and the server gave out.
IdsAreFresh ==
  /\ \A id \in DOMAIN asked :
       id < curr_id \/ (id = curr_id /\ writer.at = "subscribe_return")
  /\ writer.at \in {"subscribe_write", "subscribe_return"}
       => writer.id = curr_id
  /\ writer.at = "subscribe_write" /\ writer.id \in DOMAIN callback_map
       => callback_map[writer.id].acct = writer.acct

RemovalsAreKnown ==
  /\ writer.at \in {"unsubscribe_locked", "unsubscribe_write"}
       => writer.id \in DOMAIN asked
  /\ WriterHoldsShared => writer.id \in DOMAIN callback_map

EntriesMatch ==
  \A id \in DOMAIN asked \cap DOMAIN callback_map :
    callback_map[id].acct = asked[id]

SentMatches(msg, users) ==
  /\ msg.kind = "subscribe" => msg.id \in DOMAIN users /\ users[msg.id] = msg.acct
  /\ msg.kind = "unsubscribe" => msg.id - 1 \in DOMAIN users

IssuedMatch ==
  \A ws \in DOMAIN issued :
    issued[ws].id \in DOMAIN asked /\ asked[issued[ws].id] = issued[ws].acct

ReceivedMatches(msg, users, servers) ==
  /\ msg.kind = "subscribed" =>
       msg.ws \in DOMAIN servers /\ servers[msg.ws].id = msg.id
  /\ msg.kind = "unsubscribed" => msg.id - 1 \in DOMAIN users
  /\ msg.kind = "notification" =>
       msg.ws \in DOMAIN servers /\ servers[msg.ws].acct = msg.acct

MessagesMatch ==
  /\ \A k \in 1 .. Len(to_server) : SentMatches(to_server[k], asked)
  /\ \A k \in 1 .. Len(to_client) :
       ReceivedMatches(to_client[k], asked, issued)
  /\ reader.at \in {"dispatch", "get_callback_locked"}
       => ReceivedMatches(reader.msg, asked, issued)

MappingsMatch ==
  \A ws \in DOMAIN maps_wsid_to_id :
    ws \in DOMAIN issued /\ issued[ws].id = maps_wsid_to_id[ws]

\* Every pairing of ids and accounts, in the maps, on the wire and in the
\* hands of the threads, is one that onAccountChange and the server made.
PairingsMatch ==
  /\ IdsAreFresh /\ RemovalsAreKnown
  /\ EntriesMatch /\ IssuedMatch /\ MappingsMatch
  /\ MessagesMatch

\* Once on_unsubscribe of a listener ran, its cb never runs again, although
\* the answer to the unsubscription leaves maps_wsid_to_id alone.
SilentAfterOnUnsubscribe ==
  Calling("cb") => reader.callback.id \notin finished

\* on_subscribe and on_unsubscribe run at most once for an id that
\* onAccountChange returned.
OnceEach ==
  /\ Calling("on_subscribe") => reader.callback.id \notin confirmed
  /\ Calling("on_unsubscribe") => reader.callback.id \notin finished

\* A listener that was confirmed and not removed stays reachable while the
\* connection is up: a notification of its subscription finds its callback.
Removing(id) ==
  \/ id \in unsubscribed
  \/ writer.at \in {"unsubscribe_locked", "unsubscribe_write"} /\ writer.id = id

ConfirmedListenerReachable ==
  \A ws \in live :
    open /\ issued[ws].id \in confirmed /\ ~Removing(issued[ws].id)
      => RequestOf(ws) = {issued[ws].id}

\* removeAccountChangeListener ends the subscription of the listener it is
\* called for and of no other.
OnlyRemovedEnd ==
  \A ws \in DOMAIN issued : ws \notin live => issued[ws].id \in unsubscribed

\* After removeAccountChangeListener(id) returned, no notification finds the
\* callback of id ("we have already unsubscribed so no need to call the
\* callback", websocket.cpp:268).
RemovedNotLookedUp ==
  [][reader.at = "get_callback_locked" /\ reader'.at = "calling"
       => reader'.callback.id \notin unsubscribed]_vars

\* No thread writes to the maps while another one reads them.
NoDataRace == ~(WriterHoldsShared /\ ReaderHoldsShared)

RequestIds == {2 * k : k \in 0 .. MaxRequests - 1}
Accepted(id) == \E ws \in DOMAIN issued : issued[ws].id = id

\* The strengthening that makes the promises to a user who awaits the
\* confirmation inductive: every place that knows a subscription by an id of
\* the server knows the one the server gave out for it, and which listeners
\* the maps know follows from what the user has been told and has asked for.
IsIssued(ws, id) == ws \in DOMAIN issued /\ issued[ws].id = id

\* on_subscribe of id ran, or runs
Reported(id) ==
  id \in confirmed \/ (Calling("on_subscribe") /\ reader.callback.id = id)

IssuedOnce ==
  /\ \A v, w \in DOMAIN issued : issued[v].id = issued[w].id => v = w
  /\ reader.at = "connecting" => ~open /\ DOMAIN issued = {}

EntriesConfirmed ==
  \A id \in DOMAIN callback_map :
    /\ Reported(id) => callback_map[id].subscribed
    /\ callback_map[id].subscribed => IsIssued(callback_map[id].ws_id, id)

RemovalsConfirmed ==
  /\ unsubscribed \subseteq confirmed
  /\ writer.at \in {"unsubscribe_locked", "unsubscribe_write"}
       => writer.id \in confirmed

RemovalsOwn ==
  /\ writer.at = "unsubscribe_write" => IsIssued(writer.ws, writer.id)
  /\ \A k \in 1 .. Len(to_server) :
       to_server[k].kind = "unsubscribe" =>
         /\ to_server[k].id - 1 \in unsubscribed
         /\ IsIssued(to_server[k].ws, to_server[k].id - 1)
  /\ \A k \in 1 .. Len(to_client) :
       to_client[k].kind = "unsubscribed" => to_client[k].id - 1 \in unsubscribed
  /\ reader.at = "dispatch" /\ reader.msg.kind = "unsubscribed"
       => reader.msg.id - 1 \in unsubscribed

MappedConfirmed ==
  \A ws \in DOMAIN maps_wsid_to_id :
    /\ Reported(maps_wsid_to_id[ws])
    /\ maps_wsid_to_id[ws] \notin unsubscribed
    /\ writer.at = "unsubscribe_write" => writer.id # maps_wsid_to_id[ws]

ConfirmedMapped ==
  \A ws \in DOMAIN issued :
    Reported(issued[ws].id) /\ issued[ws].id \notin unsubscribed =>
      /\ issued[ws].id \in DOMAIN callback_map
      /\ open /\ ~Removing(issued[ws].id) => ws \in DOMAIN maps_wsid_to_id

RequestIdsUsed ==
  /\ DOMAIN asked \subseteq RequestIds
  /\ curr_id \in RequestIds \cup {2 * MaxRequests}
  /\ writer.at \in {"subscribe_write", "subscribe_return"}
       => curr_id \in RequestIds

\* While the user removes only confirmed listeners, the maps know exactly the
\* confirmed listeners that nobody removed, each under its own id of the
\* server, and only what the user removed is ended (websocket.cpp:104-305).
MapsFollowUser ==
  /\ IssuedOnce /\ EntriesConfirmed
  /\ RemovalsConfirmed /\ RemovalsOwn
  /\ MappedConfirmed /\ ConfirmedMapped
  /\ OnlyRemovedEnd /\ RequestIdsUsed

Awaiting(id) ==
  \/ Accepted(id) /\ id \notin confirmed
  \/ id \in unsubscribed /\ id \notin finished

\* Unless the connection ends, a subscription the server accepted is reported
\* to the user by on_subscribe, and a removed listener hears on_unsubscribe.
AnswersReported ==
  \A id \in RequestIds : Awaiting(id) ~> (~Awaiting(id) \/ ~open \/ ~is_connected)

\* The session implements what its users are promised, as long as they remove
\* only confirmed listeners.
Promise == INSTANCE Listeners WITH
  Ids <- RequestIds,
  removed <- unsubscribed,
  running <- IF reader.at = "calling" THEN reader.callback
             ELSE [event |-> "none"]

ImplementsListeners == Promise!Spec
=============================================================================
