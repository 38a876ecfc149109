-------------------------- MODULE SubscriberProofs --------------------------
(***************************************************************************)
(* Proofs about Session, Lifecycle and Subscriber for any accounts, server *)
(* ids and bounds.  First the protocol, Session.  For both disciplines of  *)
(* the user: types and pairings, then what is called at most once and what *)
(* is not called any more.  For a user who waits for on_subscribe: what    *)
(* the maps say at every moment, and that Session implements what          *)
(* Listeners promises.  Then the subscriber as a whole, which implements   *)
(* each of its two views: what is proved of them holds of it.              *)
(***************************************************************************)
EXTENDS Subscriber, TLAPS

\* The invariant the proofs carry: types, and the pairings of ids and accounts.
Inv == TypeOK /\ PairingsMatch /\ CallbackMatchesData

----------------------------------------------------------------------------
(* Maps. *)

\* Writing a key of a map: the new entry, the old ones, and nothing else.
LEMMA PutFacts ==
  ASSUME NEW f, NEW k, NEW v
  PROVE  /\ DOMAIN Put(f, k, v) = DOMAIN f \cup {k}
         /\ Put(f, k, v)[k] = v
         /\ \A x \in DOMAIN f : x # k => Put(f, k, v)[x] = f[x]
BY DEF Put

\* Writing a key keeps the type of the values.
LEMMA PutType ==
  ASSUME NEW f, NEW k, NEW v, NEW V, f \in [DOMAIN f -> V], v \in V
  PROVE  Put(f, k, v) \in [DOMAIN Put(f, k, v) -> V]
BY DEF Put

\* Restricting a map to a part of its domain.
LEMMA RestrictFacts ==
  ASSUME NEW f, NEW S
  PROVE  /\ DOMAIN Restrict(f, S) = S
         /\ \A x \in S : Restrict(f, S)[x] = f[x]
BY DEF Restrict

----------------------------------------------------------------------------
(* Queues. *)

\* the elements of a sequence that grew by one
LEMMA AppendFacts ==
  ASSUME NEW S, NEW s \in Seq(S), NEW e \in S
  PROVE  /\ Append(s, e) \in Seq(S)
         /\ \A k \in 1 .. Len(Append(s, e)) :
              \/ k \in 1 .. Len(s) /\ Append(s, e)[k] = s[k]
              \/ Append(s, e)[k] = e
OBVIOUS

\* the head and the rest of a sequence
LEMMA TailFacts ==
  ASSUME NEW S, NEW s \in Seq(S), s # <<>>
  PROVE  /\ Tail(s) \in Seq(S)
         /\ Head(s) \in S /\ 1 \in 1 .. Len(s) /\ Head(s) = s[1]
         /\ \A k \in 1 .. Len(Tail(s)) :
              k + 1 \in 1 .. Len(s) /\ Tail(s)[k] = s[k + 1]
OBVIOUS

\* the elements of a prefix
LEMMA PrefixFacts ==
  ASSUME NEW S, NEW s \in Seq(S), NEW n \in 0 .. Len(s)
  PROVE  /\ SubSeq(s, 1, n) \in Seq(S)
         /\ \A k \in 1 .. Len(SubSeq(s, 1, n)) :
              k \in 1 .. Len(s) /\ SubSeq(s, 1, n)[k] = s[k]
OBVIOUS

----------------------------------------------------------------------------
(* Types. *)

\* the messages the parties send are messages
LEMMA MessageTypes ==
  /\ \A id \in Nat, acct \in Accounts : SubscriptionRequest(id, acct) \in ToServer
  /\ \A id \in Nat, ws \in WsIds \cup {NoWsId} :
       UnsubscriptionRequest(id, ws) \in ToServer
  /\ \A id \in Nat, ws \in WsIds : SubscribedReply(id, ws) \in ToClient
  /\ \A id \in Nat : UnsubscribedReply(id) \in ToClient /\ ErrorReply(id) \in ToClient
  /\ \A ws \in WsIds, acct \in Accounts : Notification(ws, acct) \in ToClient
BY DEF ToServer, ToClient, Notifications, SubscriptionRequest, UnsubscriptionRequest,
       SubscribedReply, UnsubscribedReply, ErrorReply, Notification

\* the members that each kind of message has
LEMMA MessageFields ==
  /\ \A msg \in ToServer :
       /\ msg.kind \in {"subscribe", "unsubscribe"}
       /\ msg.id \in Nat
       /\ msg.kind = "subscribe" => msg.acct \in Accounts
       /\ msg.kind = "unsubscribe" => msg.ws \in WsIds \cup {NoWsId}
  /\ \A msg \in ToClient :
       /\ msg.kind \in {"subscribed", "unsubscribed", "error", "notification"}
       /\ msg.kind # "notification" => msg.id \in Nat
       /\ msg.kind \in {"subscribed", "notification"} => msg.ws \in WsIds
       /\ msg.kind = "notification" => msg \in Notifications
BY DEF ToServer, ToClient, Notifications

\* The locals of the two threads, by where the threads are.
LEMMA ThreadTypes ==
  ASSUME TypeOK
  PROVE  /\ writer.at \in {"subscribe_write", "subscribe_return"}
              => writer \in [at: {"subscribe_write", "subscribe_return"},
                             id: Nat, acct: Accounts]
         /\ writer.at = "unsubscribe_locked"
              => writer \in [at: {"unsubscribe_locked"}, id: Nat]
         /\ writer.at = "unsubscribe_write"
              => writer \in [at: {"unsubscribe_write"}, id: Nat,
                             ws: WsIds \cup {NoWsId}]
         /\ reader.at = "dispatch"
              => reader \in [at: {"dispatch"}, msg: ToClient]
         /\ reader.at = "get_callback_locked"
              => reader \in [at: {"get_callback_locked"}, msg: Notifications]
         /\ reader.at = "calling"
              => reader \in [at: {"calling"}, callback: UserCallback]
BY DEF TypeOK, WriterState, ReaderState

\* the places of the two threads are among their states
LEMMA StateTypes ==
  /\ Idle \in WriterState /\ Disconnected \in WriterState
  /\ \A id \in Nat, acct \in Accounts :
       /\ [at |-> "subscribe_write", id |-> id, acct |-> acct] \in WriterState
       /\ [at |-> "subscribe_return", id |-> id, acct |-> acct] \in WriterState
  /\ \A id \in Nat : [at |-> "unsubscribe_locked", id |-> id] \in WriterState
  /\ \A id \in Nat, ws \in WsIds \cup {NoWsId} :
       [at |-> "unsubscribe_write", id |-> id, ws |-> ws] \in WriterState
  /\ {Connecting, Handshaken, Reading, Stopped} \subseteq ReaderState
  /\ \A msg \in ToClient : [at |-> "dispatch", msg |-> msg] \in ReaderState
  /\ \A msg \in Notifications :
       [at |-> "get_callback_locked", msg |-> msg] \in ReaderState
BY DEF WriterState, ReaderState, Idle, Disconnected, Connecting, Handshaken,
       Reading, Stopped

\* a callback taken from callback_map is a state of the reader
LEMMA CallbackTypes ==
  ASSUME TypeOK,
         NEW event \in {"on_subscribe", "on_unsubscribe", "cb"},
         NEW id \in DOMAIN callback_map, NEW data \in Accounts
  PROVE  CallbackOf(event, id, data) \in ReaderState
BY DEF TypeOK, CallbackOf, ReaderState, UserCallback, RequestContent

\* the session starts well typed
LEMMA InitTypeOK == Init => TypeOK
<1> SUFFICES ASSUME Init PROVE TypeOK
  OBVIOUS
<1>1. is_connected \in BOOLEAN /\ open \in BOOLEAN
  BY DEF Init
<1>2. writer \in WriterState /\ reader \in ReaderState
  BY StateTypes DEF Init
<1>3. /\ curr_id = 0 /\ callback_map = NoEntries
      /\ maps_wsid_to_id = NoEntries
      /\ to_server = <<>> /\ to_client = <<>>
      /\ issued = NoEntries /\ live = {} /\ asked = NoEntries
      /\ unsubscribed = {} /\ confirmed = {} /\ finished = {}
  BY DEF Init
<1> QED BY <1>1, <1>2, <1>3 DEF TypeOK, NoEntries

\* One lemma for each group of actions: it keeps the types.
LEMMA WriterStepTypes ==
  ASSUME TypeOK, PairingsMatch, WriterStep
  PROVE  TypeOK'
<1>1. CASE SubscribeWrite
  <2>1. /\ writer.id \in Nat /\ writer.acct \in Accounts
        /\ writer' = [at |-> "subscribe_return", id |-> writer.id,
                      acct |-> writer.acct]
    BY <1>1, ThreadTypes DEF SubscribeWrite
  <2>2. to_server' \in Seq(ToServer)
    <3>1. SubscriptionRequest(writer.id, writer.acct) \in ToServer
      BY <2>1, MessageTypes
    <3>2. to_server \in Seq(ToServer)
      BY DEF TypeOK
    <3> QED BY <1>1, <3>1, <3>2 DEF SubscribeWrite, Written
  <2>3. asked' \in [DOMAIN asked' -> Accounts] /\ DOMAIN asked' \subseteq Nat
    <3>1. asked' = Put(asked, writer.id, writer.acct)
      BY <1>1 DEF SubscribeWrite
    <3>2. asked \in [DOMAIN asked -> Accounts] /\ DOMAIN asked \subseteq Nat
      BY DEF TypeOK
    <3> QED BY <2>1, <3>1, <3>2 DEF Put
  <2>4. writer' \in WriterState
    BY <2>1, StateTypes
  <2> QED BY <1>1, <2>2, <2>3, <2>4
          DEF SubscribeWrite, TypeOK, clientVars, serverVars
<1>2. CASE SubscribeWriteThrows
  BY <1>2, StateTypes
     DEF SubscribeWriteThrows, TypeOK, clientVars, serverVars, netVars, userVars
<1>3. CASE SubscribeReturn
  BY <1>3, StateTypes
     DEF SubscribeReturn, NextRequestId, TypeOK, serverVars, netVars, userVars
<1>4. CASE UnsubscribeErase
  <2>1. writer.id \in Nat /\ writer.id \in DOMAIN callback_map
    BY <1>4, ThreadTypes
       DEF UnsubscribeErase, WriterHoldsShared, PairingsMatch, RemovalsAreKnown
  <2>2. PICK ws \in WsIds \cup {NoWsId} :
          /\ writer' = [at |-> "unsubscribe_write", id |-> writer.id, ws |-> ws]
          /\ maps_wsid_to_id' = Unmapped(ws)
    BY <1>4, <2>1 DEF UnsubscribeErase, WsIdRead, TypeOK, RequestContent
  <2>3. writer' \in WriterState
    BY <2>1, <2>2, StateTypes
  <2>4. /\ DOMAIN maps_wsid_to_id' \subseteq WsIds
        /\ maps_wsid_to_id' \in [DOMAIN maps_wsid_to_id' -> Nat]
    BY <2>2 DEF Unmapped, Restrict, TypeOK
  <2> QED BY <1>4, <2>3, <2>4
          DEF UnsubscribeErase, TypeOK, serverVars, netVars, userVars
<1>5. CASE UnsubscribeWrite
  <2>1. writer.id \in Nat /\ writer.ws \in WsIds \cup {NoWsId}
    BY <1>5, ThreadTypes DEF UnsubscribeWrite
  <2>2. to_server' \in Seq(ToServer)
    BY <1>5, <2>1, MessageTypes, AppendFacts, SMTT(30)
       DEF UnsubscribeWrite, Written, TypeOK
  <2> QED BY <1>5, <2>1, <2>2, StateTypes
          DEF UnsubscribeWrite, TypeOK, clientVars, serverVars
<1>6. CASE UnsubscribeWriteThrows
  BY <1>6, StateTypes
     DEF UnsubscribeWriteThrows, TypeOK, clientVars, serverVars, netVars, userVars
<1> QED BY <1>1, <1>2, <1>3, <1>4, <1>5, <1>6 DEF WriterStep

\* the calls of the user keep the types
LEMMA UserCallTypes ==
  ASSUME TypeOK, UserCall
  PROVE  TypeOK'
<1>1. ASSUME NEW acct \in Accounts, Subscribe(acct) PROVE TypeOK'
  <2>1. writer' \in WriterState
    BY <1>1, StateTypes DEF Subscribe, TypeOK
  <2>2. [acct |-> acct, subscribed |-> FALSE, ws_id |-> NoWsId]
          \in RequestContent
    BY DEF RequestContent
  <2>3. /\ DOMAIN callback_map' \subseteq Nat
        /\ callback_map' \in [DOMAIN callback_map' -> RequestContent]
    BY <1>1, <2>2 DEF Subscribe, Put, TypeOK
  <2> QED BY <1>1, <2>1, <2>3
          DEF Subscribe, TypeOK, serverVars, netVars, userVars
<1>2. ASSUME NEW id \in Returned, Unsubscribe(id) PROVE TypeOK'
  BY <1>2, StateTypes DEF Unsubscribe, Returned, TypeOK,
     clientVars, serverVars, netVars, userVars
<1>3. ASSUME NEW id \in Returned, UnsubscribeUnknown(id) PROVE TypeOK'
  BY <1>3 DEF UnsubscribeUnknown, Returned, TypeOK,
     clientVars, serverVars, netVars
<1>4. CASE Disconnect
  BY <1>4, StateTypes DEF Disconnect, TypeOK, serverVars, netVars, userVars
<1> QED BY <1>1, <1>2, <1>3, <1>4 DEF UserCall

\* the way to the first read keeps the types
LEMMA ConnectStepTypes ==
  ASSUME TypeOK, ConnectStep
  PROVE  TypeOK'
<1> USE DEF serverVars, userVars, clientVars
<1>1. CASE HandshakeSucceeds
  BY <1>1, StateTypes DEF HandshakeSucceeds, TypeOK
<1>2. CASE OnHandshake
  BY <1>2, StateTypes DEF OnHandshake, netVars, TypeOK
<1>3. CASE ConnectFails
  BY <1>3, StateTypes DEF ConnectFails, TypeOK
<1> QED BY <1>1, <1>2, <1>3 DEF ConnectStep

\* the steps of the reader keep the types
LEMMA ReaderStepTypes ==
  ASSUME TypeOK, ReaderStep
  PROVE  TypeOK'
<1> USE DEF serverVars, netVars, userVars, clientVars
<1>1. CASE ReadMessage
  <2>1. Head(to_client) \in ToClient /\ Tail(to_client) \in Seq(ToClient)
    BY <1>1, TailFacts DEF ReadMessage, TypeOK
  <2>2. reader' \in ReaderState
    BY <1>1, <2>1, StateTypes DEF ReadMessage
  <2> QED BY <1>1, <2>1, <2>2 DEF ReadMessage, TypeOK
<1>2. CASE ReadFails
  BY <1>2, StateTypes DEF ReadFails, TypeOK
<1>3. CASE DispatchUnsubscribed
  <2>1. reader.msg \in ToClient
    BY <1>3, ThreadTypes DEF DispatchUnsubscribed
  <2>2. reader' \in ReaderState
    <3>1. \A id \in DOMAIN callback_map : callback_map[id].acct \in Accounts
      BY DEF TypeOK, RequestContent
    <3> QED BY <1>3, <3>1, CallbackTypes, StateTypes DEF DispatchUnsubscribed
  <2>3. /\ DOMAIN callback_map' \subseteq Nat
        /\ callback_map' \in [DOMAIN callback_map' -> RequestContent]
    BY <1>3 DEF DispatchUnsubscribed, RequestErased, Restrict, TypeOK
  <2> QED BY <1>3, <2>2, <2>3 DEF DispatchUnsubscribed, TypeOK
<1>4. CASE DispatchSubscribed
  <2>1. reader.msg.id \in Nat /\ reader.msg.ws \in WsIds
    BY <1>4, ThreadTypes, MessageFields DEF DispatchSubscribed
  <2>2. reader' \in ReaderState
    <3>1. \A id \in DOMAIN callback_map : callback_map[id].acct \in Accounts
      BY DEF TypeOK, RequestContent
    <3> QED BY <1>4, <3>1, CallbackTypes, StateTypes DEF DispatchSubscribed
  <2>3. CASE reader.msg.id \in DOMAIN callback_map
    <3>1. ConfirmedRequest(callback_map[reader.msg.id], reader.msg.ws)
            \in RequestContent
      BY <2>1, <2>3 DEF ConfirmedRequest, RequestContent, TypeOK
    <3>2. /\ DOMAIN callback_map' \subseteq Nat
          /\ callback_map' \in [DOMAIN callback_map' -> RequestContent]
      BY <1>4, <2>3, <3>1 DEF DispatchSubscribed, TypeOK
    <3>3. /\ DOMAIN maps_wsid_to_id' \subseteq WsIds
          /\ maps_wsid_to_id' \in [DOMAIN maps_wsid_to_id' -> Nat]
      BY <1>4, <2>1, <2>3 DEF DispatchSubscribed, Mapped, Put, TypeOK
    <3> QED BY <1>4, <2>2, <3>2, <3>3 DEF DispatchSubscribed, TypeOK
  <2>4. CASE reader.msg.id \notin DOMAIN callback_map
    BY <1>4, <2>2, <2>4 DEF DispatchSubscribed, TypeOK
  <2> QED BY <2>3, <2>4
<1>5. CASE DispatchError
  BY <1>5, StateTypes DEF DispatchError, TypeOK
<1>6. CASE DispatchNotification
  <2>1. reader.msg \in Notifications
    BY <1>6, ThreadTypes, MessageFields DEF DispatchNotification
  <2> QED BY <1>6, <2>1, StateTypes DEF DispatchNotification, TypeOK
<1>7. CASE GetCallback
  <2>1. reader.msg.acct \in Accounts
    BY <1>7, ThreadTypes DEF GetCallback, ReaderHoldsShared, Notifications
  <2>2. PICK id \in RequestOf(reader.msg.ws) :
          reader' = CallbackOf("cb", id, reader.msg.acct)
    BY <1>7 DEF GetCallback
  <2> QED
    BY <1>7, <2>1, <2>2, CallbackTypes DEF GetCallback, RequestOf, TypeOK
<1>8. CASE GetCallbackNone
  BY <1>8, StateTypes DEF GetCallbackNone, TypeOK
<1>9. CASE RunCallback
  <2>1. reader.callback.id \in Nat
    BY <1>9, ThreadTypes DEF RunCallback, UserCallback
  <2> QED BY <1>9, <2>1, StateTypes DEF RunCallback, TypeOK
<1> QED BY <1>1, <1>2, <1>3, <1>4, <1>5, <1>6, <1>7, <1>8, <1>9 DEF ReaderStep

\* the steps of the server keep the types
LEMMA ServerStepTypes ==
  ASSUME TypeOK, ServerStep
  PROVE  TypeOK'
<1>1. /\ to_server \in Seq(ToServer) /\ to_client \in Seq(ToClient)
      /\ to_server # <<>>
      /\ open /\ to_server' = Tail(to_server)
  BY DEF TypeOK, ServerStep, ServerAccepts, ServerRefuses, ServerUnsubscribes
<1>2. Head(to_server) \in ToServer /\ to_server' \in Seq(ToServer)
  BY <1>1, TailFacts
<1>3. CASE ServerAccepts
  <2>1. Head(to_server).id \in Nat /\ Head(to_server).acct \in Accounts
    BY <1>2, <1>3, MessageFields DEF ServerAccepts
  <2>2. PICK ws \in WsIds \ DOMAIN issued :
          /\ issued' = Put(issued, ws, [id |-> Head(to_server).id,
                                        acct |-> Head(to_server).acct])
          /\ live' = live \cup {ws}
          /\ to_client' =
               Append(to_client, SubscribedReply(Head(to_server).id, ws))
    BY <1>3 DEF ServerAccepts
  <2>3. to_client' \in Seq(ToClient)
    BY <1>1, <2>1, <2>2, MessageTypes
  <2>4. /\ DOMAIN issued' \subseteq WsIds
        /\ issued' \in [DOMAIN issued' -> [id: Nat, acct: Accounts]]
        /\ live' \subseteq DOMAIN issued'
    BY <2>1, <2>2 DEF Put, TypeOK
  <2> QED BY <1>2, <1>3, <2>3, <2>4
          DEF ServerAccepts, TypeOK, clientVars, userVars
<1>4. CASE ServerRefuses
  <2>1. to_client' \in Seq(ToClient)
    BY <1>1, <1>2, <1>4, MessageTypes, MessageFields DEF ServerRefuses
  <2> QED BY <1>2, <1>4, <2>1
          DEF ServerRefuses, TypeOK, clientVars, serverVars, userVars
<1>5. CASE ServerUnsubscribes
  <2>1. to_client' \in Seq(ToClient)
    BY <1>1, <1>2, <1>5, MessageTypes, MessageFields DEF ServerUnsubscribes
  <2> QED BY <1>2, <1>5, <2>1 DEF ServerUnsubscribes, TypeOK, clientVars, userVars
<1> QED BY <1>3, <1>4, <1>5 DEF ServerStep

\* notifications and the end of the connection keep the types
LEMMA NetworkTypes ==
  ASSUME TypeOK, Cut \/ \E ws \in live : ServerNotifies(ws)
  PROVE  TypeOK'
<1>1. CASE Cut
  <2>1. to_client' \in Seq(ToClient) /\ to_server' \in Seq(ToServer)
    BY <1>1, PrefixFacts DEF Cut, TypeOK
  <2> QED BY <1>1, <2>1 DEF Cut, TypeOK, clientVars, serverVars, userVars
<1>2. ASSUME NEW ws \in live, ServerNotifies(ws) PROVE TypeOK'
  <2>1. Notification(ws, issued[ws].acct) \in ToClient
    BY MessageTypes DEF TypeOK
  <2>2. to_client' \in Seq(ToClient)
    BY <1>2, <2>1 DEF ServerNotifies, TypeOK
  <2> QED BY <1>2, <2>2
          DEF ServerNotifies, TypeOK, clientVars, serverVars, userVars
<1> QED BY <1>1, <1>2

----------------------------------------------------------------------------
(* Pairings. *)

\* What a step leaves alone, the pairings in it leaves alone.
LEMMA InitPairings == Init => PairingsMatch /\ CallbackMatchesData
BY DEF Init, PairingsMatch, IdsAreFresh, RemovalsAreKnown, EntriesMatch,
       IssuedMatch, MappingsMatch, MessagesMatch, CallbackMatchesData,
       WriterHoldsShared, NoEntries, Idle, Connecting

\* A map that only gains entries.
Grows(f, g) == DOMAIN f \subseteq DOMAIN g /\ \A x \in DOMAIN f : g[x] = f[x]

\* While asked and issued only gain entries, messages that match go on
\* matching.
LEMMA MatchesLast ==
  ASSUME Grows(asked, asked'), Grows(issued, issued')
  PROVE  /\ \A msg : SentMatches(msg, asked) => SentMatches(msg, asked')
         /\ \A msg : ReceivedMatches(msg, asked, issued)
                       => ReceivedMatches(msg, asked', issued')
BY DEF Grows, SentMatches, ReceivedMatches

\* Pairings among things a step leaves alone.
LEMMA Frames ==
  ASSUME Inv
  PROVE  /\ UNCHANGED <<asked, curr_id, writer, callback_map>>
              => IdsAreFresh' /\ RemovalsAreKnown'
         /\ UNCHANGED <<asked, callback_map>> => EntriesMatch'
         /\ UNCHANGED <<asked, issued>> => IssuedMatch'
         /\ UNCHANGED <<maps_wsid_to_id, issued>> => MappingsMatch'
         /\ UNCHANGED <<asked, issued, to_server, to_client, reader>>
              => MessagesMatch'
         /\ UNCHANGED <<asked, reader>> => CallbackMatchesData'
BY DEF Inv, PairingsMatch, IdsAreFresh, RemovalsAreKnown, EntriesMatch,
       IssuedMatch, MappingsMatch, MessagesMatch, CallbackMatchesData,
       WriterHoldsShared

\* the steps of the writer keep the pairings
LEMMA WriterStepPairings ==
  ASSUME Inv, WriterStep
  PROVE  PairingsMatch' /\ CallbackMatchesData'
<1> USE DEF Inv, PairingsMatch
<1>1. CASE SubscribeWrite
  <2>1. /\ writer.id \in Nat /\ writer.acct \in Accounts /\ writer.id = curr_id
        /\ writer' = [at |-> "subscribe_return", id |-> writer.id,
                      acct |-> writer.acct]
    BY <1>1, ThreadTypes DEF SubscribeWrite, IdsAreFresh
  <2>2. curr_id \notin DOMAIN asked
    BY <1>1 DEF SubscribeWrite, IdsAreFresh, TypeOK
  <2>3. /\ DOMAIN asked' = DOMAIN asked \cup {curr_id}
        /\ asked'[curr_id] = writer.acct
        /\ \A id \in DOMAIN asked : asked'[id] = asked[id]
    BY <1>1, <2>1, <2>2 DEF SubscribeWrite, Put
  <2>4. /\ UNCHANGED <<clientVars, serverVars, to_client, reader>>
        /\ \/ to_server' = Append(to_server,
                              SubscriptionRequest(writer.id, writer.acct))
           \/ to_server' = to_server
    BY <1>1 DEF SubscribeWrite, Written
  <2>5. Grows(asked, asked') /\ Grows(issued, issued')
    BY <2>3, <2>4 DEF Grows, serverVars
  <2>6. IdsAreFresh' /\ RemovalsAreKnown'
    BY <2>1, <2>3, <2>4
       DEF IdsAreFresh, RemovalsAreKnown, WriterHoldsShared, clientVars
  <2>7. EntriesMatch'
    BY <1>1, <2>1, <2>3, <2>4
       DEF EntriesMatch, IdsAreFresh, SubscribeWrite, clientVars
  <2>8. IssuedMatch' /\ MappingsMatch'
    BY <2>4, <2>5 DEF IssuedMatch, MappingsMatch, Grows, clientVars, serverVars
  <2>9. MessagesMatch'
    <3>1. SentMatches(SubscriptionRequest(writer.id, writer.acct), asked')
      BY <2>1, <2>3 DEF SentMatches, SubscriptionRequest
    <3>2. \A k \in 1 .. Len(to_server') : SentMatches(to_server'[k], asked')
      <4>1. /\ to_server \in Seq(ToServer)
            /\ SubscriptionRequest(writer.id, writer.acct) \in ToServer
        BY <2>1, MessageTypes DEF TypeOK
      <4>2. \A k \in 1 .. Len(to_server) : SentMatches(to_server[k], asked')
        BY <2>5, MatchesLast DEF MessagesMatch
      <4> QED BY <2>4, <3>1, <4>1, <4>2, AppendFacts
    <3> QED BY <2>4, <2>5, <3>2, MatchesLast DEF MessagesMatch
  <2>10. CallbackMatchesData'
    BY <2>3, <2>4 DEF CallbackMatchesData
  <2> QED BY <2>6, <2>7, <2>8, <2>9, <2>10
<1>2. CASE SubscribeWriteThrows
  <2>1. /\ writer.at = "subscribe_write" /\ writer' = Idle
        /\ UNCHANGED <<clientVars, serverVars, netVars, userVars, reader>>
    BY <1>2 DEF SubscribeWriteThrows
  <2>2. IdsAreFresh' /\ RemovalsAreKnown'
    BY <2>1 DEF IdsAreFresh, RemovalsAreKnown, WriterHoldsShared, Idle,
       clientVars, userVars
  <2> QED BY <2>1, <2>2, Frames DEF clientVars, serverVars, netVars, userVars
<1>3. CASE SubscribeReturn
  <2>1. /\ writer.at = "subscribe_return" /\ writer' = Idle
        /\ curr_id' = curr_id + 2
        /\ UNCHANGED <<callback_map, maps_wsid_to_id, reader,
                       serverVars, netVars, userVars>>
    BY <1>3 DEF SubscribeReturn, NextRequestId
  <2>2. IdsAreFresh' /\ RemovalsAreKnown'
    BY <2>1 DEF IdsAreFresh, RemovalsAreKnown, WriterHoldsShared, Idle,
       userVars, TypeOK
  <2> QED BY <2>1, <2>2, Frames DEF serverVars, netVars, userVars
<1>4. CASE UnsubscribeErase
  <2>1. PICK ws :
          /\ writer' = [at |-> "unsubscribe_write", id |-> writer.id, ws |-> ws]
          /\ maps_wsid_to_id' = Unmapped(ws)
    BY <1>4 DEF UnsubscribeErase
  <2>2. /\ writer.at = "unsubscribe_locked"
        /\ UNCHANGED <<curr_id, callback_map, reader,
                       serverVars, netVars, userVars>>
    BY <1>4 DEF UnsubscribeErase, WriterHoldsShared
  <2>3. IdsAreFresh' /\ RemovalsAreKnown'
    BY <2>1, <2>2
       DEF IdsAreFresh, RemovalsAreKnown, WriterHoldsShared, userVars
  <2>4. MappingsMatch'
    BY <2>1, <2>2 DEF MappingsMatch, Unmapped, Restrict, serverVars
  <2> QED BY <2>2, <2>3, <2>4, Frames DEF serverVars, netVars, userVars
<1>5. CASE UnsubscribeWrite
  <2>1. /\ writer.id \in Nat /\ writer.ws \in WsIds \cup {NoWsId}
        /\ writer.id \in DOMAIN asked
        /\ writer.at = "unsubscribe_write" /\ writer' = Idle
    BY <1>5, ThreadTypes DEF UnsubscribeWrite, RemovalsAreKnown
  <2>2. /\ UNCHANGED <<clientVars, serverVars, to_client, reader, asked>>
        /\ \/ to_server' = Append(to_server,
                              UnsubscriptionRequest(writer.id, writer.ws))
           \/ to_server' = to_server
    BY <1>5 DEF UnsubscribeWrite, Written
  <2>3. IdsAreFresh' /\ RemovalsAreKnown'
    BY <2>1, <2>2
       DEF IdsAreFresh, RemovalsAreKnown, WriterHoldsShared, Idle, clientVars
  <2>4. MessagesMatch'
    <3>1. SentMatches(UnsubscriptionRequest(writer.id, writer.ws), asked)
      BY <2>1 DEF SentMatches, UnsubscriptionRequest
    <3>2. /\ to_server \in Seq(ToServer)
          /\ UnsubscriptionRequest(writer.id, writer.ws) \in ToServer
      BY <2>1, MessageTypes DEF TypeOK
    <3>3. \A k \in 1 .. Len(to_server') : SentMatches(to_server'[k], asked)
      BY <2>2, <3>1, <3>2, AppendFacts DEF MessagesMatch
    <3> QED BY <2>2, <3>3 DEF MessagesMatch, serverVars
  <2> QED BY <2>2, <2>3, <2>4, Frames DEF clientVars, serverVars
<1>6. CASE UnsubscribeWriteThrows
  <2>1. /\ writer.at = "unsubscribe_write" /\ writer' = Idle
        /\ UNCHANGED <<clientVars, serverVars, netVars, userVars, reader>>
    BY <1>6 DEF UnsubscribeWriteThrows
  <2>2. IdsAreFresh' /\ RemovalsAreKnown'
    BY <2>1 DEF IdsAreFresh, RemovalsAreKnown, WriterHoldsShared, Idle,
       clientVars, userVars
  <2> QED BY <2>1, <2>2, Frames DEF clientVars, serverVars, netVars, userVars
<1> QED BY <1>1, <1>2, <1>3, <1>4, <1>5, <1>6 DEF WriterStep

\* the calls of the user keep the pairings
LEMMA UserCallPairings ==
  ASSUME Inv, UserCall
  PROVE  PairingsMatch' /\ CallbackMatchesData'
<1> USE DEF Inv, PairingsMatch
<1>1. ASSUME NEW acct \in Accounts, Subscribe(acct)
      PROVE  PairingsMatch' /\ CallbackMatchesData'
  <2>1. /\ writer = Idle
        /\ writer' = [at |-> "subscribe_write", id |-> curr_id, acct |-> acct]
        /\ UNCHANGED <<curr_id, maps_wsid_to_id, reader,
                       serverVars, netVars, userVars>>
    BY <1>1 DEF Subscribe
  <2>2. /\ DOMAIN callback_map' = DOMAIN callback_map \cup {curr_id}
        /\ callback_map'[curr_id].acct = acct
        /\ \A id \in DOMAIN callback_map :
             id # curr_id => callback_map'[id] = callback_map[id]
    BY <1>1 DEF Subscribe, Put
  <2>3. \A id \in DOMAIN asked : id < curr_id /\ id # curr_id
    BY <2>1 DEF IdsAreFresh, Idle, TypeOK
  <2>4. IdsAreFresh' /\ RemovalsAreKnown'
    BY <2>1, <2>2, <2>3
       DEF IdsAreFresh, RemovalsAreKnown, WriterHoldsShared, userVars
  <2>5. EntriesMatch'
    BY <2>1, <2>2, <2>3 DEF EntriesMatch, userVars
  <2> QED BY <2>1, <2>4, <2>5, Frames DEF serverVars, netVars, userVars
<1>2. ASSUME NEW id \in Returned, Unsubscribe(id)
      PROVE  PairingsMatch' /\ CallbackMatchesData'
  <2>1. /\ writer = Idle /\ id \in DOMAIN callback_map /\ id \in DOMAIN asked
        /\ writer' = [at |-> "unsubscribe_locked", id |-> id]
        /\ UNCHANGED <<clientVars, serverVars, netVars, userVars, reader>>
    BY <1>2 DEF Unsubscribe, Returned
  <2>2. IdsAreFresh' /\ RemovalsAreKnown'
    BY <2>1 DEF IdsAreFresh, RemovalsAreKnown, WriterHoldsShared, Idle,
       clientVars, userVars
  <2> QED BY <2>1, <2>2, Frames DEF clientVars, serverVars, netVars, userVars
<1>3. ASSUME NEW id \in Returned, UnsubscribeUnknown(id)
      PROVE  PairingsMatch' /\ CallbackMatchesData'
  BY <1>3, Frames DEF UnsubscribeUnknown, clientVars, serverVars, netVars
<1>4. CASE Disconnect
  <2>1. /\ writer = Idle /\ writer' = Disconnected
        /\ UNCHANGED <<curr_id, callback_map, maps_wsid_to_id, reader,
                       serverVars, netVars, userVars>>
    BY <1>4 DEF Disconnect
  <2>2. IdsAreFresh' /\ RemovalsAreKnown'
    BY <2>1 DEF IdsAreFresh, RemovalsAreKnown, WriterHoldsShared, Idle,
       Disconnected, userVars
  <2> QED BY <2>1, <2>2, Frames DEF serverVars, netVars, userVars
<1> QED BY <1>1, <1>2, <1>3, <1>4 DEF UserCall

\* the way to the first read keeps the pairings
LEMMA ConnectStepPairings ==
  ASSUME Inv, ConnectStep
  PROVE  PairingsMatch' /\ CallbackMatchesData'
<1> USE DEF Inv, PairingsMatch
<1>1. /\ UNCHANGED <<curr_id, callback_map, maps_wsid_to_id, serverVars,
                     to_client, userVars, writer>>
      /\ reader' \in {Handshaken, Reading, Stopped}
      /\ to_server' = to_server \/ to_server' = <<>>
  BY DEF ConnectStep, HandshakeSucceeds, OnHandshake, ConnectFails,
     clientVars, netVars
<1>2. MessagesMatch' /\ CallbackMatchesData'
  <2>1. /\ reader'.at \notin {"dispatch", "get_callback_locked", "calling"}
        /\ UNCHANGED <<asked, issued, to_client>>
    BY <1>1 DEF Handshaken, Reading, Stopped, serverVars, userVars
  <2> QED BY <1>1, <2>1 DEF MessagesMatch, CallbackMatchesData
<1> QED BY <1>1, <1>2, Frames DEF serverVars, userVars

\* the steps of the reader keep the pairings
LEMMA ReaderStepPairings ==
  ASSUME Inv, ReaderStep
  PROVE  PairingsMatch' /\ CallbackMatchesData'
<1> USE DEF Inv, PairingsMatch
<1>1. CASE ReadMessage
  <2>1. /\ to_client \in Seq(ToClient) /\ to_client # <<>>
        /\ to_client' = Tail(to_client)
        /\ UNCHANGED <<clientVars, serverVars, to_server, userVars, writer>>
        /\ \/ reader' = [at |-> "dispatch", msg |-> Head(to_client)]
           \/ reader' = Stopped
    BY <1>1 DEF ReadMessage, TypeOK
  <2>2. /\ ReceivedMatches(Head(to_client), asked, issued)
        /\ \A k \in 1 .. Len(to_client') :
             ReceivedMatches(to_client'[k], asked, issued)
    BY <2>1, TailFacts DEF MessagesMatch
  <2>3. MessagesMatch' /\ CallbackMatchesData'
    BY <2>1, <2>2
       DEF MessagesMatch, CallbackMatchesData, Stopped, serverVars, userVars
  <2> QED BY <2>1, <2>3, Frames DEF clientVars, serverVars, userVars
<1>2. CASE ReadFails
  <2>1. MessagesMatch' /\ CallbackMatchesData'
    BY <1>2 DEF ReadFails, Stopped, MessagesMatch,
       CallbackMatchesData, serverVars, netVars, userVars
  <2> QED BY <1>2, <2>1, Frames
          DEF ReadFails, clientVars, serverVars, netVars, userVars
<1>3. CASE DispatchUnsubscribed
  <2> DEFINE id == reader.msg.id - 1
  <2>1. /\ reader.at = "dispatch" /\ ~WriterHoldsShared
        /\ id \in DOMAIN asked
        /\ UNCHANGED <<curr_id, maps_wsid_to_id, serverVars, netVars,
                       userVars, writer>>
    BY <1>3 DEF DispatchUnsubscribed, MessagesMatch, ReceivedMatches
  <2>2. \/ /\ id \in DOMAIN callback_map
           /\ reader' = CallbackOf("on_unsubscribe", id, callback_map[id].acct)
           /\ callback_map' = RequestErased(id)
        \/ reader' = Reading /\ callback_map' = callback_map
    BY <1>3 DEF DispatchUnsubscribed
  <2>3. /\ DOMAIN callback_map' \subseteq DOMAIN callback_map
        /\ \A i \in DOMAIN callback_map' : callback_map'[i] = callback_map[i]
    BY <2>2 DEF RequestErased, Restrict
  <2>4. IdsAreFresh' /\ RemovalsAreKnown' /\ EntriesMatch'
    BY <2>1, <2>3
       DEF IdsAreFresh, RemovalsAreKnown, EntriesMatch, WriterHoldsShared, userVars
  <2>5. MessagesMatch' /\ CallbackMatchesData'
    BY <2>1, <2>2 DEF MessagesMatch, CallbackMatchesData, CallbackOf, Reading,
       EntriesMatch, serverVars, netVars, userVars
  <2> QED BY <2>1, <2>4, <2>5, Frames DEF serverVars, netVars, userVars
<1>4. CASE DispatchSubscribed
  <2> DEFINE id == reader.msg.id
             ws == reader.msg.ws
  <2>1. /\ reader.at = "dispatch" /\ ~WriterHoldsShared
        /\ ws \in DOMAIN issued /\ issued[ws].id = id
        /\ id \in DOMAIN asked
        /\ UNCHANGED <<curr_id, serverVars, netVars, userVars, writer>>
    BY <1>4 DEF DispatchSubscribed, MessagesMatch, ReceivedMatches, IssuedMatch
  <2>2. \/ /\ id \in DOMAIN callback_map
           /\ reader' = CallbackOf("on_subscribe", id, callback_map[id].acct)
           /\ callback_map' =
                [callback_map EXCEPT ![id] = ConfirmedRequest(@, ws)]
           /\ maps_wsid_to_id' = Mapped(ws, id)
        \/ /\ reader' = Reading
           /\ UNCHANGED <<callback_map, maps_wsid_to_id>>
    BY <1>4 DEF DispatchSubscribed
  <2>3. /\ DOMAIN callback_map' = DOMAIN callback_map
        /\ \A i \in DOMAIN callback_map :
             callback_map'[i].acct = callback_map[i].acct
    <3>1. callback_map \in [DOMAIN callback_map -> RequestContent]
      BY DEF TypeOK
    <3>2. \A r \in RequestContent : ConfirmedRequest(r, ws).acct = r.acct
      BY DEF ConfirmedRequest, RequestContent
    <3> QED BY <2>2, <3>1, <3>2
  <2>4. IdsAreFresh' /\ RemovalsAreKnown' /\ EntriesMatch'
    BY <2>1, <2>3
       DEF IdsAreFresh, RemovalsAreKnown, EntriesMatch, WriterHoldsShared, userVars
  <2>5. MappingsMatch'
    BY <2>1, <2>2 DEF MappingsMatch, Mapped, Put, serverVars
  <2>6. MessagesMatch' /\ CallbackMatchesData'
    BY <2>1, <2>2 DEF MessagesMatch, CallbackMatchesData, CallbackOf, Reading,
       EntriesMatch, serverVars, netVars, userVars
  <2> QED BY <2>1, <2>4, <2>5, <2>6, Frames DEF serverVars, netVars, userVars
<1>5. CASE DispatchError
  <2>1. MessagesMatch' /\ CallbackMatchesData'
    BY <1>5 DEF DispatchError, Reading, MessagesMatch,
       CallbackMatchesData, serverVars, netVars, userVars
  <2> QED BY <1>5, <2>1, Frames
          DEF DispatchError, clientVars, serverVars, netVars, userVars
<1>6. CASE DispatchNotification
  <2>1. MessagesMatch' /\ CallbackMatchesData'
    BY <1>6 DEF DispatchNotification, MessagesMatch,
       CallbackMatchesData, serverVars, netVars, userVars
  <2> QED BY <1>6, <2>1, Frames
          DEF DispatchNotification, clientVars, serverVars, netVars, userVars
<1>7. CASE GetCallback
  <2>1. PICK id \in RequestOf(reader.msg.ws) :
          reader' = CallbackOf("cb", id, reader.msg.acct)
    BY <1>7 DEF GetCallback
  <2>2. /\ UNCHANGED <<clientVars, serverVars, netVars, userVars, writer>>
        /\ reader.at = "get_callback_locked"
        /\ reader.msg.kind = "notification"
    BY <1>7, ThreadTypes DEF GetCallback, ReaderHoldsShared, Notifications
  <2>3. /\ id \in DOMAIN callback_map
        /\ issued[reader.msg.ws].id = id
        /\ issued[reader.msg.ws].acct = reader.msg.acct
        /\ reader.msg.ws \in DOMAIN issued
    BY <2>2 DEF RequestOf, MappingsMatch, MessagesMatch, ReceivedMatches
  <2>4. id \in DOMAIN asked /\ callback_map[id].acct = asked[id]
        /\ asked[id] = reader.msg.acct
    BY <2>3 DEF IssuedMatch, EntriesMatch
  <2>5. MessagesMatch' /\ CallbackMatchesData'
    BY <2>1, <2>2, <2>4 DEF MessagesMatch, CallbackMatchesData, CallbackOf,
       serverVars, netVars, userVars
  <2> QED BY <2>2, <2>5, Frames DEF clientVars, serverVars, netVars, userVars
<1>8. CASE GetCallbackNone
  <2>1. MessagesMatch' /\ CallbackMatchesData'
    BY <1>8 DEF GetCallbackNone, Reading, MessagesMatch,
       CallbackMatchesData, serverVars, netVars, userVars
  <2> QED BY <1>8, <2>1, Frames
          DEF GetCallbackNone, clientVars, serverVars, netVars, userVars
<1>9. CASE RunCallback
  <2>1. MessagesMatch' /\ CallbackMatchesData'
    BY <1>9 DEF RunCallback, Reading, MessagesMatch,
       CallbackMatchesData, serverVars, netVars
  <2> QED BY <1>9, <2>1, Frames DEF RunCallback, clientVars, serverVars, netVars
<1> QED BY <1>1, <1>2, <1>3, <1>4, <1>5, <1>6, <1>7, <1>8, <1>9 DEF ReaderStep

\* the steps of the server keep the pairings
LEMMA ServerStepPairings ==
  ASSUME Inv, ServerStep
  PROVE  PairingsMatch' /\ CallbackMatchesData'
<1> USE DEF Inv, PairingsMatch
<1>1. /\ to_server \in Seq(ToServer) /\ to_client \in Seq(ToClient)
      /\ to_server # <<>> /\ to_server' = Tail(to_server)
      /\ UNCHANGED <<clientVars, asked, writer, reader>>
  BY DEF TypeOK, ServerStep, ServerAccepts, ServerRefuses, ServerUnsubscribes,
     userVars
<1>2. /\ Head(to_server) \in ToServer
      /\ SentMatches(Head(to_server), asked)
      /\ \A k \in 1 .. Len(to_server') : SentMatches(to_server'[k], asked)
  BY <1>1, TailFacts DEF MessagesMatch
<1>3. CASE ServerAccepts
  <2>1. Head(to_server).id \in Nat
    BY <1>2, MessageFields
  <2>2. PICK ws \in WsIds \ DOMAIN issued :
          /\ issued' = Put(issued, ws, [id |-> Head(to_server).id,
                                        acct |-> Head(to_server).acct])
          /\ to_client' =
               Append(to_client, SubscribedReply(Head(to_server).id, ws))
    BY <1>3 DEF ServerAccepts
  <2>3. /\ Grows(issued, issued') /\ Grows(asked, asked')
        /\ DOMAIN issued' = DOMAIN issued \cup {ws}
        /\ issued'[ws].id = Head(to_server).id
        /\ issued'[ws].acct = Head(to_server).acct
    BY <1>1, <2>2 DEF Grows, Put
  <2>4. /\ Head(to_server).id \in DOMAIN asked
        /\ asked[Head(to_server).id] = Head(to_server).acct
    BY <1>2, <1>3 DEF ServerAccepts, SentMatches
  <2>5. IssuedMatch'
    BY <1>1, <2>3, <2>4 DEF IssuedMatch, Grows
  <2>6. MappingsMatch'
    BY <1>1, <2>3 DEF MappingsMatch, Grows, clientVars
  <2>7. MessagesMatch'
    <3>1. /\ ReceivedMatches(SubscribedReply(Head(to_server).id, ws),
                             asked, issued')
          /\ SubscribedReply(Head(to_server).id, ws) \in ToClient
      BY <2>1, <2>3, MessageTypes DEF ReceivedMatches, SubscribedReply
    <3>2. \A k \in 1 .. Len(to_client) :
            ReceivedMatches(to_client[k], asked, issued')
      BY <1>1, <2>3, MatchesLast DEF MessagesMatch
    <3>3. \A k \in 1 .. Len(to_client') :
            ReceivedMatches(to_client'[k], asked, issued')
      BY <1>1, <2>2, <3>1, <3>2, AppendFacts
    <3>4. reader.at \in {"dispatch", "get_callback_locked"}
            => ReceivedMatches(reader.msg, asked, issued')
      BY <1>1, <2>3, MatchesLast DEF MessagesMatch
    <3> QED BY <1>1, <1>2, <3>3, <3>4 DEF MessagesMatch
  <2> QED BY <1>1, <2>5, <2>6, <2>7, Frames DEF clientVars
<1>4. ASSUME NEW msg \in ToClient, ReceivedMatches(msg, asked, issued),
             to_client' = Append(to_client, msg), UNCHANGED issued
      PROVE  PairingsMatch' /\ CallbackMatchesData'
  <2>1. \A k \in 1 .. Len(to_client') :
          ReceivedMatches(to_client'[k], asked, issued)
    BY <1>1, <1>4, AppendFacts DEF MessagesMatch
  <2>2. MessagesMatch'
    BY <1>1, <1>2, <1>4, <2>1 DEF MessagesMatch
  <2> QED BY <1>1, <1>4, <2>2, Frames DEF clientVars
<1>5. CASE ServerRefuses
  <2>1. ErrorReply(Head(to_server).id) \in ToClient
    BY <1>2, MessageFields, MessageTypes
  <2>2. ReceivedMatches(ErrorReply(Head(to_server).id), asked, issued)
    BY DEF ReceivedMatches, ErrorReply
  <2> QED BY <1>4, <1>5, <2>1, <2>2 DEF ServerRefuses, serverVars
<1>6. CASE ServerUnsubscribes
  <2>1. UnsubscribedReply(Head(to_server).id) \in ToClient
    BY <1>2, MessageFields, MessageTypes
  <2>2. ReceivedMatches(UnsubscribedReply(Head(to_server).id), asked, issued)
    BY <1>2, <1>6
       DEF ServerUnsubscribes, ReceivedMatches, SentMatches, UnsubscribedReply
  <2> QED BY <1>4, <1>6, <2>1, <2>2 DEF ServerUnsubscribes
<1> QED BY <1>3, <1>5, <1>6 DEF ServerStep

\* notifications and the end of the connection keep the pairings
LEMMA NetworkPairings ==
  ASSUME Inv, Cut \/ \E ws \in live : ServerNotifies(ws)
  PROVE  PairingsMatch' /\ CallbackMatchesData'
<1> USE DEF Inv, PairingsMatch
<1>1. CASE Cut
  <2>1. /\ to_server' = <<>>
        /\ UNCHANGED <<clientVars, serverVars, userVars, writer, reader>>
    BY <1>1 DEF Cut
  <2>2. \A k \in 1 .. Len(to_client') :
          ReceivedMatches(to_client'[k], asked, issued)
    BY <1>1, PrefixFacts DEF Cut, MessagesMatch, TypeOK
  <2>3. MessagesMatch'
    BY <2>1, <2>2 DEF MessagesMatch, serverVars, userVars
  <2> QED BY <2>1, <2>3, Frames DEF clientVars, serverVars, userVars
<1>2. ASSUME NEW ws \in live, ServerNotifies(ws)
      PROVE  PairingsMatch' /\ CallbackMatchesData'
  <2>1. /\ to_client \in Seq(ToClient)
        /\ to_client' = Append(to_client, Notification(ws, issued[ws].acct))
        /\ UNCHANGED <<clientVars, serverVars, to_server, userVars,
                       writer, reader>>
    BY <1>2 DEF ServerNotifies, TypeOK
  <2>2. /\ Notification(ws, issued[ws].acct) \in ToClient
        /\ ReceivedMatches(Notification(ws, issued[ws].acct), asked, issued)
    BY MessageTypes DEF TypeOK, ReceivedMatches, Notification
  <2>3. \A k \in 1 .. Len(to_client') :
          ReceivedMatches(to_client'[k], asked, issued)
    BY <2>1, <2>2, AppendFacts DEF MessagesMatch
  <2>4. MessagesMatch'
    BY <2>1, <2>3 DEF MessagesMatch, serverVars, userVars
  <2> QED BY <2>1, <2>4, Frames DEF clientVars, serverVars, userVars
<1> QED BY <1>1, <1>2

----------------------------------------------------------------------------
(* The theorems. *)

\* The invariant holds initially and every step keeps it.
LEMMA Inductive ==
  /\ Init => Inv
  /\ Inv /\ [Next]_vars => Inv'
<1>1. Init => Inv
  BY InitTypeOK, InitPairings DEF Inv
<1>2. ASSUME Inv, [Next]_vars PROVE Inv'
  <2>1. CASE UNCHANGED vars
    <3>1. TypeOK'
      BY <1>2, <2>1 DEF Inv, TypeOK, vars, clientVars, serverVars, netVars,
         userVars
    <3> QED BY <1>2, <2>1, <3>1, Frames
            DEF Inv, PairingsMatch, vars, clientVars, serverVars, netVars, userVars
  <2>2. CASE WriterStep
    BY <1>2, <2>2, WriterStepTypes, WriterStepPairings DEF Inv
  <2>3. CASE UserCall
    BY <1>2, <2>3, UserCallTypes, UserCallPairings DEF Inv
  <2>4. CASE ReaderStep
    BY <1>2, <2>4, ReaderStepTypes, ReaderStepPairings DEF Inv
  <2>5. CASE ServerStep
    BY <1>2, <2>5, ServerStepTypes, ServerStepPairings DEF Inv
  <2>6. CASE ConnectStep
    BY <1>2, <2>6, ConnectStepTypes, ConnectStepPairings DEF Inv
  <2>7. CASE Cut \/ \E ws \in live : ServerNotifies(ws)
    BY <1>2, <2>7, NetworkTypes, NetworkPairings DEF Inv
  <2> QED BY <1>2, <2>1, <2>2, <2>3, <2>4, <2>5, <2>6, <2>7
          DEF Next, Terminated
<1> QED BY <1>1, <1>2

\* Every variable of the session keeps its type: Session with any accounts,
\* server ids and bounds.
THEOREM TypeCorrect == Spec => []TypeOK
<1>1. Inv => TypeOK
  BY DEF Inv
<1> QED BY <1>1, Inductive, PTL DEF Spec

\* The maps, the messages under way and the locals of the threads pair request
\* ids, server ids and accounts as the user and the server did.
THEOREM PairingsCorrect == Spec => []PairingsMatch
<1>1. Inv => PairingsMatch
  BY DEF Inv
<1> QED BY <1>1, Inductive, PTL DEF Spec

\* No callback is ever run with the data of an account it was not registered
\* for, whatever the user, the server and the network do.
THEOREM CallbackCorrect == Spec => []CallbackMatchesData
<1>1. Inv => CallbackMatchesData
  BY DEF Inv
<1> QED BY <1>1, Inductive, PTL DEF Spec

----------------------------------------------------------------------------
(* What is called at most once, and what is not called any more. *)

\* the listener id has heard on_unsubscribe, or is about to
Gone(id) ==
  \/ id \in finished
  \/ Calling("on_unsubscribe") /\ reader.callback.id = id

\* Ids that onAccountChange has not returned yet cannot be removed, and the one
\* it is about to use was never removed.
RemovalsAreOld ==
  /\ writer.at \in {"unsubscribe_locked", "unsubscribe_write"}
       => writer.id < curr_id
  /\ \A k \in 1 .. Len(to_server) :
       to_server[k].kind = "unsubscribe" => to_server[k].id - 1 < curr_id
  /\ \A k \in 1 .. Len(to_client) :
       to_client[k].kind = "unsubscribed" => to_client[k].id - 1 < curr_id
  /\ reader.at = "dispatch" /\ reader.msg.kind = "unsubscribed"
       => reader.msg.id - 1 < curr_id

\* A listener that is gone has no entry and will not get one again.
GoneHaveNoEntry ==
  \A id \in Nat : Gone(id) => id \notin DOMAIN callback_map /\ id < curr_id

\* the confirmation of id was read
Heard(id) ==
  \/ id \in confirmed
  \/ reader.at = "dispatch" /\ reader.msg.kind = "subscribed" /\ reader.msg.id = id
  \/ Calling("on_subscribe") /\ reader.callback.id = id

\* A request for a subscription is written once and not answered yet while it
\* is on its way.
AskedOnce ==
  /\ \A j, k \in 1 .. Len(to_server) :
       to_server[j].kind = "subscribe" /\ to_server[k].kind = "subscribe"
         /\ to_server[j].id = to_server[k].id => j = k
  /\ \A k \in 1 .. Len(to_server) :
       to_server[k].kind = "subscribe" => ~Accepted(to_server[k].id)

\* A confirmation is sent once and not read yet while it is on its way.
ConfirmedOnce ==
  /\ \A j, k \in 1 .. Len(to_client) :
       to_client[j].kind = "subscribed" /\ to_client[k].kind = "subscribed"
         /\ to_client[j].id = to_client[k].id => j = k
  /\ \A k \in 1 .. Len(to_client) :
       to_client[k].kind = "subscribed" => ~Heard(to_client[k].id)
  /\ \A id \in Nat : Heard(id) => Accepted(id)
  /\ reader.at = "dispatch" /\ reader.msg.kind = "subscribed"
       => reader.msg.id \notin confirmed

OnceInv ==
  /\ RemovalsAreOld /\ GoneHaveNoEntry
  /\ AskedOnce /\ ConfirmedOnce
  /\ SilentAfterOnUnsubscribe /\ OnceEach

----------------------------------------------------------------------------
(* What a step leaves alone. *)

\* the invariant among things a step leaves alone
LEMMA OnceFrames ==
  ASSUME OnceInv
  PROVE  /\ UNCHANGED <<writer, to_server, to_client, reader, curr_id>>
              => RemovalsAreOld'
         /\ UNCHANGED <<finished, reader, curr_id, callback_map>>
              => GoneHaveNoEntry'
         /\ UNCHANGED <<to_server, issued>> => AskedOnce'
         /\ UNCHANGED <<to_client, confirmed, reader, issued>> => ConfirmedOnce'
         /\ UNCHANGED <<reader, finished, confirmed>>
              => SilentAfterOnUnsubscribe' /\ OnceEach'
BY DEF OnceInv, RemovalsAreOld, GoneHaveNoEntry, Gone, AskedOnce, ConfirmedOnce,
       Heard, Accepted, Calling, SilentAfterOnUnsubscribe, OnceEach

\* the session starts in the invariant
LEMMA InitOnce == Init => OnceInv
<1> SUFFICES ASSUME Init PROVE OnceInv
  OBVIOUS
<1>1. /\ finished = {} /\ confirmed = {} /\ to_server = <<>> /\ to_client = <<>>
      /\ reader.at = "connecting" /\ writer.at = "idle"
  BY DEF Init, Connecting, Idle
<1> QED BY <1>1 DEF OnceInv, RemovalsAreOld, GoneHaveNoEntry, Gone, AskedOnce,
       ConfirmedOnce, Heard, Calling, SilentAfterOnUnsubscribe, OnceEach

\* A step of the reader to a place without locals that matter, which may drop
\* what the client has written.
LEMMA QuietReader ==
  ASSUME OnceInv,
         UNCHANGED <<curr_id, callback_map, issued, to_client, userVars, writer>>,
         to_server' = to_server \/ to_server' = <<>>,
         reader'.at \notin {"dispatch", "calling"}
  PROVE  OnceInv'
<1> USE DEF OnceInv, userVars
<1>1. RemovalsAreOld'
  BY DEF RemovalsAreOld
<1>2. GoneHaveNoEntry'
  BY DEF GoneHaveNoEntry, Gone, Calling
<1>3. AskedOnce'
  BY DEF AskedOnce, Accepted
<1>4. ConfirmedOnce'
  BY DEF ConfirmedOnce, Heard, Accepted, Calling
<1>5. SilentAfterOnUnsubscribe' /\ OnceEach'
  BY DEF SilentAfterOnUnsubscribe, OnceEach, Calling
<1> QED BY <1>1, <1>2, <1>3, <1>4, <1>5

----------------------------------------------------------------------------
(* The steps. *)

\* the steps of the writer keep the invariant
LEMMA WriterStepOnce ==
  ASSUME Inv, OnceInv, WriterStep
  PROVE  OnceInv'
<1> USE DEF clientVars, serverVars, netVars, userVars
<1>1. CASE SubscribeWrite
  <2> DEFINE msg == SubscriptionRequest(writer.id, writer.acct)
  <2>1. /\ UNCHANGED <<curr_id, callback_map, issued, to_client, reader,
                       confirmed, finished>>
        /\ to_server' = Append(to_server, msg) \/ to_server' = to_server
        /\ writer'.at = "subscribe_return"
    BY <1>1 DEF SubscribeWrite, Written
  <2>2. /\ msg \in ToServer /\ to_server \in Seq(ToServer)
        /\ msg.kind = "subscribe" /\ msg.id = curr_id
    <3>1. writer.id \in Nat /\ writer.acct \in Accounts /\ writer.id = curr_id
      BY <1>1, ThreadTypes DEF SubscribeWrite, Inv, PairingsMatch, IdsAreFresh
    <3> QED BY <3>1, MessageTypes DEF Inv, TypeOK, SubscriptionRequest
  <2>3. curr_id \notin DOMAIN asked
    BY <1>1 DEF SubscribeWrite, Inv, PairingsMatch, IdsAreFresh, TypeOK
  <2>4. \A k \in 1 .. Len(to_server) :
          to_server[k].kind = "subscribe" => to_server[k].id # msg.id
    BY <2>2, <2>3 DEF Inv, PairingsMatch, MessagesMatch, SentMatches
  <2>5. ~Accepted(msg.id)
    BY <2>2, <2>3 DEF Accepted, Inv, PairingsMatch, IssuedMatch
  <2> HIDE DEF msg
  <2>6. RemovalsAreOld'
    BY <2>1, <2>2 DEF OnceInv, RemovalsAreOld
  <2>7. AskedOnce'
    <3>1. CASE to_server' = to_server
      BY <2>1, <3>1, OnceFrames
    <3>2. CASE to_server' = Append(to_server, msg)
      <4>1. \A k \in 1 .. Len(to_server') :
              \/ k \in 1 .. Len(to_server) /\ to_server'[k] = to_server[k]
              \/ k = Len(to_server) + 1 /\ to_server'[k] = msg
        BY <2>2, <3>2
      <4> QED BY <2>1, <2>2, <2>4, <2>5, <4>1 DEF OnceInv, AskedOnce, Accepted
    <3> QED BY <2>1, <3>1, <3>2
  <2> QED BY <2>1, <2>6, <2>7, OnceFrames DEF OnceInv
<1>2. CASE SubscribeWriteThrows \/ SubscribeReturn \/ UnsubscribeWriteThrows
  <2>1. /\ UNCHANGED <<callback_map, issued, to_server, to_client, reader,
                       confirmed, finished>>
        /\ writer'.at = "idle"
        /\ curr_id' = curr_id \/ curr_id' = curr_id + 2
    BY <1>2 DEF SubscribeWriteThrows, SubscribeReturn, UnsubscribeWriteThrows,
       NextRequestId, Idle
  <2>2. curr_id \in Nat /\ reader \in ReaderState
        /\ to_server \in Seq(ToServer) /\ to_client \in Seq(ToClient)
    BY DEF Inv, TypeOK
  <2>3. RemovalsAreOld'
    <3>1. \A k \in 1 .. Len(to_server) : to_server[k].id \in Nat
      BY <2>2, MessageFields
    <3>2. \A k \in 1 .. Len(to_client) :
            to_client[k].kind = "unsubscribed" => to_client[k].id \in Nat
      BY <2>2, MessageFields
    <3>3. reader.at = "dispatch" /\ reader.msg.kind = "unsubscribed"
            => reader.msg.id \in Nat
      BY MessageFields, ThreadTypes DEF Inv
    <3> QED BY <2>1, <2>2, <3>1, <3>2, <3>3 DEF OnceInv, RemovalsAreOld
  <2>4. GoneHaveNoEntry'
    BY <2>1, <2>2 DEF OnceInv, GoneHaveNoEntry, Gone, Calling
  <2> QED BY <2>1, <2>3, <2>4, OnceFrames DEF OnceInv
<1>3. CASE UnsubscribeErase
  <2>1. /\ UNCHANGED <<curr_id, callback_map, issued, to_server, to_client,
                       reader, confirmed, finished>>
        /\ writer.at = "unsubscribe_locked" /\ writer'.id = writer.id
    BY <1>3 DEF UnsubscribeErase, WriterHoldsShared
  <2>2. RemovalsAreOld'
    BY <2>1 DEF OnceInv, RemovalsAreOld
  <2> QED BY <2>1, <2>2, OnceFrames DEF OnceInv
<1>4. CASE UnsubscribeWrite
  <2> DEFINE msg == UnsubscriptionRequest(writer.id, writer.ws)
  <2>1. /\ UNCHANGED <<curr_id, callback_map, issued, to_client, reader,
                       confirmed, finished>>
        /\ to_server' = Append(to_server, msg) \/ to_server' = to_server
        /\ writer.at = "unsubscribe_write" /\ writer'.at = "idle"
    BY <1>4 DEF UnsubscribeWrite, Written, Idle
  <2>2. /\ msg \in ToServer /\ to_server \in Seq(ToServer)
        /\ msg.kind = "unsubscribe" /\ msg.id - 1 < curr_id
    <3>1. writer.id \in Nat /\ writer.ws \in WsIds \cup {NoWsId}
          /\ writer.id < curr_id
      BY <2>1, ThreadTypes DEF Inv, OnceInv, RemovalsAreOld
    <3> QED BY <3>1, MessageTypes DEF Inv, TypeOK, UnsubscriptionRequest
  <2> HIDE DEF msg
  <2>3. \A k \in 1 .. Len(to_server') :
          \/ k \in 1 .. Len(to_server) /\ to_server'[k] = to_server[k]
          \/ to_server'[k] = msg
    BY <2>1, <2>2
  <2>4. RemovalsAreOld'
    BY <2>1, <2>2, <2>3 DEF OnceInv, RemovalsAreOld
  <2>5. AskedOnce'
    BY <2>1, <2>2, <2>3 DEF OnceInv, AskedOnce, Accepted
  <2> QED BY <2>1, <2>4, <2>5, OnceFrames DEF OnceInv
<1> QED BY <1>1, <1>2, <1>3, <1>4 DEF WriterStep

\* the calls of the user keep the invariant
LEMMA UserCallOnce ==
  ASSUME Inv, OnceInv, UserCall
  PROVE  OnceInv'
<1> USE DEF clientVars, serverVars, netVars, userVars
<1> DEFINE Kept ==
      /\ UNCHANGED <<curr_id, issued, to_server, to_client, reader,
                     confirmed, finished>>
      /\ writer'.at \in {"unsubscribe_locked", "unsubscribe_write"}
           => writer'.id < curr_id
<1>1. Kept
  <2>1. ASSUME NEW acct \in Accounts, Subscribe(acct) PROVE Kept
    BY <2>1 DEF Subscribe
  <2>2. ASSUME NEW id \in Returned, Unsubscribe(id) PROVE Kept
    BY <2>2 DEF Unsubscribe, Returned
  <2>3. ASSUME NEW id \in Returned, UnsubscribeUnknown(id) PROVE Kept
    BY <2>3 DEF UnsubscribeUnknown, Idle
  <2>4. CASE Disconnect
    BY <2>4 DEF Disconnect, Disconnected
  <2> QED BY <2>1, <2>2, <2>3, <2>4 DEF UserCall
<1>2. DOMAIN callback_map' \subseteq DOMAIN callback_map \cup {curr_id}
  BY DEF UserCall, Subscribe, Put, Unsubscribe, UnsubscribeUnknown, Disconnect
<1>3. RemovalsAreOld'
  BY <1>1 DEF OnceInv, RemovalsAreOld
<1>4. GoneHaveNoEntry'
  <2>1. curr_id \in Nat
    BY DEF Inv, TypeOK
  <2> QED BY <1>1, <1>2, <2>1 DEF OnceInv, GoneHaveNoEntry, Gone, Calling
<1> QED BY <1>1, <1>3, <1>4, OnceFrames DEF OnceInv

\* the way to the first read keeps the invariant
LEMMA ConnectStepOnce ==
  ASSUME OnceInv, ConnectStep
  PROVE  OnceInv'
BY QuietReader
   DEF ConnectStep, HandshakeSucceeds, OnHandshake, ConnectFails, Handshaken,
       Reading, Stopped, clientVars, serverVars, netVars, userVars

\* the completion of a read keeps the invariant
LEMMA ReadMessageOnce ==
  ASSUME Inv, OnceInv, ReadMessage
  PROVE  OnceInv'
<1> USE DEF clientVars, serverVars, userVars
<1> DEFINE msg == Head(to_client)
<1>1. /\ to_client \in Seq(ToClient) /\ to_client # <<>>
      /\ to_client' = Tail(to_client)
      /\ UNCHANGED <<curr_id, callback_map, issued, to_server, confirmed,
                     finished, writer>>
      /\ \/ reader' = [at |-> "dispatch", msg |-> msg]
         \/ reader' = Stopped
  BY DEF ReadMessage, Inv, TypeOK
<1>2. /\ msg \in ToClient /\ 1 \in 1 .. Len(to_client) /\ msg = to_client[1]
      /\ \A k \in 1 .. Len(to_client') :
           /\ k + 1 \in 1 .. Len(to_client) /\ k + 1 # 1
           /\ to_client'[k] = to_client[k + 1]
  BY <1>1, TailFacts
<1> HIDE DEF msg
<1>3. reader'.at # "calling" /\ (reader'.at = "dispatch" => reader'.msg = msg)
  BY <1>1 DEF Stopped
<1>4. reader.at = "reading"
  BY DEF ReadMessage, Reading
<1>5. RemovalsAreOld'
  BY <1>1, <1>2, <1>3 DEF OnceInv, RemovalsAreOld
<1>6. GoneHaveNoEntry'
  BY <1>1, <1>3 DEF OnceInv, GoneHaveNoEntry, Gone, Calling
<1>7. ConfirmedOnce'
  <2>1. \A j, k \in 1 .. Len(to_client') :
          to_client'[j].kind = "subscribed" /\ to_client'[k].kind = "subscribed"
            /\ to_client'[j].id = to_client'[k].id
            => j = k
    <3> TAKE j, k \in 1 .. Len(to_client')
    <3>1. j \in Int /\ k \in Int /\ (j + 1 = k + 1 => j = k)
      OBVIOUS
    <3> QED BY <1>2, <3>1 DEF OnceInv, ConfirmedOnce
  <2>2. \A id : Heard(id)' => Heard(id) \/ (msg.kind = "subscribed" /\ msg.id = id)
    BY <1>1, <1>3 DEF Heard, Calling
  <2>3. ASSUME NEW k \in 1 .. Len(to_client'), NEW id,
               to_client'[k].kind = "subscribed", to_client'[k].id = id, Heard(id)'
        PROVE  FALSE
    <3>1. ~Heard(id)
      BY <1>2, <2>3 DEF OnceInv, ConfirmedOnce
    <3>2. msg.kind = "subscribed" /\ msg.id = id
      BY <2>2, <2>3, <3>1
    <3> QED BY <1>2, <2>3, <3>2 DEF OnceInv, ConfirmedOnce
  <2>4. msg.kind = "subscribed" => Accepted(msg.id)
    BY <1>2 DEF Inv, PairingsMatch, MessagesMatch, ReceivedMatches, Accepted
  <2>5. \A id \in Nat : Heard(id)' => Accepted(id)'
    BY <1>1, <2>2, <2>4 DEF OnceInv, ConfirmedOnce, Accepted
  <2>6. msg.kind = "subscribed" => msg.id \notin confirmed
    BY <1>2 DEF OnceInv, ConfirmedOnce, Heard
  <2> QED BY <1>1, <1>3, <2>1, <2>3, <2>5, <2>6 DEF ConfirmedOnce
<1>8. SilentAfterOnUnsubscribe' /\ OnceEach'
  BY <1>3 DEF SilentAfterOnUnsubscribe, OnceEach, Calling
<1> QED BY <1>1, <1>5, <1>6, <1>7, <1>8, OnceFrames DEF OnceInv

\* the answer to an unsubscription keeps the invariant
LEMMA DispatchUnsubscribedOnce ==
  ASSUME Inv, OnceInv, DispatchUnsubscribed
  PROVE  OnceInv'
<1> USE DEF serverVars, netVars, userVars
<1> DEFINE id == reader.msg.id - 1
<1>1. /\ reader.at = "dispatch" /\ reader.msg.kind = "unsubscribed"
      /\ UNCHANGED <<curr_id, issued, to_server, to_client, confirmed, asked,
                     unsubscribed, finished, writer>>
  BY DEF DispatchUnsubscribed
<1>2. CASE id \notin DOMAIN callback_map
  BY <1>1, <1>2, QuietReader DEF DispatchUnsubscribed, Reading
<1>3. CASE id \in DOMAIN callback_map
  <2>1. /\ callback_map' = RequestErased(id)
        /\ reader'.at = "calling" /\ reader'.callback.event = "on_unsubscribe"
        /\ reader'.callback.id = id
    BY <1>3 DEF DispatchUnsubscribed, CallbackOf
  <2>2. DOMAIN callback_map' = DOMAIN callback_map \ {id}
    BY <2>1 DEF RequestErased, Restrict
  <2>3. id \in Nat /\ id < curr_id
    BY <1>1, <1>3 DEF OnceInv, RemovalsAreOld, Inv, TypeOK
  <2>4. id \notin finished
    BY <1>3, <2>3 DEF OnceInv, GoneHaveNoEntry, Gone
  <2> HIDE DEF id
  <2>5. RemovalsAreOld'
    BY <1>1, <2>1 DEF OnceInv, RemovalsAreOld
  <2>6. GoneHaveNoEntry'
    BY <1>1, <2>1, <2>2, <2>3 DEF OnceInv, GoneHaveNoEntry, Gone, Calling
  <2>7. ConfirmedOnce'
    BY <1>1, <2>1 DEF OnceInv, ConfirmedOnce, Heard, Accepted, Calling
  <2>8. SilentAfterOnUnsubscribe' /\ OnceEach'
    BY <1>1, <2>1, <2>4 DEF SilentAfterOnUnsubscribe, OnceEach, Calling
  <2> QED BY <1>1, <2>5, <2>6, <2>7, <2>8, OnceFrames DEF OnceInv
<1> QED BY <1>2, <1>3

\* the confirmation of a subscription keeps the invariant
LEMMA DispatchSubscribedOnce ==
  ASSUME Inv, OnceInv, DispatchSubscribed
  PROVE  OnceInv'
<1> USE DEF serverVars, netVars, userVars
<1> DEFINE id == reader.msg.id
<1>1. /\ reader.at = "dispatch" /\ reader.msg.kind = "subscribed"
      /\ UNCHANGED <<curr_id, issued, to_server, to_client, confirmed, asked,
                     unsubscribed, finished, writer>>
  BY DEF DispatchSubscribed
<1>2. CASE id \notin DOMAIN callback_map
  BY <1>1, <1>2, QuietReader DEF DispatchSubscribed, Reading
<1>3. CASE id \in DOMAIN callback_map
  <2>1. /\ DOMAIN callback_map' = DOMAIN callback_map
        /\ reader'.at = "calling" /\ reader'.callback.event = "on_subscribe"
        /\ reader'.callback.id = id
    BY <1>3 DEF DispatchSubscribed, CallbackOf
  <2>2. id \notin confirmed
    BY <1>1 DEF OnceInv, ConfirmedOnce
  <2>3. RemovalsAreOld'
    BY <1>1, <2>1 DEF OnceInv, RemovalsAreOld
  <2>4. GoneHaveNoEntry'
    BY <1>1, <2>1 DEF OnceInv, GoneHaveNoEntry, Gone, Calling
  <2>5. ConfirmedOnce'
    <3>1. \A i : Heard(i)' <=> Heard(i)
      BY <1>1, <2>1 DEF Heard, Calling
    <3> QED BY <1>1, <2>1, <3>1 DEF OnceInv, ConfirmedOnce, Accepted
  <2>6. SilentAfterOnUnsubscribe' /\ OnceEach'
    BY <1>1, <2>1, <2>2 DEF SilentAfterOnUnsubscribe, OnceEach, Calling
  <2> QED BY <1>1, <2>3, <2>4, <2>5, <2>6, OnceFrames DEF OnceInv
<1> QED BY <1>2, <1>3

\* looking a callback up keeps the invariant
LEMMA GetCallbackOnce ==
  ASSUME Inv, OnceInv, GetCallback
  PROVE  OnceInv'
<1> USE DEF clientVars, serverVars, netVars, userVars
<1>1. PICK id \in RequestOf(reader.msg.ws) :
        reader' = CallbackOf("cb", id, reader.msg.acct)
  BY DEF GetCallback
<1>2. /\ UNCHANGED <<curr_id, callback_map, issued, to_server, to_client,
                     confirmed, finished, writer>>
      /\ reader.at = "get_callback_locked"
      /\ reader'.at = "calling" /\ reader'.callback.event = "cb"
      /\ reader'.callback.id = id
  BY <1>1 DEF GetCallback, ReaderHoldsShared, CallbackOf
<1>3. id \notin finished
  BY DEF RequestOf, OnceInv, GoneHaveNoEntry, Gone, Inv, TypeOK
<1>4. RemovalsAreOld'
  BY <1>2 DEF OnceInv, RemovalsAreOld
<1>5. GoneHaveNoEntry'
  BY <1>2 DEF OnceInv, GoneHaveNoEntry, Gone, Calling
<1>6. ConfirmedOnce'
  BY <1>2 DEF OnceInv, ConfirmedOnce, Heard, Accepted, Calling
<1>7. SilentAfterOnUnsubscribe' /\ OnceEach'
  BY <1>2, <1>3 DEF SilentAfterOnUnsubscribe, OnceEach, Calling
<1> QED BY <1>2, <1>4, <1>5, <1>6, <1>7, OnceFrames DEF OnceInv

\* the run of a callback keeps the invariant
LEMMA RunCallbackOnce ==
  ASSUME Inv, OnceInv, RunCallback
  PROVE  OnceInv'
<1> USE DEF clientVars, serverVars, netVars
<1>1. /\ UNCHANGED <<curr_id, callback_map, issued, to_server, to_client, writer>>
      /\ reader.at = "calling" /\ reader'.at = "reading"
      /\ \A id : id \in confirmed' <=> id \in confirmed
               \/ (Calling("on_subscribe") /\ reader.callback.id = id)
      /\ \A id : id \in finished' <=> id \in finished
               \/ (Calling("on_unsubscribe") /\ reader.callback.id = id)
  BY DEF RunCallback, Reading, Calling
<1>2. RemovalsAreOld'
  BY <1>1 DEF OnceInv, RemovalsAreOld
<1>3. GoneHaveNoEntry'
  <2>1. \A id : Gone(id)' <=> Gone(id)
    BY <1>1 DEF Gone, Calling
  <2> QED BY <1>1, <2>1 DEF OnceInv, GoneHaveNoEntry
<1>4. ConfirmedOnce'
  <2>1. \A id : Heard(id)' <=> Heard(id)
    BY <1>1 DEF Heard, Calling
  <2> QED BY <1>1, <2>1 DEF OnceInv, ConfirmedOnce, Accepted
<1>5. SilentAfterOnUnsubscribe' /\ OnceEach'
  BY <1>1 DEF SilentAfterOnUnsubscribe, OnceEach, Calling
<1> QED BY <1>1, <1>2, <1>3, <1>4, <1>5, OnceFrames DEF OnceInv

\* the steps of the reader keep the invariant
LEMMA ReaderStepOnce ==
  ASSUME Inv, OnceInv, ReaderStep
  PROVE  OnceInv'
<1>1. CASE ReadFails \/ DispatchError \/ DispatchNotification \/ GetCallbackNone
  BY <1>1, QuietReader
     DEF ReadFails, DispatchError, DispatchNotification, GetCallbackNone,
         Reading, Stopped, clientVars, serverVars, netVars, userVars
<1> QED BY <1>1, ReadMessageOnce, DispatchUnsubscribedOnce, DispatchSubscribedOnce,
           GetCallbackOnce, RunCallbackOnce DEF ReaderStep

\* A message of the server that is neither the confirmation of a subscription
\* already confirmed nor the answer to a removal not asked for.
LEMMA SentOnce ==
  ASSUME OnceInv, NEW msg \in ToClient, to_client \in Seq(ToClient),
         UNCHANGED <<curr_id, callback_map, confirmed, finished, writer, reader>>,
         to_client' = Append(to_client, msg),
         RemovalsAreOld => \A k \in 1 .. Len(to_server') :
           to_server'[k].kind = "unsubscribe" => to_server'[k].id - 1 < curr_id,
         AskedOnce',
         \A id : Accepted(id) => Accepted(id)',
         msg.kind = "unsubscribed" => msg.id - 1 < curr_id,
         msg.kind = "subscribed" => msg.id \in Nat /\ ~Accepted(msg.id),
         \A k \in 1 .. Len(to_client) :
           to_client[k].kind = "subscribed" => Accepted(to_client[k].id)
  PROVE  OnceInv'
<1> USE DEF OnceInv
<1>1. \A k \in 1 .. Len(to_client') :
        \/ k \in 1 .. Len(to_client) /\ to_client'[k] = to_client[k]
        \/ k = Len(to_client) + 1 /\ to_client'[k] = msg
  OBVIOUS
<1>2. RemovalsAreOld'
  BY <1>1 DEF RemovalsAreOld
<1>3. ConfirmedOnce'
  <2>1. \A j, k \in 1 .. Len(to_client') :
          to_client'[j].kind = "subscribed" /\ to_client'[k].kind = "subscribed"
            /\ to_client'[j].id = to_client'[k].id
            => j = k
    BY <1>1 DEF ConfirmedOnce
  <2>2. \A id : Heard(id)' <=> Heard(id)
    BY DEF Heard, Calling
  <2>3. msg.kind = "subscribed" => ~Heard(msg.id)
    BY DEF ConfirmedOnce
  <2> QED BY <1>1, <2>1, <2>2, <2>3 DEF ConfirmedOnce
<1> QED BY <1>2, <1>3, OnceFrames

\* the steps of the server keep the invariant
LEMMA ServerStepOnce ==
  ASSUME Inv, OnceInv, ServerStep
  PROVE  OnceInv'
<1> USE DEF clientVars, serverVars, userVars
<1> DEFINE req == Head(to_server)
<1>1. /\ to_server \in Seq(ToServer) /\ to_client \in Seq(ToClient)
      /\ to_server # <<>> /\ to_server' = Tail(to_server)
      /\ UNCHANGED <<curr_id, callback_map, confirmed, finished, writer, reader>>
  BY DEF Inv, TypeOK, ServerStep, ServerAccepts, ServerRefuses, ServerUnsubscribes
<1>2. /\ req \in ToServer /\ 1 \in 1 .. Len(to_server) /\ req = to_server[1]
      /\ \A k \in 1 .. Len(to_server') :
           /\ k + 1 \in 1 .. Len(to_server) /\ k \in Int
           /\ to_server'[k] = to_server[k + 1]
  BY <1>1, TailFacts
<1>3. \A k \in 1 .. Len(to_client) :
        to_client[k].kind = "subscribed" => Accepted(to_client[k].id)
  BY DEF Inv, PairingsMatch, MessagesMatch, ReceivedMatches, Accepted
<1>4. RemovalsAreOld => \A k \in 1 .. Len(to_server') :
        to_server'[k].kind = "unsubscribe" => to_server'[k].id - 1 < curr_id
  BY <1>2 DEF RemovalsAreOld
<1>5. \A j, k \in 1 .. Len(to_server') :
        to_server'[j].kind = "subscribe" /\ to_server'[k].kind = "subscribe"
          /\ to_server'[j].id = to_server'[k].id
          => j = k
  <2> TAKE j, k \in 1 .. Len(to_server')
  <2>1. j + 1 = k + 1 => j = k
    BY <1>2
  <2> QED BY <1>2, <2>1 DEF OnceInv, AskedOnce
<1> HIDE DEF req
<1>6. CASE ServerAccepts
  <2>1. PICK ws \in WsIds \ DOMAIN issued :
          /\ issued' = Put(issued, ws, [id |-> req.id, acct |-> req.acct])
          /\ to_client' = Append(to_client, SubscribedReply(req.id, ws))
          /\ req.kind = "subscribe"
    BY <1>6 DEF ServerAccepts, req
  <2>2. req.id \in Nat /\ ~Accepted(req.id)
    BY <1>2, <2>1, MessageFields DEF OnceInv, AskedOnce
  <2>3. \A id : Accepted(id)' <=> Accepted(id) \/ id = req.id
    <3>1. /\ DOMAIN issued' = DOMAIN issued \cup {ws}
          /\ issued'[ws].id = req.id
          /\ \A x \in DOMAIN issued : issued'[x] = issued[x]
      BY <2>1 DEF Put
    <3>2. ASSUME NEW id, Accepted(id) PROVE Accepted(id)'
      BY <3>1, <3>2 DEF Accepted
    <3>3. ASSUME NEW id, id = req.id PROVE Accepted(id)'
      BY <3>1, <3>3 DEF Accepted
    <3>4. ASSUME NEW id, Accepted(id)', id # req.id PROVE Accepted(id)
      BY <3>1, <3>4 DEF Accepted
    <3> QED BY <3>2, <3>3, <3>4
  <2>4. AskedOnce'
    <3>1. ASSUME NEW k \in 1 .. Len(to_server'), NEW id,
                 to_server'[k].kind = "subscribe", to_server'[k].id = id
          PROVE  ~Accepted(id)'
      <4>1. ~Accepted(id)
        BY <1>2, <3>1 DEF OnceInv, AskedOnce
      <4>2. id # req.id
        <5>1. k + 1 # 1 /\ k + 1 \in 1 .. Len(to_server) /\ to_server[k + 1].id = id
              /\ to_server[k + 1].kind = "subscribe"
          BY <1>2, <3>1
        <5> QED BY <1>2, <2>1, <5>1 DEF OnceInv, AskedOnce
      <4> QED BY <2>3, <4>1, <4>2
    <3> QED BY <1>5, <3>1 DEF AskedOnce
  <2>5. /\ SubscribedReply(req.id, ws) \in ToClient
        /\ SubscribedReply(req.id, ws).kind = "subscribed"
        /\ SubscribedReply(req.id, ws).id = req.id
    BY <2>2, MessageTypes DEF SubscribedReply
  <2> QED BY <1>1, <1>3, <1>4, <2>1, <2>2, <2>3, <2>4, <2>5, SentOnce
<1>7. ASSUME NEW msg \in ToClient, to_client' = Append(to_client, msg),
             UNCHANGED issued, msg.kind # "subscribed",
             msg.kind = "unsubscribed" => msg.id - 1 < curr_id
      PROVE  OnceInv'
  <2>1. \A id : Accepted(id)' <=> Accepted(id)
    BY <1>7 DEF Accepted
  <2>2. AskedOnce'
    BY <1>2, <1>5, <2>1 DEF OnceInv, AskedOnce
  <2> QED BY <1>1, <1>3, <1>4, <1>7, <2>1, <2>2, SentOnce
<1>8. CASE ServerRefuses
  <2>1. ErrorReply(req.id) \in ToClient /\ ErrorReply(req.id).kind = "error"
    BY <1>2, MessageFields, MessageTypes DEF ErrorReply
  <2> QED BY <1>7, <1>8, <2>1 DEF ServerRefuses, req
<1>9. CASE ServerUnsubscribes
  <2>1. /\ UnsubscribedReply(req.id) \in ToClient
        /\ UnsubscribedReply(req.id).kind = "unsubscribed"
        /\ UnsubscribedReply(req.id).id = req.id
    BY <1>2, MessageFields, MessageTypes DEF UnsubscribedReply
  <2>2. req.id - 1 < curr_id
    BY <1>2, <1>9 DEF ServerUnsubscribes, OnceInv, RemovalsAreOld, req
  <2> QED BY <1>7, <1>9, <2>1, <2>2 DEF ServerUnsubscribes, req
<1> QED BY <1>6, <1>8, <1>9 DEF ServerStep

\* notifications and the end of the connection keep the invariant
LEMMA NetworkOnce ==
  ASSUME Inv, OnceInv, Cut \/ \E ws \in live : ServerNotifies(ws)
  PROVE  OnceInv'
<1> USE DEF clientVars, serverVars, userVars
<1>1. CASE Cut
  <2>1. /\ to_server' = <<>>
        /\ UNCHANGED <<curr_id, callback_map, issued, confirmed, finished,
                       writer, reader>>
    BY <1>1 DEF Cut
  <2>2. \A k \in 1 .. Len(to_client') :
          k \in 1 .. Len(to_client) /\ to_client'[k] = to_client[k]
    BY <1>1, PrefixFacts DEF Cut, Inv, TypeOK
  <2>3. RemovalsAreOld'
    BY <2>1, <2>2 DEF OnceInv, RemovalsAreOld
  <2>4. AskedOnce'
    BY <2>1 DEF AskedOnce
  <2>5. ConfirmedOnce'
    BY <2>1, <2>2 DEF OnceInv, ConfirmedOnce, Heard, Accepted, Calling
  <2> QED BY <2>1, <2>3, <2>4, <2>5, OnceFrames DEF OnceInv
<1>2. ASSUME NEW ws \in live, ServerNotifies(ws) PROVE OnceInv'
  <2> DEFINE msg == Notification(ws, issued[ws].acct)
  <2>1. /\ to_client' = Append(to_client, msg)
        /\ UNCHANGED <<curr_id, callback_map, issued, to_server, confirmed,
                       finished, writer, reader>>
    BY <1>2 DEF ServerNotifies
  <2>2. msg \in ToClient /\ msg.kind = "notification" /\ to_client \in Seq(ToClient)
    BY MessageTypes DEF Inv, TypeOK, Notification
  <2> HIDE DEF msg
  <2>3. \A k \in 1 .. Len(to_client) :
          to_client[k].kind = "subscribed" => Accepted(to_client[k].id)
    BY DEF Inv, PairingsMatch, MessagesMatch, ReceivedMatches, Accepted
  <2>4. AskedOnce' /\ (\A id : Accepted(id) => Accepted(id)')
    BY <2>1, OnceFrames DEF Accepted
  <2>5. RemovalsAreOld => \A k \in 1 .. Len(to_server') :
          to_server'[k].kind = "unsubscribe" => to_server'[k].id - 1 < curr_id
    BY <2>1 DEF RemovalsAreOld
  <2> QED BY <2>1, <2>2, <2>3, <2>4, <2>5, SentOnce
<1> QED BY <1>1, <1>2

----------------------------------------------------------------------------
(* The theorems. *)

\* the invariant is inductive, next to the first one
LEMMA OnceInductive == Inv /\ OnceInv /\ [Next]_vars => OnceInv'
<1> SUFFICES ASSUME Inv, OnceInv, [Next]_vars PROVE OnceInv'
  OBVIOUS
<1>1. CASE UNCHANGED vars
  BY <1>1, OnceFrames
     DEF OnceInv, vars, clientVars, serverVars, netVars, userVars
<1>2. CASE Terminated
  BY <1>1, <1>2 DEF Terminated
<1> QED BY <1>1, <1>2, WriterStepOnce, UserCallOnce, ConnectStepOnce,
           ReaderStepOnce, ServerStepOnce, NetworkOnce DEF Next

\* both invariants hold in every state
LEMMA OnceHolds == Spec => []OnceInv
<1>1. Spec => []Inv
  BY Inductive, PTL DEF Spec
<1>2. Init => OnceInv
  BY InitOnce
<1> QED BY <1>1, <1>2, OnceInductive, PTL DEF Spec

\* Once on_unsubscribe of a listener ran, no notification reaches its callback
\* again, in whatever order the user removes listeners, even one that was
\* never confirmed (websocket.cpp:211-224, 284-303).
THEOREM SilentCorrect == Spec => []SilentAfterOnUnsubscribe
<1>1. OnceInv => SilentAfterOnUnsubscribe
  BY DEF OnceInv
<1> QED BY <1>1, OnceHolds, PTL

\* No listener is confirmed twice and none is told twice that it was removed
\* (websocket.cpp:211-243).
THEOREM OnceCorrect == Spec => []OnceEach
<1>1. OnceInv => OnceEach
  BY DEF OnceInv
<1> QED BY <1>1, OnceHolds, PTL

----------------------------------------------------------------------------
(* A user who removes only confirmed listeners, as examples/ws.cpp does:   *)
(* what the maps know, whose subscription ends, which callbacks are looked *)
(* up, and that the session implements the promise of module Listeners.    *)

----------------------------------------------------------------------------
(* What a step leaves alone. *)

\* the invariant among things a step leaves alone
LEMMA FollowFrames ==
  ASSUME MapsFollowUser
  PROVE  /\ UNCHANGED <<issued, open, reader>> => IssuedOnce'
         /\ UNCHANGED <<callback_map, confirmed, reader, issued>>
              => EntriesConfirmed'
         /\ UNCHANGED <<unsubscribed, confirmed, writer>> => RemovalsConfirmed'
         /\ UNCHANGED <<writer, issued, to_server, to_client, unsubscribed, reader>>
              => RemovalsOwn'
         /\ UNCHANGED <<maps_wsid_to_id, confirmed, reader, unsubscribed, writer>>
              => MappedConfirmed'
         /\ UNCHANGED <<issued, confirmed, reader, unsubscribed, callback_map,
                        open, writer, maps_wsid_to_id>>
              => ConfirmedMapped'
         /\ UNCHANGED <<issued, live, unsubscribed>> => OnlyRemovedEnd'
         /\ UNCHANGED <<asked, curr_id, writer>> => RequestIdsUsed'
BY DEF MapsFollowUser, IssuedOnce, EntriesConfirmed, RemovalsConfirmed,
       RemovalsOwn, MappedConfirmed, ConfirmedMapped, OnlyRemovedEnd,
       RequestIdsUsed, IsIssued, Reported, Removing, Calling

\* the session starts in the invariant
LEMMA InitFollows == Init => MapsFollowUser
<1> SUFFICES ASSUME Init PROVE MapsFollowUser
  OBVIOUS
<1>1. /\ unsubscribed = {} /\ confirmed = {}
      /\ to_server = <<>> /\ to_client = <<>> /\ open = FALSE
      /\ DOMAIN issued = {} /\ DOMAIN callback_map = {}
      /\ DOMAIN maps_wsid_to_id = {} /\ DOMAIN asked = {}
      /\ reader.at = "connecting" /\ writer.at = "idle" /\ curr_id = 0
  BY DEF Init, Connecting, Idle, NoEntries
<1>2. 0 \in RequestIds \cup {2 * MaxRequests}
  BY BoundsAssumption DEF RequestIds
<1> QED BY <1>1, <1>2
  DEF MapsFollowUser, IssuedOnce, EntriesConfirmed, RemovalsConfirmed,
      RemovalsOwn, MappedConfirmed, ConfirmedMapped, OnlyRemovedEnd,
      RequestIdsUsed

\* A step that moves only the reader, to a place without locals that matter,
\* when no on_subscribe has been running.
LEMMA QuietReaderFollows ==
  ASSUME MapsFollowUser,
         UNCHANGED <<curr_id, callback_map, maps_wsid_to_id, serverVars, open,
                     to_server, to_client, userVars, writer>>,
         ~Calling("on_subscribe"),
         reader.at # "connecting" => reader'.at # "connecting",
         reader'.at \notin {"dispatch", "calling"}
  PROVE  MapsFollowUser'
<1> USE DEF MapsFollowUser, serverVars, userVars
<1>1. \A id : Reported(id)' <=> Reported(id)
  BY DEF Reported, Calling
<1>2. IssuedOnce'
  BY DEF IssuedOnce
<1>3. EntriesConfirmed'
  BY <1>1 DEF EntriesConfirmed, IsIssued
<1>4. RemovalsOwn'
  BY DEF RemovalsOwn, IsIssued
<1>5. MappedConfirmed'
  BY <1>1 DEF MappedConfirmed
<1>6. ConfirmedMapped'
  BY <1>1 DEF ConfirmedMapped, Removing
<1> QED BY <1>2, <1>3, <1>4, <1>5, <1>6, FollowFrames

----------------------------------------------------------------------------
(* The steps. *)

\* the steps of the writer keep the invariant
LEMMA WriterStepFollows ==
  ASSUME Inv, OnceInv, MapsFollowUser, WriterStep
  PROVE  MapsFollowUser'
<1> USE DEF clientVars, serverVars, netVars, userVars
<1>1. CASE SubscribeWrite
  <2> DEFINE msg == SubscriptionRequest(writer.id, writer.acct)
  <2>1. /\ UNCHANGED <<curr_id, callback_map, maps_wsid_to_id, issued, live,
                       open, to_client, reader, unsubscribed, confirmed>>
        /\ to_server' = Append(to_server, msg) \/ to_server' = to_server
        /\ writer.at = "subscribe_write" /\ writer'.at = "subscribe_return"
        /\ DOMAIN asked' = DOMAIN asked \cup {writer.id}
    BY <1>1 DEF SubscribeWrite, Written, Put
  <2>2. /\ msg \in ToServer /\ to_server \in Seq(ToServer)
        /\ msg.kind = "subscribe" /\ writer.id = curr_id
    <3>1. writer.id \in Nat /\ writer.acct \in Accounts /\ writer.id = curr_id
      BY <2>1, ThreadTypes DEF Inv, PairingsMatch, IdsAreFresh
    <3> QED BY <3>1, MessageTypes DEF Inv, TypeOK, SubscriptionRequest
  <2> HIDE DEF msg
  <2>3. \A k \in 1 .. Len(to_server') :
          \/ k \in 1 .. Len(to_server) /\ to_server'[k] = to_server[k]
          \/ to_server'[k] = msg
    BY <2>1, <2>2
  <2>4. RemovalsConfirmed' /\ MappedConfirmed' /\ ConfirmedMapped'
    BY <2>1 DEF MapsFollowUser, RemovalsConfirmed, MappedConfirmed,
                ConfirmedMapped, Reported, Removing, Calling
  <2>5. RemovalsOwn'
    BY <2>1, <2>2, <2>3 DEF MapsFollowUser, RemovalsOwn, IsIssued
  <2>6. RequestIdsUsed'
    BY <2>1, <2>2 DEF MapsFollowUser, RequestIdsUsed
  <2> QED BY <2>1, <2>4, <2>5, <2>6, FollowFrames DEF MapsFollowUser
<1>2. CASE SubscribeWriteThrows \/ SubscribeReturn
  <2>1. /\ UNCHANGED <<callback_map, maps_wsid_to_id, serverVars, netVars,
                       userVars, reader>>
        /\ writer.at \in {"subscribe_write", "subscribe_return"}
        /\ writer'.at = "idle"
        /\ curr_id' = curr_id \/ curr_id' = curr_id + 2
    BY <1>2 DEF SubscribeWriteThrows, SubscribeReturn, NextRequestId, Idle
  <2>2. RemovalsConfirmed' /\ RemovalsOwn' /\ MappedConfirmed' /\ ConfirmedMapped'
    BY <2>1 DEF MapsFollowUser, RemovalsConfirmed, RemovalsOwn, MappedConfirmed,
                ConfirmedMapped, Reported, Removing, Calling, IsIssued
  <2>3. RequestIdsUsed'
    <3>1. curr_id \in RequestIds
      BY <2>1 DEF MapsFollowUser, RequestIdsUsed
    <3>2. PICK k \in 0 .. MaxRequests - 1 : curr_id = 2 * k
      BY <3>1 DEF RequestIds
    <3>3. k + 1 \in 0 .. MaxRequests /\ curr_id + 2 = 2 * (k + 1)
      BY <3>2, BoundsAssumption
    <3>4. k + 1 = MaxRequests \/ k + 1 \in 0 .. MaxRequests - 1
      BY <3>3, BoundsAssumption
    <3>5. curr_id + 2 \in RequestIds \cup {2 * MaxRequests}
      BY <3>3, <3>4 DEF RequestIds
    <3> QED BY <2>1, <3>1, <3>5 DEF MapsFollowUser, RequestIdsUsed
  <2> QED BY <2>1, <2>2, <2>3, FollowFrames DEF MapsFollowUser
<1>3. CASE UnsubscribeErase
  <2> DEFINE id == writer.id
  <2>1. /\ writer.at = "unsubscribe_locked" /\ id \in DOMAIN callback_map
        /\ id \in confirmed
        /\ UNCHANGED <<curr_id, callback_map, issued, live, open, to_server,
                       to_client, asked, unsubscribed, confirmed, reader>>
    BY <1>3 DEF UnsubscribeErase, WriterHoldsShared, Inv, PairingsMatch,
       RemovalsAreKnown, MapsFollowUser, RemovalsConfirmed
  <2>2. callback_map[id].subscribed /\ IsIssued(callback_map[id].ws_id, id)
    BY <2>1 DEF MapsFollowUser, EntriesConfirmed, Reported
  <2>3. PICK ws : /\ ws = callback_map[id].ws_id
                  /\ writer' = [at |-> "unsubscribe_write", id |-> id, ws |-> ws]
                  /\ maps_wsid_to_id' = Unmapped(ws)
    BY <1>3, <2>2 DEF UnsubscribeErase, WsIdRead
  <2>4. /\ DOMAIN maps_wsid_to_id' = DOMAIN maps_wsid_to_id \ {ws}
        /\ \A x \in DOMAIN maps_wsid_to_id' :
             maps_wsid_to_id'[x] = maps_wsid_to_id[x]
    BY <2>3, RestrictFacts DEF Unmapped
  <2>5. writer'.at = "unsubscribe_write" /\ writer'.id = id /\ writer'.ws = ws
    BY <2>3
  <2>6. IsIssued(ws, id)
    BY <2>2, <2>3
  <2> HIDE DEF id
  <2>7. RemovalsConfirmed' /\ RequestIdsUsed'
    BY <2>1, <2>5 DEF MapsFollowUser, RemovalsConfirmed, RequestIdsUsed
  <2>8. RemovalsOwn'
    BY <2>1, <2>5, <2>6 DEF MapsFollowUser, RemovalsOwn, IsIssued
  <2>9. MappedConfirmed'
    <3>1. \A x \in DOMAIN maps_wsid_to_id :
            x \in DOMAIN issued /\ issued[x].id = maps_wsid_to_id[x]
      BY DEF Inv, PairingsMatch, MappingsMatch
    <3>2. \A x \in DOMAIN maps_wsid_to_id' : maps_wsid_to_id[x] # id
      BY <2>4, <2>6, <3>1 DEF MapsFollowUser, IssuedOnce, IsIssued
    <3> QED BY <2>1, <2>4, <2>5, <3>2
            DEF MapsFollowUser, MappedConfirmed, Reported, Calling
  <2>10. ConfirmedMapped'
    <3>1. \A x \in DOMAIN issued : issued[x].id # id => x # ws
      BY <2>6 DEF IsIssued
    <3>2. \A i : ~Removing(i)' => ~Removing(i) /\ i # id
      BY <2>1, <2>5 DEF Removing, id
    <3> QED BY <2>1, <2>4, <3>1, <3>2
            DEF MapsFollowUser, ConfirmedMapped, Reported, Calling
  <2> QED BY <2>1, <2>7, <2>8, <2>9, <2>10, FollowFrames DEF MapsFollowUser
<1>4. CASE UnsubscribeWrite
  <2> DEFINE msg == UnsubscriptionRequest(writer.id, writer.ws)
  <2>1. /\ UNCHANGED <<curr_id, callback_map, maps_wsid_to_id, issued, live,
                       open, to_client, reader, asked, confirmed>>
        /\ to_server' = Append(to_server, msg) \/ to_server' = to_server
        /\ unsubscribed' = unsubscribed \cup {writer.id}
        /\ writer.at = "unsubscribe_write" /\ writer'.at = "idle"
    BY <1>4 DEF UnsubscribeWrite, Written, Idle
  <2>2. /\ msg \in ToServer /\ to_server \in Seq(ToServer)
        /\ msg.kind = "unsubscribe" /\ msg.id - 1 = writer.id
        /\ msg.ws = writer.ws
    <3>1. writer.id \in Nat /\ writer.ws \in WsIds \cup {NoWsId}
      BY <2>1, ThreadTypes DEF Inv
    <3> QED BY <3>1, MessageTypes DEF Inv, TypeOK, UnsubscriptionRequest
  <2> HIDE DEF msg
  <2>3. \A k \in 1 .. Len(to_server') :
          \/ k \in 1 .. Len(to_server) /\ to_server'[k] = to_server[k]
          \/ to_server'[k] = msg
    BY <2>1, <2>2
  <2>4. RemovalsConfirmed' /\ MappedConfirmed' /\ ConfirmedMapped'
    BY <2>1 DEF MapsFollowUser, RemovalsConfirmed, MappedConfirmed,
                ConfirmedMapped, Reported, Removing, Calling
  <2>5. RemovalsOwn'
    BY <2>1, <2>2, <2>3 DEF MapsFollowUser, RemovalsOwn, IsIssued
  <2>6. OnlyRemovedEnd' /\ RequestIdsUsed'
    BY <2>1 DEF MapsFollowUser, OnlyRemovedEnd, RequestIdsUsed
  <2> QED BY <2>1, <2>4, <2>5, <2>6, FollowFrames DEF MapsFollowUser
<1>5. CASE UnsubscribeWriteThrows
  <2>1. /\ UNCHANGED <<curr_id, callback_map, maps_wsid_to_id, serverVars,
                       netVars, userVars, reader>>
        /\ ~open /\ writer.at = "unsubscribe_write" /\ writer'.at = "idle"
    BY <1>5 DEF UnsubscribeWriteThrows, Idle
  <2>2. RemovalsConfirmed' /\ RemovalsOwn' /\ MappedConfirmed' /\ ConfirmedMapped'
    BY <2>1 DEF MapsFollowUser, RemovalsConfirmed, RemovalsOwn, MappedConfirmed,
                ConfirmedMapped, Reported, Removing, Calling, IsIssued
  <2>3. RequestIdsUsed'
    BY <2>1 DEF MapsFollowUser, RequestIdsUsed
  <2> QED BY <2>1, <2>2, <2>3, FollowFrames DEF MapsFollowUser
<1> QED BY <1>1, <1>2, <1>3, <1>4, <1>5 DEF WriterStep

\* the calls of the user keep the invariant
LEMMA UserCallFollows ==
  ASSUME AwaitsConfirmation, Inv, OnceInv, MapsFollowUser, UserCall
  PROVE  MapsFollowUser'
<1> USE DEF clientVars, serverVars, netVars, userVars
<1>1. ASSUME NEW acct \in Accounts, Subscribe(acct) PROVE MapsFollowUser'
  <2>1. /\ UNCHANGED <<curr_id, maps_wsid_to_id, serverVars, netVars, userVars,
                       reader>>
        /\ writer.at = "idle" /\ writer'.at = "subscribe_write"
        /\ curr_id < 2 * MaxRequests
        /\ DOMAIN callback_map' = DOMAIN callback_map \cup {curr_id}
        /\ ~callback_map'[curr_id].subscribed
        /\ \A i \in DOMAIN callback_map :
             i # curr_id => callback_map'[i] = callback_map[i]
    BY <1>1 DEF Subscribe, Idle, Put
  <2>2. ~Reported(curr_id)
    <3>1. \A ws \in DOMAIN issued : issued[ws].id < curr_id
      BY <2>1 DEF Inv, PairingsMatch, IssuedMatch, IdsAreFresh
    <3>2. curr_id \in Nat /\ ~Accepted(curr_id)
      BY <3>1 DEF Accepted, Inv, TypeOK
    <3> QED BY <3>2 DEF OnceInv, ConfirmedOnce, Heard, Reported
  <2>3. EntriesConfirmed'
    BY <2>1, <2>2 DEF MapsFollowUser, EntriesConfirmed, Reported, Calling, IsIssued
  <2>4. RemovalsConfirmed' /\ RemovalsOwn' /\ MappedConfirmed' /\ ConfirmedMapped'
    BY <2>1 DEF MapsFollowUser, RemovalsConfirmed, RemovalsOwn, MappedConfirmed,
                ConfirmedMapped, Reported, Removing, Calling, IsIssued
  <2>5. RequestIdsUsed'
    BY <2>1, BoundsAssumption DEF MapsFollowUser, RequestIdsUsed
  <2> QED BY <2>1, <2>3, <2>4, <2>5, FollowFrames DEF MapsFollowUser
<1>2. ASSUME NEW id \in Returned, Unsubscribe(id) PROVE MapsFollowUser'
  <2>1. /\ UNCHANGED <<clientVars, serverVars, netVars, userVars, reader>>
        /\ writer.at = "idle" /\ writer'.at = "unsubscribe_locked"
        /\ writer'.id = id /\ id \in confirmed
    BY <1>2 DEF Unsubscribe, Idle
  <2>2. RemovalsConfirmed' /\ RemovalsOwn' /\ MappedConfirmed' /\ ConfirmedMapped'
    BY <2>1 DEF MapsFollowUser, RemovalsConfirmed, RemovalsOwn, MappedConfirmed,
                ConfirmedMapped, Reported, Removing, Calling, IsIssued
  <2>3. RequestIdsUsed'
    BY <2>1 DEF MapsFollowUser, RequestIdsUsed
  <2> QED BY <2>1, <2>2, <2>3, FollowFrames DEF MapsFollowUser
<1>3. ASSUME NEW id \in Returned, UnsubscribeUnknown(id) PROVE MapsFollowUser'
  <2>1. /\ UNCHANGED <<clientVars, serverVars, netVars, writer, reader, asked,
                       confirmed>>
        /\ unsubscribed' = unsubscribed \cup {id}
        /\ id \in confirmed /\ id \notin DOMAIN callback_map
    BY <1>3 DEF UnsubscribeUnknown
  <2>2. id \in unsubscribed
    <3>1. PICK ws \in DOMAIN issued : issued[ws].id = id
      BY <2>1 DEF OnceInv, ConfirmedOnce, Heard, Accepted, Inv, TypeOK
    <3> QED BY <2>1, <3>1 DEF MapsFollowUser, ConfirmedMapped, Reported
  <2> QED BY <2>1, <2>2, FollowFrames DEF MapsFollowUser
<1>4. CASE Disconnect
  <2>1. /\ UNCHANGED <<curr_id, callback_map, maps_wsid_to_id, serverVars,
                       netVars, userVars, reader>>
        /\ writer.at = "idle" /\ writer'.at = "disconnected"
    BY <1>4 DEF Disconnect, Idle, Disconnected
  <2>2. RemovalsConfirmed' /\ RemovalsOwn' /\ MappedConfirmed' /\ ConfirmedMapped'
    BY <2>1 DEF MapsFollowUser, RemovalsConfirmed, RemovalsOwn, MappedConfirmed,
                ConfirmedMapped, Reported, Removing, Calling, IsIssued
  <2>3. RequestIdsUsed'
    BY <2>1 DEF MapsFollowUser, RequestIdsUsed
  <2> QED BY <2>1, <2>2, <2>3, FollowFrames DEF MapsFollowUser
<1> QED BY <1>1, <1>2, <1>3, <1>4 DEF UserCall

\* the way to the first read keeps the invariant
LEMMA ConnectStepFollows ==
  ASSUME MapsFollowUser, ConnectStep
  PROVE  MapsFollowUser'
<1> USE DEF clientVars, serverVars, netVars, userVars
<1>1. CASE HandshakeSucceeds
  <2>1. /\ UNCHANGED <<clientVars, serverVars, to_server, to_client, userVars,
                       writer>>
        /\ reader.at = "connecting" /\ reader'.at = "handshaken"
    BY <1>1 DEF HandshakeSucceeds, Connecting, Handshaken
  <2>2. DOMAIN issued = {}
    BY <2>1 DEF MapsFollowUser, IssuedOnce
  <2>3. EntriesConfirmed' /\ RemovalsOwn' /\ MappedConfirmed'
    BY <2>1 DEF MapsFollowUser, EntriesConfirmed, RemovalsOwn, MappedConfirmed,
                Reported, Calling, IsIssued
  <2>4. IssuedOnce' /\ ConfirmedMapped'
    BY <2>1, <2>2 DEF IssuedOnce, ConfirmedMapped
  <2> QED BY <2>1, <2>3, <2>4, FollowFrames DEF MapsFollowUser
<1>2. CASE OnHandshake
  BY <1>2, QuietReaderFollows DEF OnHandshake, Handshaken, Reading, Calling
<1>3. CASE ConnectFails
  <2>1. /\ UNCHANGED <<clientVars, serverVars, open, to_client, userVars, writer>>
        /\ reader.at = "connecting" /\ reader'.at = "stopped"
        /\ to_server' = <<>>
    BY <1>3 DEF ConnectFails, Connecting, Stopped
  <2>2. IssuedOnce' /\ EntriesConfirmed' /\ RemovalsOwn' /\ MappedConfirmed'
        /\ ConfirmedMapped'
    BY <2>1 DEF MapsFollowUser, IssuedOnce, EntriesConfirmed, RemovalsOwn,
                MappedConfirmed, ConfirmedMapped, Reported, Removing, Calling, IsIssued
  <2> QED BY <2>1, <2>2, FollowFrames DEF MapsFollowUser
<1> QED BY <1>1, <1>2, <1>3 DEF ConnectStep

\* the completion of a read keeps the invariant
LEMMA ReadMessageFollows ==
  ASSUME Inv, MapsFollowUser, ReadMessage
  PROVE  MapsFollowUser'
<1> USE DEF clientVars, serverVars, userVars
<1> DEFINE msg == Head(to_client)
<1>1. /\ to_client \in Seq(ToClient) /\ to_client # <<>>
      /\ to_client' = Tail(to_client)
      /\ UNCHANGED <<clientVars, serverVars, open, to_server, userVars, writer>>
      /\ reader.at = "reading"
      /\ \/ reader' = [at |-> "dispatch", msg |-> msg]
         \/ reader' = Stopped
  BY DEF ReadMessage, Reading, Inv, TypeOK
<1>2. /\ 1 \in 1 .. Len(to_client) /\ msg = to_client[1]
      /\ \A k \in 1 .. Len(to_client') :
           k + 1 \in 1 .. Len(to_client) /\ to_client'[k] = to_client[k + 1]
  BY <1>1, TailFacts
<1> HIDE DEF msg
<1>3. reader'.at \in {"dispatch", "stopped"}
      /\ (reader'.at = "dispatch" => reader'.msg = msg)
  BY <1>1 DEF Stopped
<1>4. IssuedOnce'
  BY <1>1, <1>3 DEF MapsFollowUser, IssuedOnce
<1>5. EntriesConfirmed' /\ MappedConfirmed' /\ ConfirmedMapped'
  BY <1>1, <1>3 DEF MapsFollowUser, EntriesConfirmed, MappedConfirmed,
     ConfirmedMapped, Reported, Removing, Calling, IsIssued
<1>6. RemovalsOwn'
  BY <1>1, <1>2, <1>3 DEF MapsFollowUser, RemovalsOwn, IsIssued
<1> QED BY <1>1, <1>4, <1>5, <1>6, FollowFrames DEF MapsFollowUser

\* the answer to an unsubscription keeps the invariant
LEMMA DispatchUnsubscribedFollows ==
  ASSUME Inv, MapsFollowUser, DispatchUnsubscribed
  PROVE  MapsFollowUser'
<1> USE DEF serverVars, netVars, userVars
<1> DEFINE id == reader.msg.id - 1
<1>1. /\ UNCHANGED <<curr_id, maps_wsid_to_id, is_connected, serverVars,
                     netVars, userVars, writer>>
      /\ reader.at = "dispatch" /\ reader.msg.kind = "unsubscribed"
  BY DEF DispatchUnsubscribed
<1>2. id \in unsubscribed
  BY <1>1 DEF MapsFollowUser, RemovalsOwn
<1>3. CASE id \notin DOMAIN callback_map
  BY <1>1, <1>3, QuietReaderFollows DEF DispatchUnsubscribed, Reading, Calling
<1>4. CASE id \in DOMAIN callback_map
  <2>1. /\ DOMAIN callback_map' = DOMAIN callback_map \ {id}
        /\ \A i \in DOMAIN callback_map' : callback_map'[i] = callback_map[i]
        /\ reader'.at = "calling" /\ reader'.callback.event = "on_unsubscribe"
    BY <1>4, RestrictFacts DEF DispatchUnsubscribed, CallbackOf, RequestErased
  <2>2. \A i : Reported(i)' <=> Reported(i)
    BY <1>1, <2>1 DEF Reported, Calling
  <2> HIDE DEF id
  <2>3. IssuedOnce' /\ RemovalsOwn'
    BY <1>1, <2>1 DEF MapsFollowUser, IssuedOnce, RemovalsOwn, IsIssued
  <2>4. EntriesConfirmed'
    BY <1>1, <2>1, <2>2 DEF MapsFollowUser, EntriesConfirmed, IsIssued
  <2>5. MappedConfirmed'
    BY <1>1, <2>2 DEF MapsFollowUser, MappedConfirmed
  <2>6. ConfirmedMapped'
    BY <1>1, <1>2, <2>1, <2>2 DEF MapsFollowUser, ConfirmedMapped, Removing
  <2> QED BY <1>1, <2>3, <2>4, <2>5, <2>6, FollowFrames DEF MapsFollowUser
<1> QED BY <1>3, <1>4

\* the confirmation of a subscription keeps the invariant
LEMMA DispatchSubscribedFollows ==
  ASSUME Inv, OnceInv, MapsFollowUser, DispatchSubscribed
  PROVE  MapsFollowUser'
<1> USE DEF serverVars, netVars, userVars
<1> DEFINE id == reader.msg.id
           ws == reader.msg.ws
<1>1. /\ UNCHANGED <<curr_id, is_connected, serverVars, netVars, userVars, writer>>
      /\ reader.at = "dispatch" /\ reader.msg.kind = "subscribed"
  BY DEF DispatchSubscribed
<1>2. IsIssued(ws, id) /\ id \notin confirmed
  BY <1>1 DEF Inv, PairingsMatch, MessagesMatch, ReceivedMatches, IsIssued,
              OnceInv, ConfirmedOnce
<1>3. CASE id \notin DOMAIN callback_map
  BY <1>1, <1>3, QuietReaderFollows DEF DispatchSubscribed, Reading, Calling
<1>4. CASE id \in DOMAIN callback_map
  <2>1. /\ callback_map' = [callback_map EXCEPT ![id] = ConfirmedRequest(@, ws)]
        /\ maps_wsid_to_id' = Put(maps_wsid_to_id, ws, id)
        /\ reader'.at = "calling" /\ reader'.callback.event = "on_subscribe"
        /\ reader'.callback.id = id
    BY <1>4 DEF DispatchSubscribed, CallbackOf, Mapped
  <2>2. /\ DOMAIN callback_map' = DOMAIN callback_map
        /\ callback_map'[id].subscribed /\ callback_map'[id].ws_id = ws
        /\ \A i \in DOMAIN callback_map : i # id => callback_map'[i] = callback_map[i]
    <3>1. callback_map[id] \in RequestContent
      BY <1>4 DEF Inv, TypeOK
    <3> QED BY <1>4, <2>1, <3>1 DEF ConfirmedRequest, RequestContent
  <2>3. /\ DOMAIN maps_wsid_to_id' = DOMAIN maps_wsid_to_id \cup {ws}
        /\ maps_wsid_to_id'[ws] = id
        /\ \A x \in DOMAIN maps_wsid_to_id :
             x # ws => maps_wsid_to_id'[x] = maps_wsid_to_id[x]
    BY <2>1 DEF Put
  <2>4. \A i : Reported(i)' <=> Reported(i) \/ i = id
    BY <1>1, <2>1 DEF Reported, Calling
  <2> HIDE DEF id, ws
  <2>5. IssuedOnce' /\ RemovalsOwn'
    BY <1>1, <2>1 DEF MapsFollowUser, IssuedOnce, RemovalsOwn, IsIssued
  <2>6. EntriesConfirmed'
    BY <1>1, <1>2, <2>2, <2>4 DEF MapsFollowUser, EntriesConfirmed, IsIssued
  <2>7. MappedConfirmed'
    BY <1>1, <1>2, <2>3, <2>4
       DEF MapsFollowUser, MappedConfirmed, RemovalsConfirmed
  <2>8. ConfirmedMapped'
    <3>1. \A x \in DOMAIN issued : issued[x].id = id => x = ws
      BY <1>2 DEF MapsFollowUser, IssuedOnce, IsIssued
    <3> QED BY <1>1, <1>4, <2>2, <2>3, <2>4, <3>1
            DEF MapsFollowUser, ConfirmedMapped, Removing, id
  <2> QED BY <1>1, <2>5, <2>6, <2>7, <2>8, FollowFrames DEF MapsFollowUser
<1> QED BY <1>3, <1>4

\* looking a callback up keeps the invariant
LEMMA GetCallbackFollows ==
  ASSUME MapsFollowUser, GetCallback
  PROVE  MapsFollowUser'
<1> USE DEF clientVars, serverVars, netVars, userVars
<1>1. /\ UNCHANGED <<clientVars, serverVars, netVars, userVars, writer>>
      /\ reader.at = "get_callback_locked"
      /\ reader'.at = "calling" /\ reader'.callback.event = "cb"
  BY DEF GetCallback, ReaderHoldsShared, CallbackOf
<1>2. \A i : Reported(i)' <=> Reported(i)
  BY <1>1 DEF Reported, Calling
<1>3. IssuedOnce' /\ RemovalsOwn'
  BY <1>1 DEF MapsFollowUser, IssuedOnce, RemovalsOwn, IsIssued
<1>4. EntriesConfirmed' /\ MappedConfirmed' /\ ConfirmedMapped'
  BY <1>1, <1>2 DEF MapsFollowUser, EntriesConfirmed, MappedConfirmed,
     ConfirmedMapped, Removing, IsIssued
<1> QED BY <1>1, <1>3, <1>4, FollowFrames DEF MapsFollowUser

\* the run of a callback keeps the invariant
LEMMA RunCallbackFollows ==
  ASSUME MapsFollowUser, RunCallback
  PROVE  MapsFollowUser'
<1> USE DEF clientVars, serverVars, netVars
<1>1. /\ UNCHANGED <<clientVars, serverVars, netVars, asked, unsubscribed, writer>>
      /\ reader.at = "calling" /\ reader'.at = "reading"
      /\ \A i : i \in confirmed' <=> Reported(i)
  BY DEF RunCallback, Reading, Calling, Reported
<1>2. \A i : Reported(i)' <=> Reported(i)
  BY <1>1 DEF Reported, Calling
<1>3. IssuedOnce' /\ RemovalsOwn'
  BY <1>1 DEF MapsFollowUser, IssuedOnce, RemovalsOwn, IsIssued
<1>4. EntriesConfirmed' /\ MappedConfirmed' /\ ConfirmedMapped'
  BY <1>1, <1>2 DEF MapsFollowUser, EntriesConfirmed, MappedConfirmed,
     ConfirmedMapped, Removing, IsIssued
<1>5. RemovalsConfirmed'
  BY <1>1 DEF MapsFollowUser, RemovalsConfirmed, Reported
<1> QED BY <1>1, <1>3, <1>4, <1>5, FollowFrames DEF MapsFollowUser

\* the steps of the reader keep the invariant
LEMMA ReaderStepFollows ==
  ASSUME Inv, OnceInv, MapsFollowUser, ReaderStep
  PROVE  MapsFollowUser'
<1>1. CASE ReadFails \/ DispatchError \/ DispatchNotification \/ GetCallbackNone
  BY <1>1, QuietReaderFollows
     DEF ReadFails, DispatchError, DispatchNotification, GetCallbackNone,
         ReaderHoldsShared, Reading, Stopped, Calling, clientVars, netVars
<1> QED BY <1>1, ReadMessageFollows, DispatchUnsubscribedFollows,
           DispatchSubscribedFollows, GetCallbackFollows, RunCallbackFollows
        DEF ReaderStep

\* A message that reaches the client without being an answer to a removal the
\* user did not ask for, and the requests that are left.
LEMMA AnsweredFollows ==
  ASSUME MapsFollowUser, NEW msg \in ToClient, to_client \in Seq(ToClient),
         UNCHANGED <<unsubscribed, reader, writer>>,
         to_client' = Append(to_client, msg),
         \A k \in 1 .. Len(to_server') :
           \E j \in 1 .. Len(to_server) : to_server'[k] = to_server[j],
         \A x \in DOMAIN issued : x \in DOMAIN issued' /\ issued'[x] = issued[x],
         msg.kind = "unsubscribed" => msg.id - 1 \in unsubscribed
  PROVE  RemovalsOwn'
<1>1. \A k \in 1 .. Len(to_client') :
        \/ k \in 1 .. Len(to_client) /\ to_client'[k] = to_client[k]
        \/ to_client'[k] = msg
  OBVIOUS
<1> QED BY <1>1 DEF MapsFollowUser, RemovalsOwn, IsIssued

\* the steps of the server keep the invariant
LEMMA ServerStepFollows ==
  ASSUME Inv, OnceInv, MapsFollowUser, ServerStep
  PROVE  MapsFollowUser'
<1> USE DEF clientVars, serverVars, userVars
<1> DEFINE req == Head(to_server)
<1>1. /\ to_server \in Seq(ToServer) /\ to_client \in Seq(ToClient)
      /\ to_server # <<>> /\ to_server' = Tail(to_server)
      /\ open
      /\ UNCHANGED <<clientVars, open, userVars, writer, reader>>
  BY DEF Inv, TypeOK, ServerStep, ServerAccepts, ServerRefuses, ServerUnsubscribes
<1>2. /\ req \in ToServer /\ 1 \in 1 .. Len(to_server) /\ req = to_server[1]
      /\ \A k \in 1 .. Len(to_server') :
           \E j \in 1 .. Len(to_server) : to_server'[k] = to_server[j]
  BY <1>1, TailFacts
<1> HIDE DEF req
<1>3. CASE ServerAccepts
  <2>1. PICK ws \in WsIds \ DOMAIN issued :
          /\ issued' = Put(issued, ws, [id |-> req.id, acct |-> req.acct])
          /\ live' = live \cup {ws}
          /\ to_client' = Append(to_client, SubscribedReply(req.id, ws))
          /\ req.kind = "subscribe"
    BY <1>3 DEF ServerAccepts, req
  <2>2. /\ DOMAIN issued' = DOMAIN issued \cup {ws}
        /\ issued'[ws].id = req.id
        /\ \A x \in DOMAIN issued : x # ws /\ issued'[x] = issued[x]
    BY <2>1 DEF Put
  <2>3. req.id \in Nat /\ ~Accepted(req.id)
    BY <1>2, <2>1, MessageFields DEF OnceInv, AskedOnce
  <2>4. ~Reported(req.id)
    BY <2>3 DEF OnceInv, ConfirmedOnce, Heard, Reported
  <2>5. IssuedOnce'
    BY <1>1, <2>2, <2>3 DEF MapsFollowUser, IssuedOnce, Accepted
  <2>6. EntriesConfirmed'
    BY <1>1, <2>2 DEF MapsFollowUser, EntriesConfirmed, IsIssued, Reported, Calling
  <2>7. ConfirmedMapped'
    BY <1>1, <2>2, <2>4
       DEF MapsFollowUser, ConfirmedMapped, Reported, Removing, Calling
  <2>8. RemovalsOwn'
    <3>1. /\ SubscribedReply(req.id, ws) \in ToClient
          /\ SubscribedReply(req.id, ws).kind = "subscribed"
      BY <2>3, MessageTypes DEF SubscribedReply
    <3> QED BY <1>1, <1>2, <2>1, <2>2, <3>1, AnsweredFollows
  <2>9. OnlyRemovedEnd'
    BY <1>1, <2>1, <2>2 DEF MapsFollowUser, OnlyRemovedEnd
  <2> QED BY <1>1, <2>5, <2>6, <2>7, <2>8, <2>9, FollowFrames DEF MapsFollowUser
<1>4. CASE ServerRefuses
  <2>1. ErrorReply(req.id) \in ToClient /\ ErrorReply(req.id).kind = "error"
    BY <1>2, MessageFields, MessageTypes DEF ErrorReply
  <2>2. to_client' = Append(to_client, ErrorReply(req.id)) /\ UNCHANGED serverVars
    BY <1>4 DEF ServerRefuses, req
  <2>3. RemovalsOwn'
    BY <1>1, <1>2, <2>1, <2>2, AnsweredFollows
  <2> QED BY <1>1, <2>2, <2>3, FollowFrames DEF MapsFollowUser
<1>5. CASE ServerUnsubscribes
  <2>1. /\ UnsubscribedReply(req.id) \in ToClient
        /\ UnsubscribedReply(req.id).id = req.id
    BY <1>2, MessageFields, MessageTypes DEF UnsubscribedReply
  <2>2. /\ to_client' = Append(to_client, UnsubscribedReply(req.id))
        /\ UNCHANGED issued /\ live' = live \ {req.ws}
        /\ req.kind = "unsubscribe"
    BY <1>5 DEF ServerUnsubscribes, req
  <2>3. req.id - 1 \in unsubscribed /\ IsIssued(req.ws, req.id - 1)
    BY <1>2, <2>2 DEF MapsFollowUser, RemovalsOwn
  <2>4. RemovalsOwn'
    BY <1>1, <1>2, <2>1, <2>2, <2>3, AnsweredFollows
  <2>5. OnlyRemovedEnd'
    BY <1>1, <2>2, <2>3 DEF MapsFollowUser, OnlyRemovedEnd, IsIssued
  <2> QED BY <1>1, <2>2, <2>4, <2>5, FollowFrames DEF MapsFollowUser
<1> QED BY <1>3, <1>4, <1>5 DEF ServerStep

\* notifications and the end of the connection keep the invariant
LEMMA NetworkFollows ==
  ASSUME Inv, MapsFollowUser, Cut \/ \E ws \in live : ServerNotifies(ws)
  PROVE  MapsFollowUser'
<1> USE DEF clientVars, serverVars, userVars
<1>1. CASE Cut
  <2>1. /\ to_server' = <<>> /\ open' = FALSE
        /\ UNCHANGED <<clientVars, serverVars, userVars, writer, reader>>
    BY <1>1 DEF Cut
  <2>2. \A k \in 1 .. Len(to_client') :
          k \in 1 .. Len(to_client) /\ to_client'[k] = to_client[k]
    BY <1>1, PrefixFacts DEF Cut, Inv, TypeOK
  <2>3. RemovalsOwn'
    BY <2>1, <2>2 DEF MapsFollowUser, RemovalsOwn, IsIssued
  <2>4. IssuedOnce'
    BY <2>1 DEF MapsFollowUser, IssuedOnce
  <2>5. ConfirmedMapped'
    BY <2>1 DEF MapsFollowUser, ConfirmedMapped, Reported, Calling
  <2> QED BY <2>1, <2>3, <2>4, <2>5, FollowFrames DEF MapsFollowUser
<1>2. ASSUME NEW ws \in live, ServerNotifies(ws) PROVE MapsFollowUser'
  <2> DEFINE msg == Notification(ws, issued[ws].acct)
  <2>1. /\ to_client' = Append(to_client, msg)
        /\ UNCHANGED <<clientVars, serverVars, open, to_server, userVars,
                       writer, reader>>
    BY <1>2 DEF ServerNotifies
  <2>2. msg \in ToClient /\ msg.kind = "notification" /\ to_client \in Seq(ToClient)
    BY MessageTypes DEF Inv, TypeOK, Notification
  <2> HIDE DEF msg
  <2>3. RemovalsOwn'
    BY <2>1, <2>2, AnsweredFollows
  <2> QED BY <2>1, <2>3, FollowFrames DEF MapsFollowUser
<1> QED BY <1>1, <1>2

----------------------------------------------------------------------------
(* What holds in every state. *)

\* the invariant is inductive, next to the two before
LEMMA FollowsInductive ==
  ASSUME AwaitsConfirmation
  PROVE  Inv /\ OnceInv /\ MapsFollowUser /\ [Next]_vars => MapsFollowUser'
<1> SUFFICES ASSUME Inv, OnceInv, MapsFollowUser, [Next]_vars PROVE MapsFollowUser'
  OBVIOUS
<1>1. CASE UNCHANGED vars
  BY <1>1, FollowFrames
     DEF MapsFollowUser, vars, clientVars, serverVars, netVars, userVars
<1>2. CASE Terminated
  BY <1>1, <1>2 DEF Terminated
<1> QED BY <1>1, <1>2, WriterStepFollows, UserCallFollows, ConnectStepFollows,
           ReaderStepFollows, ServerStepFollows, NetworkFollows DEF Next

\* A user who waits for on_subscribe before removing a listener has maps that
\* know his listeners (websocket.cpp:104-305).
THEOREM FollowsCorrect ==
  ASSUME AwaitsConfirmation
  PROVE  Spec => [](Inv /\ OnceInv /\ MapsFollowUser)
<1>1. Spec => []Inv
  BY Inductive, PTL DEF Spec
<1>2. Init => MapsFollowUser
  BY InitFollows
<1> QED BY <1>1, <1>2, OnceHolds, FollowsInductive, PTL DEF Spec

\* Removing a listener ends its own subscription and no other, whatever ids
\* the server gives out (websocket.cpp:133-156, solana.cpp:1145-1148).
THEOREM OnlyRemovedCorrect ==
  ASSUME AwaitsConfirmation
  PROVE  Spec => []OnlyRemovedEnd
<1>1. MapsFollowUser => OnlyRemovedEnd
  BY DEF MapsFollowUser
<1> QED BY <1>1, FollowsCorrect, PTL

\* While the connection is up, a notification of a confirmed listener that
\* nobody removed finds its callback (websocket.cpp:284-303).
THEOREM ReachableCorrect ==
  ASSUME AwaitsConfirmation
  PROVE  Spec => []ConfirmedListenerReachable
<1>1. Inv /\ MapsFollowUser => ConfirmedListenerReachable
  <2> SUFFICES ASSUME Inv, MapsFollowUser, NEW ws \in live, open,
                      issued[ws].id \in confirmed, ~Removing(issued[ws].id)
               PROVE  RequestOf(ws) = {issued[ws].id}
    BY DEF ConfirmedListenerReachable
  <2>1. ws \in DOMAIN issued /\ issued[ws].id \notin unsubscribed
    BY DEF Inv, TypeOK, Removing
  <2>2. issued[ws].id \in DOMAIN callback_map /\ ws \in DOMAIN maps_wsid_to_id
    BY <2>1 DEF MapsFollowUser, ConfirmedMapped, Reported
  <2>3. maps_wsid_to_id[ws] = issued[ws].id
    BY <2>2 DEF Inv, PairingsMatch, MappingsMatch
  <2> QED BY <2>2, <2>3 DEF RequestOf
<1> QED BY <1>1, FollowsCorrect, PTL

\* the reader starts the callback of a notification only in get_callback
LEMMA LookedUpOnly ==
  ASSUME Next, reader.at = "get_callback_locked", reader'.at = "calling"
  PROVE  GetCallback
<1> USE DEF clientVars, serverVars, netVars, userVars
<1>1. ~UNCHANGED reader
  OBVIOUS
<1>2. ~WriterStep
  BY <1>1 DEF WriterStep, SubscribeWrite, SubscribeWriteThrows, SubscribeReturn,
     UnsubscribeErase, UnsubscribeWrite, UnsubscribeWriteThrows
<1>3. ~UserCall
  BY <1>1 DEF UserCall, Subscribe, Unsubscribe, UnsubscribeUnknown, Disconnect
<1>4. ~ConnectStep
  BY DEF ConnectStep, HandshakeSucceeds, OnHandshake, ConnectFails, Connecting,
         Handshaken
<1>5. ~ServerStep /\ ~Cut /\ ~Terminated /\ (\A ws \in live : ~ServerNotifies(ws))
  BY <1>1 DEF ServerStep, ServerAccepts, ServerRefuses, ServerUnsubscribes, Cut,
     Terminated, ServerNotifies, vars
<1> QED BY <1>2, <1>3, <1>4, <1>5
  DEF Next, ReaderStep, ReadMessage, ReadFails, DispatchUnsubscribed,
      DispatchSubscribed, DispatchError, DispatchNotification, GetCallbackNone,
      RunCallback, Reading

\* After removeAccountChangeListener returned, no notification finds the
\* callback any more (websocket.cpp:268-272).
THEOREM NotLookedUpCorrect ==
  ASSUME AwaitsConfirmation
  PROVE  Spec => RemovedNotLookedUp
<1>1. MapsFollowUser /\ [Next]_vars =>
        [reader.at = "get_callback_locked" /\ reader'.at = "calling"
           => reader'.callback.id \notin unsubscribed]_vars
  <2> SUFFICES ASSUME MapsFollowUser, Next,
                      reader.at = "get_callback_locked", reader'.at = "calling"
               PROVE  reader'.callback.id \notin unsubscribed
    OBVIOUS
  <2>1. PICK id \in RequestOf(reader.msg.ws) :
          reader' = CallbackOf("cb", id, reader.msg.acct)
    BY LookedUpOnly DEF GetCallback
  <2>2. reader'.callback.id = id
    BY <2>1 DEF CallbackOf
  <2> QED BY <2>1, <2>2 DEF RequestOf, MapsFollowUser, MappedConfirmed
<1> QED BY <1>1, FollowsCorrect, PTL DEF Spec, RemovedNotLookedUp

----------------------------------------------------------------------------
(* The promise. *)

\* a session that starts keeps the promise
LEMMA InitPromise == Init => Promise!Init
BY DEF Init, Promise!Init, Promise!None, NoEntries, Connecting

\* a step that concerns neither what the user knows nor a callback
LEMMA UnheardPromise ==
  ASSUME UNCHANGED userVars, reader.at # "calling", reader'.at # "calling"
  PROVE  UNCHANGED Promise!lvars
BY DEF userVars, Promise!lvars

\* a step that leaves the reader alone
LEMMA ReaderAlonePromise ==
  ASSUME UNCHANGED <<userVars, reader>>
  PROVE  UNCHANGED Promise!lvars
BY DEF userVars, Promise!lvars

\* onAccountChange registers a listener when its request is written
LEMMA SubscribeWritePromise ==
  ASSUME Inv, MapsFollowUser, SubscribeWrite
  PROVE  Promise!Next
<1>1. /\ writer.at = "subscribe_write" /\ writer.acct \in Accounts
      /\ asked' = Put(asked, writer.id, writer.acct)
      /\ UNCHANGED <<reader, unsubscribed, confirmed, finished>>
  BY ThreadTypes DEF SubscribeWrite, Inv
<1>2. writer.id \in RequestIds
  BY <1>1 DEF MapsFollowUser, RequestIdsUsed, Inv, PairingsMatch, IdsAreFresh
<1>3. writer.id \notin DOMAIN asked
  BY <1>1 DEF Inv, PairingsMatch, IdsAreFresh, TypeOK
<1>4. Promise!Register(writer.id, writer.acct)
  BY <1>1, <1>3 DEF Promise!Register, Put
<1> QED BY <1>1, <1>2, <1>4 DEF Promise!Next

\* the id of a confirmed listener is one that onAccountChange may return
LEMMA ConfirmedIds ==
  ASSUME Inv, OnceInv, MapsFollowUser
  PROVE  \A id \in confirmed : id \in RequestIds /\ id \in DOMAIN asked
<1> SUFFICES ASSUME NEW id \in confirmed PROVE id \in DOMAIN asked
  BY DEF MapsFollowUser, RequestIdsUsed
<1>1. PICK ws \in DOMAIN issued : issued[ws].id = id
  BY DEF OnceInv, ConfirmedOnce, Heard, Accepted, Inv, TypeOK
<1> QED BY <1>1 DEF Inv, PairingsMatch, IssuedMatch

\* removeAccountChangeListener removes a confirmed listener when it returns
LEMMA RemovePromise ==
  ASSUME Inv, OnceInv, MapsFollowUser, NEW id \in confirmed,
         unsubscribed' = unsubscribed \cup {id},
         UNCHANGED <<asked, confirmed, finished, reader>>
  PROVE  Promise!Next
<1>1. Promise!Remove(id)
  BY DEF Promise!Remove
<1> QED BY <1>1, ConfirmedIds DEF Promise!Next

\* a callback that starts is one about its own account
LEMMA StartPromise ==
  ASSUME Inv, reader.at # "calling", UNCHANGED userVars,
         NEW event, NEW id \in DOMAIN callback_map, id \in DOMAIN asked,
         reader' = CallbackOf(event, id, asked[id])
  PROVE  Promise!Start(event, id)
<1>1. callback_map[id].acct = asked[id]
  BY DEF Inv, PairingsMatch, EntriesMatch
<1>2. /\ reader'.at = "calling"
      /\ reader'.callback = [event |-> event, id |-> id,
                             acct |-> asked[id], data |-> asked[id]]
  BY <1>1 DEF CallbackOf
<1> QED BY <1>2 DEF Promise!Start, Promise!None, userVars

\* the answer to an unsubscription starts on_unsubscribe of a removed listener
LEMMA DispatchUnsubscribedPromise ==
  ASSUME Inv, OnceInv, MapsFollowUser, DispatchUnsubscribed
  PROVE  [Promise!Next]_(Promise!lvars)
<1> DEFINE id == reader.msg.id - 1
<1>1. /\ reader.at = "dispatch" /\ reader.msg.kind = "unsubscribed"
      /\ UNCHANGED userVars
  BY DEF DispatchUnsubscribed
<1>2. id \in unsubscribed /\ id \in confirmed
  BY <1>1 DEF MapsFollowUser, RemovalsOwn, RemovalsConfirmed
<1>3. id \in RequestIds /\ id \in DOMAIN asked
  BY <1>2, ConfirmedIds
<1>4. CASE id \notin DOMAIN callback_map
  BY <1>1, <1>4, UnheardPromise DEF DispatchUnsubscribed, Reading
<1>5. CASE id \in DOMAIN callback_map
  <2>1. callback_map[id].acct = asked[id]
    BY <1>3, <1>5 DEF Inv, PairingsMatch, EntriesMatch
  <2>2. reader' = CallbackOf("on_unsubscribe", id, asked[id])
    BY <1>5, <2>1 DEF DispatchUnsubscribed
  <2>3. id \notin finished
    BY <1>5 DEF OnceInv, GoneHaveNoEntry, Gone, Inv, TypeOK
  <2> HIDE DEF id
  <2>4. Promise!StartOnUnsubscribe(id)
    BY <1>1, <1>2, <1>3, <1>5, <2>2, <2>3, StartPromise
       DEF Promise!StartOnUnsubscribe
  <2> QED BY <1>3, <2>4 DEF Promise!Next
<1> QED BY <1>4, <1>5

\* the confirmation of a subscription starts on_subscribe, once
LEMMA DispatchSubscribedPromise ==
  ASSUME Inv, OnceInv, MapsFollowUser, DispatchSubscribed
  PROVE  [Promise!Next]_(Promise!lvars)
<1> DEFINE id == reader.msg.id
<1>1. /\ reader.at = "dispatch" /\ reader.msg.kind = "subscribed"
      /\ UNCHANGED userVars
  BY DEF DispatchSubscribed
<1>2. id \notin confirmed
  BY <1>1 DEF OnceInv, ConfirmedOnce
<1>3. id \in RequestIds /\ id \in DOMAIN asked
  BY <1>1 DEF Inv, PairingsMatch, MessagesMatch, ReceivedMatches, IssuedMatch,
     MapsFollowUser, RequestIdsUsed
<1>4. CASE id \notin DOMAIN callback_map
  BY <1>1, <1>4, UnheardPromise DEF DispatchSubscribed, Reading
<1>5. CASE id \in DOMAIN callback_map
  <2>1. callback_map[id].acct = asked[id]
    BY <1>3, <1>5 DEF Inv, PairingsMatch, EntriesMatch
  <2>2. reader' = CallbackOf("on_subscribe", id, asked[id])
    BY <1>5, <2>1 DEF DispatchSubscribed
  <2> HIDE DEF id
  <2>3. Promise!StartOnSubscribe(id)
    BY <1>1, <1>2, <1>3, <1>5, <2>2, StartPromise DEF Promise!StartOnSubscribe
  <2> QED BY <1>3, <2>3 DEF Promise!Next
<1> QED BY <1>4, <1>5

\* a notification starts the callback of a confirmed listener
LEMMA GetCallbackPromise ==
  ASSUME Inv, OnceInv, MapsFollowUser, GetCallback
  PROVE  Promise!Next
<1>1. PICK id \in RequestOf(reader.msg.ws) :
        reader' = CallbackOf("cb", id, reader.msg.acct)
  BY DEF GetCallback
<1>2. /\ reader.at = "get_callback_locked" /\ UNCHANGED userVars
      /\ id \in DOMAIN callback_map /\ reader.msg.ws \in DOMAIN maps_wsid_to_id
      /\ maps_wsid_to_id[reader.msg.ws] = id
  BY DEF GetCallback, ReaderHoldsShared, RequestOf
<1>3. id \in confirmed /\ id \notin finished
  BY <1>2 DEF MapsFollowUser, MappedConfirmed, Reported, Calling,
              OnceInv, GoneHaveNoEntry, Gone, Inv, TypeOK
<1>4. id \in RequestIds /\ id \in DOMAIN asked
  BY <1>3, ConfirmedIds
<1>5. reader.msg.acct = asked[id]
  <2>1. reader.msg.kind = "notification"
    BY <1>2, ThreadTypes DEF Inv, Notifications
  <2>2. issued[reader.msg.ws].acct = reader.msg.acct
    BY <1>2, <2>1 DEF Inv, PairingsMatch, MessagesMatch, ReceivedMatches
  <2> QED BY <1>2, <2>2 DEF Inv, PairingsMatch, IssuedMatch, MappingsMatch
<1>6. Promise!StartCb(id)
  BY <1>1, <1>2, <1>3, <1>4, <1>5, StartPromise DEF Promise!StartCb
<1> QED BY <1>4, <1>6 DEF Promise!Next

\* the callback that runs returns
LEMMA RunCallbackPromise ==
  ASSUME Inv, RunCallback
  PROVE  Promise!Next
<1>1. /\ reader.at = "calling" /\ reader'.at = "reading"
      /\ UNCHANGED <<asked, unsubscribed>>
  BY DEF RunCallback, Reading
<1>2. reader.callback \in UserCallback
  BY <1>1, ThreadTypes DEF Inv
<1>3. reader.callback # Promise!None
  BY <1>2 DEF UserCallback, Promise!None
<1>4. /\ confirmed' = confirmed \cup
             {i \in {reader.callback.id} : reader.callback.event = "on_subscribe"}
      /\ finished' = finished \cup
             {i \in {reader.callback.id} : reader.callback.event = "on_unsubscribe"}
  BY DEF RunCallback
<1>5. Promise!Return
  BY <1>1, <1>3, <1>4 DEF Promise!Return, Promise!None
<1> QED BY <1>5 DEF Promise!Next

\* every step of the session is one of the promise, or is not heard
LEMMA StepPromise ==
  ASSUME AwaitsConfirmation, Inv, OnceInv, MapsFollowUser, [Next]_vars
  PROVE  [Promise!Next]_(Promise!lvars)
<1> USE DEF clientVars, serverVars, netVars
<1>1. CASE UNCHANGED vars \/ Terminated
  BY <1>1, ReaderAlonePromise DEF vars, userVars, Terminated
<1>2. CASE WriterStep
  <2>1. CASE UnsubscribeWrite
    <3>1. /\ writer.at = "unsubscribe_write"
          /\ unsubscribed' = unsubscribed \cup {writer.id}
          /\ UNCHANGED <<asked, confirmed, finished, reader>>
      BY <2>1 DEF UnsubscribeWrite
    <3>2. writer.id \in confirmed
      BY <3>1 DEF MapsFollowUser, RemovalsConfirmed
    <3> QED BY <3>1, <3>2, RemovePromise
  <2>2. CASE SubscribeWriteThrows \/ SubscribeReturn \/ UnsubscribeErase
             \/ UnsubscribeWriteThrows
    BY <2>2, ReaderAlonePromise
       DEF SubscribeWriteThrows, SubscribeReturn, UnsubscribeErase,
           UnsubscribeWriteThrows
  <2> QED BY <1>2, <2>1, <2>2, SubscribeWritePromise DEF WriterStep
<1>3. CASE UserCall
  <2>1. ASSUME NEW id \in Returned, UnsubscribeUnknown(id) PROVE Promise!Next
    BY <2>1, RemovePromise DEF UnsubscribeUnknown
  <2>2. CASE (\E acct \in Accounts : Subscribe(acct))
             \/ (\E id \in Returned : Unsubscribe(id)) \/ Disconnect
    BY <2>2, ReaderAlonePromise DEF Subscribe, Unsubscribe, Disconnect
  <2> QED BY <1>3, <2>1, <2>2 DEF UserCall
<1>4. CASE ConnectStep
  BY <1>4, UnheardPromise DEF ConnectStep, HandshakeSucceeds, OnHandshake,
     ConnectFails, Connecting, Handshaken, Reading, Stopped
<1>5. CASE ReaderStep
  <2>1. CASE ReadMessage \/ ReadFails \/ DispatchError \/ DispatchNotification
             \/ GetCallbackNone
    BY <2>1, UnheardPromise
       DEF ReadMessage, ReadFails, DispatchError, DispatchNotification,
           GetCallbackNone, ReaderHoldsShared, Reading, Stopped
  <2> QED BY <1>5, <2>1, DispatchUnsubscribedPromise, DispatchSubscribedPromise,
             GetCallbackPromise, RunCallbackPromise DEF ReaderStep
<1>6. CASE ServerStep \/ Cut \/ \E ws \in live : ServerNotifies(ws)
  BY <1>6, ReaderAlonePromise
     DEF ServerStep, ServerAccepts, ServerRefuses, ServerUnsubscribes, Cut,
         ServerNotifies
<1> QED BY <1>1, <1>2, <1>3, <1>4, <1>5, <1>6 DEF Next

\* The session implements the promise of module Listeners: the three callbacks
\* of a listener run one at a time and in their order, each for its own
\* account, and no other callback runs (websocket.cpp:104-305).
THEOREM ImplementsPromise ==
  ASSUME AwaitsConfirmation
  PROVE  Spec => ImplementsListeners
<1>1. Init => Promise!Init
  BY InitPromise
<1>2. Inv /\ OnceInv /\ MapsFollowUser /\ [Next]_vars
        => [Promise!Next]_(Promise!lvars)
  BY StepPromise
<1> QED BY <1>1, <1>2, FollowsCorrect, PTL
        DEF Spec, ImplementsListeners, Promise!Spec

----------------------------------------------------------------------------
(* The subscriber as a whole. *)

\* a step of the whole is one of the protocol, or leaves it alone
LEMMA SessionStep == [SubscriberNext]_subscriberVars => [Next]_vars
<1> SUFFICES ASSUME SubscriberNext PROVE [Next]_vars
  BY DEF subscriberVars
<1> USE DEF Next
<1>1. CASE UserThread
  BY <1>1 DEF UserThread, Constructed, CallGoesOn, DestructorJoins
<1>2. CASE Call
  BY <1>2 DEF Call, UserCall
<1>3. CASE DestructorDisconnects
  BY <1>3 DEF DestructorDisconnects, UserCall
<1>4. CASE ReadThread
  BY <1>4 DEF ReadThread, Connect, Read, Handle, ConnectStep, ReaderStep
<1>5. CASE ServerAnswers \/ AccountChanges \/ CloseCompletes \/ ConnectionLost
  BY <1>5 DEF ServerAnswers, AccountChanges, CloseCompletes, ConnectionLost
<1>6. CASE Destroyed
  BY <1>6 DEF Destroyed, subscriberVars
<1> QED BY <1>1, <1>2, <1>3, <1>4, <1>5, <1>6 DEF SubscriberNext

\* a step of the whole is one of the life cycle, or leaves it alone
LEMMA LifeStep == [SubscriberNext]_subscriberVars => [Life!Next]_(Life!vars)
<1> USE DEF Life!Next, Life!vars, lifeVars, subscriberVars
<1>1. CASE UNCHANGED subscriberVars
  BY <1>1 DEF vars, clientVars, netVars
<1>2. CASE UserThread
  <2>1. CASE Constructed
    BY <2>1 DEF Constructed
  <2>2. CASE CallGoesOn
    <3>1. UNCHANGED <<is_connected, to_client>>
      BY <2>2 DEF CallGoesOn, WriterStep, SubscribeWrite, SubscribeWriteThrows,
         SubscribeReturn, UnsubscribeErase, UnsubscribeWrite,
         UnsubscribeWriteThrows, clientVars, netVars
    <3> QED BY <2>2, <3>1 DEF CallGoesOn
  <2>3. CASE DestructorJoins
    BY <2>3 DEF DestructorJoins
  <2> QED BY <1>2, <2>1, <2>2, <2>3 DEF UserThread
<1>3. CASE Call
  BY <1>3 DEF Call, Subscribe, Unsubscribe, UnsubscribeUnknown, clientVars, netVars
<1>4. CASE DestructorDisconnects
  BY <1>4 DEF DestructorDisconnects
<1>5. CASE Connect \/ Read \/ (UNCHANGED vars /\ Life!RunReturns)
  BY <1>5 DEF Connect, Read, Life!IoStep
<1>6. CASE Handle
  <2>1. UNCHANGED <<is_connected, to_client>>
    BY <1>6 DEF Handle, DispatchUnsubscribed, DispatchSubscribed, DispatchError,
       DispatchNotification, GetCallback, GetCallbackNone, RunCallback,
       clientVars, netVars
  <2> QED BY <1>6, <2>1 DEF Handle
<1>7. CASE ServerAnswers \/ AccountChanges \/ CloseCompletes \/ ConnectionLost
  BY <1>7 DEF ServerAnswers, AccountChanges, CloseCompletes, ConnectionLost
<1>8. CASE Destroyed
  BY <1>1, <1>8 DEF Destroyed
<1> QED BY <1>1, <1>2, <1>3, <1>4, <1>5, <1>6, <1>7, <1>8
        DEF SubscriberNext, ReadThread

\* Every behaviour of a subscriber, from construction to destruction, is one
\* of the protocol of Session (websocket.cpp:46-305).
THEOREM ImplementsSession == SubscriberSpec => Spec
<1>1. SubscriberInit => Init
  BY DEF SubscriberInit
<1> QED BY <1>1, SessionStep, PTL DEF SubscriberSpec, Spec

\* It is one of Lifecycle at the same time (solana.cpp:1089-1109).
THEOREM ImplementsLifecycle == SubscriberSpec => Life!Spec
<1>1. SubscriberInit => Life!Init
  BY DEF SubscriberInit
<1> QED BY <1>1, LifeStep, PTL DEF SubscriberSpec, Life!Spec

----------------------------------------------------------------------------
(* What was proved of Session holds of the whole. *)

\* From construction to destruction, a notification of a confirmed listener
\* that nobody removed finds its callback while the connection is up, and what
\* the user did not remove is not ended (websocket.cpp:133-156, 284-303).
THEOREM SubscriberFollows ==
  ASSUME AwaitsConfirmation
  PROVE  SubscriberSpec => [](ConfirmedListenerReachable /\ OnlyRemovedEnd)
BY ImplementsSession, ReachableCorrect, OnlyRemovedCorrect, PTL

\* After removeAccountChangeListener returned, no notification finds the
\* callback, whatever the destructor and the read loop do (websocket.cpp:268).
THEOREM SubscriberForgets ==
  ASSUME AwaitsConfirmation
  PROVE  SubscriberSpec => RemovedNotLookedUp
BY ImplementsSession, NotLookedUpCorrect, PTL

\* A subscriber, from construction to destruction, keeps the promise of module
\* Listeners (solana.cpp:1089-1158).
THEOREM SubscriberImplementsPromise ==
  ASSUME AwaitsConfirmation
  PROVE  SubscriberSpec => ImplementsListeners
BY ImplementsSession, ImplementsPromise, PTL

----------------------------------------------------------------------------
(* The safety of Lifecycle, for any messages on their way: what the        *)
(* destructor leaves behind, and what a constructor that did not time out  *)
(* hands to the user.                                                      *)

\* on_handshake has raised the flag
FlagRaised == {"connected", "promised", "read"}

\* How far the stream is where the read thread is.
StreamFollows ==
  /\ io \in {"resolve", "connect"} => stream = "closed"
  /\ io = "handshake" => stream \in {"handshake", "down"}
  /\ io \in {"handshaken"} \cup FlagRaised => stream \in {"open", "closing", "down"}
  /\ io = "returned" => stream \in {"closed", "closing", "down"}
  /\ io = "ended" => stream \in {"closed", "down"}

\* Only disconnect lowers the flag, and it starts to close an open stream.
FlagFollows ==
  /\ io \in FlagRaised /\ ~is_connected => stream # "open"
  /\ io \in FlagRaised /\ user \in {"waiting", "using"} => is_connected
  /\ promise /\ user \in {"waiting", "using"} => is_connected

UserFollows ==
  /\ user = "using" /\ ~timed_out => promise
  /\ user = "destroyed" => io = "ended"

LifeInv == Life!TypeOK /\ StreamFollows /\ FlagFollows /\ UserFollows

\* the constructor starts in the invariant
LEMMA LifeInitInv == Life!Init => LifeInv
<1> SUFFICES ASSUME Life!Init
             PROVE  LifeInv
    OBVIOUS
<1>1. /\ user = "waiting" /\ timed_out = FALSE /\ promise = FALSE
      /\ is_connected = FALSE /\ io = "resolve" /\ stream = "closed" /\ Len(to_client) = 0
      BY DEF Life!Init
<1>2. Life!TypeOK
  <2> DEFINE unread == Len(to_client)
  <2>1. unread \in Nat
        BY <1>1
  <2> HIDE DEF unread
  <2>2. user \in Life!UserStates /\ io \in Life!IoStates /\ stream \in Life!StreamStates
        BY <1>1 DEF Life!UserStates, Life!IoStates, Life!StreamStates
  <2>3. timed_out \in BOOLEAN /\ promise \in BOOLEAN /\ is_connected \in BOOLEAN
        BY <1>1
  <2>4. QED
        BY <2>1, <2>2, <2>3, Zenon DEF Life!TypeOK, unread
<1>3. StreamFollows /\ io \notin FlagRaised
      BY <1>1 DEF StreamFollows, FlagRaised
<1>4. ~promise /\ user \notin {"using", "destroyed"}
      BY <1>1
<1>5. FlagFollows /\ UserFollows
      BY <1>3, <1>4 DEF FlagFollows, UserFollows
<1> QED BY <1>2, <1>3, <1>5 DEF LifeInv

\* The user's thread keeps the invariant.
LEMMA LifeUserInv ==
  ASSUME LifeInv, Life!WaitReady \/ Life!WaitTimesOut \/ Life!EarlyWrite \/ Life!Disconnect \/ Life!Join
  PROVE  LifeInv'
<1> USE DEF LifeInv, Life!TypeOK, Life!UserStates, Life!IoStates, Life!StreamStates, StreamFollows,
            FlagFollows, UserFollows, FlagRaised, Life!userVars, Life!netVars
<1>1. CASE Life!WaitReady
      BY <1>1 DEF Life!WaitReady
<1>2. CASE Life!WaitTimesOut
      BY <1>2 DEF Life!WaitTimesOut
<1>3. CASE Life!Disconnect
      BY <1>3 DEF Life!Disconnect, Life!AsyncClose
<1>4. CASE Life!Join
      BY <1>4 DEF Life!Join
<1>5. CASE Life!EarlyWrite
      BY <1>5 DEF Life!EarlyWrite
<1> QED BY <1>1, <1>2, <1>3, <1>4, <1>5

\* Every handler of the read thread keeps the invariant.
LEMMA LifeIoInv ==
  ASSUME LifeInv, Life!IoStep
  PROVE  LifeInv'
<1> USE DEF LifeInv, Life!TypeOK, Life!UserStates, Life!IoStates, Life!StreamStates, StreamFollows,
            FlagFollows, UserFollows, FlagRaised, Life!userVars, Life!netVars
<1>1. CASE Life!OnResolve
      BY <1>1 DEF Life!OnResolve
<1>2. CASE Life!OnConnect
      BY <1>2 DEF Life!OnConnect
<1>3. CASE Life!HandshakeSucceeds
      BY <1>3 DEF Life!HandshakeSucceeds
<1>4. CASE Life!OnHandshake
      BY <1>4 DEF Life!OnHandshake
<1>5. CASE Life!OnHandshakeFails
      BY <1>5 DEF Life!OnHandshakeFails
<1>6. CASE Life!SetPromise
      BY <1>6 DEF Life!SetPromise
<1>7. CASE Life!StartRead
      BY <1>7 DEF Life!StartRead
<1>8. CASE Life!OnRead
      BY <1>8 DEF Life!OnRead
<1>9. CASE Life!OnReadFails
      BY <1>9 DEF Life!OnReadFails
<1>10. CASE Life!RunReturns
      BY <1>10 DEF Life!RunReturns
<1> QED BY <1>1, <1>2, <1>3, <1>4, <1>5, <1>6, <1>7, <1>8, <1>9, <1>10 DEF Life!IoStep

\* So do the server, the network and steps that change nothing.
LEMMA LifeNetInv ==
  ASSUME LifeInv, Life!ServerSends \/ Life!CloseCompletes \/ Life!ConnectionLost \/ UNCHANGED Life!vars
  PROVE  LifeInv'
<1> USE DEF LifeInv, Life!TypeOK, Life!UserStates, Life!IoStates, Life!StreamStates, StreamFollows,
            FlagFollows, UserFollows, FlagRaised, Life!userVars, Life!netVars
<1>1. CASE Life!ServerSends
      BY <1>1 DEF Life!ServerSends
<1>2. CASE Life!CloseCompletes
      BY <1>2 DEF Life!CloseCompletes
<1>3. CASE Life!ConnectionLost
      BY <1>3 DEF Life!ConnectionLost
<1>4. CASE UNCHANGED Life!vars
      BY <1>4 DEF Life!vars
<1> QED BY <1>1, <1>2, <1>3, <1>4

\* every step of the two threads and of the server keeps the invariant
LEMMA LifeStepInv == LifeInv /\ [Life!Next]_(Life!vars) => LifeInv'
BY LifeUserInv, LifeIoInv, LifeNetInv DEF Life!Next, Life!Terminated

\* The invariant holds in every state.
LEMMA LifeInductive == Life!Spec => []LifeInv
BY LifeInitInv, LifeStepInv, PTL DEF Life!Spec

\* Every variable of the two threads and of the stream keeps its type.
THEOREM LifeTypeCorrect == Life!Spec => []Life!TypeOK
<1>1. LifeInv => Life!TypeOK
      BY DEF LifeInv
<1> QED BY <1>1, LifeInductive, PTL

\* The destructor leaves no handler to run and no open connection behind
\* (solana.cpp:1102-1106, websocket.cpp:97-105).
THEOREM LifeNothingOutlives == Life!Spec => []Life!NothingOutlivesTheSubscriber
<1>1. LifeInv => Life!NothingOutlivesTheSubscriber
      BY DEF LifeInv, StreamFollows, UserFollows, Life!NothingOutlivesTheSubscriber
<1> QED BY <1>1, LifeInductive, PTL

\* A constructor that returned without complaint left a connected session
\* (solana.cpp:1096-1101, websocket.cpp:165-179).
THEOREM LifeReadyIsConnected == Life!Spec => []Life!ReadyMeansConnected
<1>1. LifeInv => Life!ReadyMeansConnected
      BY DEF LifeInv, FlagFollows, UserFollows, Life!ReadyMeansConnected
<1> QED BY <1>1, LifeInductive, PTL

----------------------------------------------------------------------------
(* What was proved of Lifecycle holds of the whole. *)

\* The destructor leaves no handler to run and no open connection behind,
\* whatever is being subscribed, removed or called (solana.cpp:1102-1106).
THEOREM NothingOutlives == SubscriberSpec => []NothingOutlivesTheSubscriber
BY ImplementsLifecycle, LifeNothingOutlives, PTL DEF NothingOutlivesTheSubscriber

\* A constructor that returned without complaint left a connected session,
\* whatever its user then does up to the destructor (solana.cpp:1094-1101).
THEOREM ReadyIsConnected == SubscriberSpec => []ReadyMeansConnected
BY ImplementsLifecycle, LifeReadyIsConnected, PTL DEF ReadyMeansConnected
=============================================================================
