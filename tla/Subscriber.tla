----------------------------- MODULE Subscriber -----------------------------
(***************************************************************************)
(* A WebSocketSubscriber as a whole: the protocol of module Session from   *)
(* construction to destruction.  Every step is one of Session, one of      *)
(* Lifecycle, or one of each at once.  The two share is_connected; the     *)
(* messages Lifecycle counts are the messages of Session, and the stream   *)
(* transfers messages while it is open or closing.                         *)
(***************************************************************************)
EXTENDS Session

CONSTANT MaxUnread   \* bound: messages the server has sent and nobody read

ASSUME UnreadAssumption == MaxUnread \in Nat

VARIABLES user, timed_out, promise, io, stream   \* as in Lifecycle

Life == INSTANCE Lifecycle WITH unread <- Len(to_client)

lifeVars == <<user, timed_out, promise, io, stream>>
subscriberVars == <<vars, lifeVars>>

SubscriberInit == Init /\ Life!Init

----------------------------------------------------------------------------
(* The user's thread. *)

\* the end of the constructor
Constructed == UNCHANGED vars /\ (Life!WaitReady \/ Life!WaitTimesOut)

\* onAccountChange and removeAccountChangeListener, once there is a subscriber
\* and until it is destroyed
Call ==
  /\ user = "using"
  /\ \/ \E acct \in Accounts : Subscribe(acct)
     \/ \E id \in Returned : Unsubscribe(id) \/ UnsubscribeUnknown(id)
  /\ UNCHANGED lifeVars

\* The rest of the two calls.  A stream that is not open makes a write throw; a
\* write amid the handshake may also pass, and may be fatal to the handshake.
CallGoesOn ==
  LET succeeds == writer.at = "subscribe_write" /\ writer'.at = "subscribe_return" IN
  /\ WriterStep
  /\ succeeds /\ reader = Connecting => stream = "handshake"
  /\ \/ UNCHANGED lifeVars
     \/ succeeds /\ Life!EarlyWrite

\* the destructor
DestructorDisconnects == Disconnect /\ Life!Disconnect
DestructorJoins == UNCHANGED vars /\ Life!Join

\* what the user's thread does of itself
UserThread == Constructed \/ CallGoesOn \/ DestructorJoins

----------------------------------------------------------------------------
(* The read thread. *)

\* the chain of handlers up to the first read
Connect ==
  \/ UNCHANGED vars /\ (Life!OnResolve \/ Life!OnConnect) /\ io' # "returned"
  \/ ConnectFails /\ (Life!OnResolve \/ Life!OnConnect \/ Life!OnHandshakeFails) /\ io' = "returned"
  \/ HandshakeSucceeds /\ Life!HandshakeSucceeds
  \/ OnHandshake /\ Life!OnHandshake
  \/ UNCHANGED vars /\ (Life!SetPromise \/ Life!StartRead)

\* a read completes
Read == (ReadMessage /\ Life!OnRead) \/ (ReadFails /\ Life!OnReadFails)

\* the rest of on_read
Handle ==
  /\ \/ DispatchUnsubscribed \/ DispatchSubscribed
     \/ DispatchError \/ DispatchNotification
     \/ GetCallback \/ GetCallbackNone \/ RunCallback
  /\ UNCHANGED lifeVars

ReadThread == Connect \/ Read \/ Handle \/ (UNCHANGED vars /\ Life!RunReturns)

----------------------------------------------------------------------------
(* The server and the network, external. *)

ServerAnswers == ServerStep /\ Life!ServerSends
AccountChanges == (\E ws \in live : ServerNotifies(ws)) /\ Life!ServerSends
CloseCompletes == Cut /\ Life!CloseCompletes
ConnectionLost == Cut /\ Life!ConnectionLost

Destroyed == user = "destroyed" /\ UNCHANGED subscriberVars

----------------------------------------------------------------------------
SubscriberNext ==
  \/ UserThread \/ Call \/ DestructorDisconnects
  \/ ReadThread
  \/ ServerAnswers \/ AccountChanges \/ CloseCompletes \/ ConnectionLost
  \/ Destroyed

\* A thread that can run does run, the server answers, the wait of the
\* constructor is bounded, and a closing handshake ends (beast's suggested
\* timeout bounds it).  The user need not call anything, accounts need not
\* change and the network need not fail.
SubscriberSpec ==
  /\ SubscriberInit /\ [][SubscriberNext]_subscriberVars
  /\ WF_subscriberVars(UserThread) /\ WF_subscriberVars(ReadThread)
  /\ WF_subscriberVars(ServerAnswers) /\ WF_subscriberVars(CloseCompletes)

----------------------------------------------------------------------------
\* When the subscriber, which owns the io_context, is destroyed, no handler is
\* left to run and the connection is not left open (solana.cpp:1102-1106).
NothingOutlivesTheSubscriber == Life!NothingOutlivesTheSubscriber

\* A constructor that returned without complaint left a connected session, up
\* to the call of disconnect (solana.cpp:1094-1101).
ReadyMeansConnected == Life!ReadyMeansConnected

\* The destructor of a subscriber that was connected in time returns, whatever
\* the read loop is doing and whatever is still on its way (solana.cpp:1105).
DestructorReturnsIfReady == Life!DestructorReturnsIfReady
=============================================================================
