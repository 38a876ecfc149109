----------------------------- MODULE Lifecycle -----------------------------
(***************************************************************************)
(* The life of a WebSocketSubscriber (lib/solana.cpp) and its session      *)
(* (lib/websocket.cpp): construction, the chain of asynchronous operations *)
(* resolve, connect, handshake, read, and destruction.  The user's thread  *)
(* constructs, uses and destroys the subscriber; the read thread runs the  *)
(* io_context, hence every on_... handler.  What the messages mean is the  *)
(* subject of module Session; here they are only counted.                  *)
(***************************************************************************)
EXTENDS Naturals

CONSTANT MaxUnread   \* bound: messages sent by the server and not yet read

VARIABLES
  user,          \* where the user's thread is
  timed_out,     \* wait_for in the constructor gave up
  promise,       \* handshake_promise has its value
  is_connected,  \* session::is_connected
  io,            \* where the read thread is
  stream,        \* status of the websocket stream (external)
  unread         \* messages waiting to be read (external)

vars == <<user, timed_out, promise, is_connected, io, stream, unread>>
userVars == <<user, timed_out>>
netVars == <<stream, unread>>

\* "waiting" and "using" are the constructor and the time after it, "joining"
\* is the destructor after disconnect
UserStates == {"waiting", "using", "joining", "destroyed"}

\* the operation the read thread waits for; "handshaken", "connected" and
\* "promised" are in on_handshake before each of its three effects,
\* "returned" is past the last read, "ended" is past io_context::run
IoStates == {"resolve", "connect", "handshake", "handshaken", "connected",
             "promised", "read", "returned", "ended"}

StreamStates == {"closed", "handshake", "open", "closing", "down"}

Init ==
  /\ user = "waiting" /\ timed_out = FALSE
  /\ promise = FALSE
  /\ is_connected = FALSE
  /\ io = "resolve"
  /\ stream = "closed" /\ unread = 0

----------------------------------------------------------------------------
(* The user's thread. *)

\* the constructor's wait_for sees the promise
WaitReady ==
  /\ user = "waiting"
  /\ promise
  /\ user' = "using"
  /\ UNCHANGED <<timed_out, promise, is_connected, io, netVars>>

\* wait_for times out: a line is logged and the constructor returns as usual.
\* The name lookup has no timer and the connect timer starts after it, so the
\* wait can end in any state of the chain.
WaitTimesOut ==
  /\ user = "waiting"
  /\ ~promise
  /\ user' = "using"
  /\ timed_out' = TRUE
  /\ UNCHANGED <<promise, is_connected, io, netVars>>

\* A message written amid the handshake, which a user may do whose constructor
\* timed out: beast does not allow it, and the handshake may be lost.
EarlyWrite ==
  /\ user = "using"
  /\ stream = "handshake"
  /\ stream' = "down"
  /\ UNCHANGED <<userVars, promise, is_connected, io, unread>>

\* broken: close leaves an open stream open
AsyncCloseIgnored == UNCHANGED stream

\* what async_close does to the stream: it starts the closing handshake of an
\* open stream and is aborted when there is nothing to close; before the end of
\* the opening handshake its precondition does not hold, and it is either
\* without effect or fatal to the handshake
AsyncClose ==
  \/ stream = "open" /\ stream' = "closing"
  \/ stream = "handshake" /\ stream' \in {"handshake", "down"}
  \/ stream \in {"closed", "down"} /\ UNCHANGED stream

\* ~WebSocketSubscriber: session::disconnect
Disconnect ==
  /\ user = "using"
  /\ user' = "joining"
  /\ is_connected' = FALSE
  /\ AsyncClose
  /\ UNCHANGED <<timed_out, promise, io, unread>>

\* broken: the destructor does not join
JoinMissing ==
  /\ user = "joining"
  /\ user' = "destroyed"
  /\ UNCHANGED <<timed_out, promise, is_connected, io, netVars>>

\* read_thread.join() returns and the io_context and the session are destroyed
Join ==
  /\ user = "joining"
  /\ io = "ended"
  /\ user' = "destroyed"
  /\ UNCHANGED <<timed_out, promise, is_connected, io, netVars>>

----------------------------------------------------------------------------
(* The read thread. *)

OnResolve ==
  /\ io = "resolve"
  /\ io' \in {"connect", "returned"}
  /\ UNCHANGED <<userVars, promise, is_connected, netVars>>

OnConnect ==
  /\ io = "connect"
  /\ \/ io' = "handshake" /\ stream' = "handshake"
     \/ io' = "returned" /\ UNCHANGED stream
  /\ UNCHANGED <<userVars, promise, is_connected, unread>>

\* broken: the promise is set before the flag is raised
HandshakeSucceedsEarlyPromise ==
  /\ io = "handshake"
  /\ stream = "handshake"
  /\ io' = "handshaken"
  /\ stream' = "open"
  /\ promise' = TRUE
  /\ UNCHANGED <<userVars, is_connected, unread>>

\* the handshake succeeded: the stream is open before the handler runs ...
HandshakeSucceeds ==
  /\ io = "handshake"
  /\ stream = "handshake"
  /\ io' = "handshaken"
  /\ stream' = "open"
  /\ UNCHANGED <<userVars, promise, is_connected, unread>>

\* ... and on_handshake raises the flag whatever happened before
OnHandshake ==
  /\ io = "handshaken"
  /\ io' = "connected"
  /\ is_connected' = TRUE
  /\ UNCHANGED <<userVars, promise, netVars>>

\* it failed: the promise is never set
OnHandshakeFails ==
  /\ io = "handshake"
  /\ io' = "returned"
  /\ stream' = "down"
  /\ UNCHANGED <<userVars, promise, is_connected, unread>>

\* handshake_promise->set_value() releases the constructor ...
SetPromise ==
  /\ io = "connected"
  /\ promise' = TRUE
  /\ io' = "promised"
  /\ UNCHANGED <<userVars, is_connected, netVars>>

\* ... before the first read is started
StartRead ==
  /\ io = "promised"
  /\ io' = "read"
  /\ UNCHANGED <<userVars, promise, is_connected, netVars>>

\* a message arrives: the loop goes on unless disconnect was called
OnRead ==
  /\ io = "read"
  /\ unread > 0
  /\ unread' = unread - 1
  /\ io' = IF is_connected THEN "read" ELSE "returned"
  /\ UNCHANGED <<userVars, promise, is_connected, stream>>

\* the read fails once everything has been read
OnReadFails ==
  /\ io = "read"
  /\ unread = 0 /\ stream = "down"
  /\ io' = "returned"
  /\ UNCHANGED <<userVars, promise, is_connected, netVars>>

\* io_context::run returns when no operation is outstanding, the closing
\* handshake included
RunReturns ==
  /\ io = "returned"
  /\ stream # "closing"
  /\ io' = "ended"
  /\ UNCHANGED <<userVars, promise, is_connected, netVars>>

----------------------------------------------------------------------------
(* The server and the network, external. *)

ServerSends ==
  /\ stream \in {"open", "closing"}
  /\ unread < MaxUnread
  /\ unread' = unread + 1
  /\ UNCHANGED <<userVars, promise, is_connected, io, stream>>

\* The closing handshake ends, by the server's answer or by its timer; what was
\* not read may be lost.
CloseCompletes ==
  /\ stream = "closing"
  /\ stream' = "down"
  /\ unread' \in 0 .. unread
  /\ UNCHANGED <<userVars, promise, is_connected, io>>

\* the server or the network goes away
ConnectionLost ==
  /\ stream = "open"
  /\ stream' = "down"
  /\ unread' \in 0 .. unread
  /\ UNCHANGED <<userVars, promise, is_connected, io>>

Terminated == user = "destroyed" /\ UNCHANGED vars

----------------------------------------------------------------------------
IoStep ==
  \/ OnResolve \/ OnConnect
  \/ HandshakeSucceeds \/ OnHandshake \/ OnHandshakeFails
  \/ SetPromise \/ StartRead \/ OnRead \/ OnReadFails \/ RunReturns

Next ==
  \/ WaitReady \/ WaitTimesOut \/ EarlyWrite \/ Disconnect \/ Join
  \/ IoStep
  \/ ServerSends \/ CloseCompletes \/ ConnectionLost
  \/ Terminated

Spec == Init /\ [][Next]_vars

\* The wait of the constructor is bounded, every operation of the chain has an
\* outcome (connect and both handshakes have timers, the name lookup those of
\* the operating system), and join returns when the thread has ended.  The user
\* may keep the subscriber for ever, and nothing makes the server go away.
FairSpec ==
  Spec /\ WF_vars(WaitReady \/ WaitTimesOut) /\ WF_vars(Join)
       /\ WF_vars(IoStep) /\ WF_vars(CloseCompletes)

----------------------------------------------------------------------------
\* Every variable keeps its type; the number of unread messages never falls
\* below zero.
TypeOK ==
  /\ user \in UserStates /\ timed_out \in BOOLEAN
  /\ promise \in BOOLEAN /\ is_connected \in BOOLEAN
  /\ io \in IoStates
  /\ stream \in StreamStates /\ unread \in Nat

\* When the subscriber, which owns the io_context, is destroyed, no handler is
\* left to run and the connection is not left open.
NothingOutlivesTheSubscriber ==
  user = "destroyed" => io = "ended" /\ stream \in {"closed", "down"}

\* A constructor that returned without complaint left a connected session, up
\* to the call of disconnect.
ReadyMeansConnected == user = "using" /\ ~timed_out => promise /\ is_connected

\* The destructor of a subscriber that was connected in time returns.
DestructorReturnsIfReady ==
  (user = "joining" /\ ~timed_out) ~> (user = "destroyed")

\* The destructor returns ("disconnect the session and wait for the threads to
\* complete", solana.cpp:1103).
DestructorReturns == (user = "joining") ~> (user = "destroyed")
=============================================================================
