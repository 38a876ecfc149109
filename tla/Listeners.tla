----------------------------- MODULE Listeners -----------------------------
(***************************************************************************)
(* What WebSocketSubscriber promises to a user who waits for on_subscribe  *)
(* before removing a listener, told without ids of the server, maps,       *)
(* messages or locks: the order in which the three callbacks of a listener *)
(* run, that they run one at a time, and what data they are given.         *)
(***************************************************************************)
CONSTANTS Accounts, Ids

VARIABLES
  asked,      \* listeners registered so far -> their account
  removed,    \* listeners the user removed
  confirmed,  \* listeners whose on_subscribe ran
  finished,   \* listeners whose on_unsubscribe ran
  running     \* the callback that is running, or None

lvars == <<asked, removed, confirmed, finished, running>>

None == [event |-> "none"]

Init ==
  /\ asked = [x \in {} |-> x]
  /\ removed = {} /\ confirmed = {} /\ finished = {}
  /\ running = None

\* a listener is registered, under an id never used before
Register(id, acct) ==
  /\ id \notin DOMAIN asked
  /\ asked' = [x \in DOMAIN asked \cup {id} |-> IF x = id THEN acct ELSE asked[x]]
  /\ UNCHANGED <<removed, confirmed, finished, running>>

\* only a confirmed listener is removed
Remove(id) ==
  /\ id \in confirmed
  /\ removed' = removed \cup {id}
  /\ UNCHANGED <<asked, confirmed, finished, running>>

\* a callback of listener id starts, with data about its own account
Start(event, id) ==
  /\ running = None
  /\ id \in DOMAIN asked
  /\ running' = [event |-> event, id |-> id,
                 acct |-> asked[id], data |-> asked[id]]
  /\ UNCHANGED <<asked, removed, confirmed, finished>>

StartOnSubscribe(id)   == id \notin confirmed /\ Start("on_subscribe", id)
StartCb(id)            == id \in confirmed \ finished /\ Start("cb", id)
StartOnUnsubscribe(id) ==
  id \in (confirmed \cap removed) \ finished /\ Start("on_unsubscribe", id)

\* the running callback returns
Return ==
  /\ running # None
  /\ confirmed' =
       confirmed \cup {i \in {running.id} : running.event = "on_subscribe"}
  /\ finished' =
       finished \cup {i \in {running.id} : running.event = "on_unsubscribe"}
  /\ running' = None
  /\ UNCHANGED <<asked, removed>>

Next ==
  \/ \E id \in Ids :
       \/ \E acct \in Accounts : Register(id, acct)
       \/ Remove(id) \/ StartOnSubscribe(id) \/ StartCb(id)
       \/ StartOnUnsubscribe(id)
  \/ Return

Spec == Init /\ [][Next]_lvars
=============================================================================
