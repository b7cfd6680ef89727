------------------------ MODULE NotificationConnection ------------------------
(***************************************************************************)
(* connect() of the notification service and main() around it.  Each       *)
(* attempt puts a close handler that calls connect() again on a            *)
(* connection, while a call whose set-up has failed goes on by itself.  So *)
(* several calls may run at once, and they share the module variables: the *)
(* retry counter, the channel, which each of them reads again before every *)
(* set-up command, and the connection, which each of them reads again when *)
(* it puts the handlers on.                                                *)
(*                                                                         *)
(* A handler is the call of connect() it will make: a member of Loop that  *)
(* is "armed" on its connection until that connection closes.              *)
(*                                                                         *)
(* Operators carry the prefix Link: MCServices puts this module beside     *)
(* others.                                                                 *)
(***************************************************************************)
EXTENDS Naturals, FiniteSets

CONSTANTS Loop,      \* calls of connect() that may be under way or armed together
          MainLoop,  \* the one that main() awaits
          Conn,      \* AMQP connections that may be open together
          NoConn,    \* null
          Stale,     \* a connection that has closed and that a variable still holds
          MaxTries,  \* config.rabbitmq.maxRetries
          MaxLost    \* bound: lost connections and failed set-up commands

ASSUME LinkAssumption ==
    /\ MainLoop \in Loop /\ Loop \subseteq Nat /\ IsFiniteSet(Loop)
    /\ NoConn \notin Conn /\ Stale \notin Conn \cup {NoConn} /\ IsFiniteSet(Conn)
    /\ MaxTries \in Nat \ {0}
    /\ MaxLost \in Nat

VARIABLES
    service,     \* main(): "starting", "listening", "serving"; "down"
    at,          \* what each call of connect() awaits
    own,         \* the connection it has opened in this attempt, or is armed on
    on,          \* the connection whose channel it has sent a command on
    open,        \* the connections that are open
    broken,      \* connections whose channel the broker has closed
    connection,  \* connection
    channel,     \* channel, by its connection
    tries,       \* retryCount
    lost,        \* faults so far
    spent,       \* history: has retryCount reached its maximum since the start?
    splits,      \* history: attempts that failed, or lost their connection, midway
    strays       \* history: handlers put on the connection of another attempt

linkVars == <<service, at, own, on, open, broken, connection, channel, tries,
              lost, spent, splits, strays>>

\* The commands of an attempt behind createChannel.
SetUp == {"exchange", "queue", "bind", "prefetch"}
LinkAt == {"off", "armed", "connect", "open", "failed", "wait"} \cup SetUp

FirstState(state) ==
    /\ service' = state
    /\ at' = [l \in Loop |-> IF l = MainLoop /\ state = "starting" THEN "connect" ELSE "off"]
    /\ own' = [l \in Loop |-> NoConn]
    /\ on' = [l \in Loop |-> NoConn]
    /\ open' = {}
    /\ broken' = {}
    /\ connection' = NoConn
    /\ channel' = NoConn
    /\ tries' = 0
    /\ spent' = FALSE
    /\ splits' = 0
    /\ strays' = 0

LinkInit ==
    /\ service = "starting"
    /\ at = [l \in Loop |-> IF l = MainLoop THEN "connect" ELSE "off"]
    /\ own = [l \in Loop |-> NoConn]
    /\ on = [l \in Loop |-> NoConn]
    /\ open = {}
    /\ broken = {}
    /\ connection = NoConn
    /\ channel = NoConn
    /\ tries = 0
    /\ lost = 0
    /\ spent = FALSE
    /\ splits = 0
    /\ strays = 0

Armed == {l \in Loop : at[l] = "armed"}
Running == {l \in Loop : at[l] \notin {"off", "armed"}}
Spare == Loop \ (Running \cup Armed \cup {MainLoop})

-----------------------------------------------------------------------------
(* The loop *)

LinkConnects(l, c) ==
    /\ at[l] = "connect"
    /\ c \notin open
    /\ open' = open \cup {c}
    /\ connection' = c
    /\ own' = [own EXCEPT ![l] = c]
    /\ at' = [at EXCEPT ![l] = "open"]
    /\ UNCHANGED <<service, on, broken, channel, tries, lost, spent, splits, strays>>

\* The attempts of these calls fail; what they have opened stays open.
Fail(calls) ==
    /\ at' = [l \in Loop |-> IF l \in calls THEN "failed" ELSE at[l]]
    /\ on' = [l \in Loop |-> IF l \in calls THEN NoConn ELSE on[l]]
    /\ own' = [l \in Loop |-> IF l \in calls THEN NoConn ELSE own[l]]
    /\ splits' = splits + Cardinality(calls)

\* A slip: the handler of the channel's close reconnects like the connection's.
HandlersOfCloseTwo == 2
HandlersOfClose == 1

\* createChannel answers.  The handlers go on whatever connection the variable
\* holds now: on null that throws, and a closed connection never calls them.
\* The calls they will make are alike, and take the first members of Loop.
LinkOpens(l) ==
    /\ at[l] = "open"
    /\ channel' = own[l]
    /\ \/ /\ connection = NoConn
          /\ Fail({l})
          /\ UNCHANGED strays
       \/ /\ connection # NoConn
          /\ \E new \in SUBSET Spare :
               /\ Cardinality(new) = IF connection = Stale THEN 0 ELSE HandlersOfClose
               /\ \A k \in new, m \in Spare \ new : k < m
               /\ at' = [k \in Loop |-> IF k = l THEN "exchange"
                                        ELSE IF k \in new THEN "armed" ELSE at[k]]
               /\ own' = [k \in Loop |-> IF k \in new THEN connection ELSE own[k]]
          /\ on' = [on EXCEPT ![l] = own[l]]
          /\ strays' = IF connection \in {own[l], Stale} THEN strays ELSE strays + 1
          /\ UNCHANGED splits
    /\ UNCHANGED <<service, open, broken, connection, tries, lost, spent>>

\* The command that goes out next, on whatever channel the variable holds now;
\* without an open one the call throws.
Send(l, next) ==
    \/ /\ channel \in open \ broken
       /\ at' = [at EXCEPT ![l] = next]
       /\ on' = [on EXCEPT ![l] = channel]
       /\ UNCHANGED <<own, splits>>
    \/ /\ channel \notin open \ broken
       /\ Fail({l})

\* connect() returns: main() goes on to the health server.
Returns(l) ==
    /\ at' = [at EXCEPT ![l] = "off"]
    /\ service' = IF l = MainLoop THEN "listening" ELSE service

LinkReplies(l) ==
    /\ at[l] \in SetUp
    /\ \/ at[l] = "exchange" /\ Send(l, "queue") /\ UNCHANGED <<service, tries>>
       \/ at[l] = "queue" /\ Send(l, "bind") /\ UNCHANGED <<service, tries>>
       \/ at[l] = "bind" /\ Send(l, "prefetch") /\ UNCHANGED <<service, tries>>
       \/ /\ at[l] = "prefetch"
          /\ Returns(l)
          /\ tries' = 0
          /\ own' = [own EXCEPT ![l] = NoConn]
          /\ on' = [on EXCEPT ![l] = NoConn]
          /\ UNCHANGED splits
    /\ UNCHANGED <<open, broken, connection, channel, lost, spent, strays>>

\* A slip: the last try is not made.
GivesUpEarly(n) == n + 1 >= MaxTries
GivesUp(n) == n >= MaxTries

\* The catch block, of an attempt that failed or of amqp.connect().  Thrown out
\* of a close handler the error is only logged; main() exits on it.
LinkCatches(l) ==
    /\ at[l] \in {"connect", "failed"}
    /\ \/ /\ GivesUp(tries + 1) /\ l = MainLoop
          /\ FirstState("down")
       \/ /\ ~(GivesUp(tries + 1) /\ l = MainLoop)
          /\ tries' = tries + 1
          /\ spent' = (spent \/ tries + 1 >= MaxTries)
          /\ at' = [at EXCEPT ![l] = IF GivesUp(tries + 1) THEN "off" ELSE "wait"]
          /\ UNCHANGED <<service, own, on, open, broken, connection, channel, splits, strays>>
    /\ UNCHANGED lost

\* setTimeout is over and the condition of the loop is read: if other calls
\* have used the counter up meanwhile, connect() returns without an error.
LinkWakes(l) ==
    /\ at[l] = "wait"
    /\ IF tries < MaxTries
       THEN at' = [at EXCEPT ![l] = "connect"] /\ UNCHANGED service
       ELSE Returns(l)
    /\ UNCHANGED <<own, on, open, broken, connection, channel, tries, lost, spent,
                   splits, strays>>

-----------------------------------------------------------------------------
(* main() *)

\* startHealthServer is over.  startConsumers throws without a channel.
LinkConsumes ==
    /\ service = "listening"
    /\ \/ channel = NoConn /\ FirstState("down")
       \/ /\ channel # NoConn
          /\ service' = "serving"
          /\ UNCHANGED <<at, own, on, open, broken, connection, channel, tries, spent,
                         splits, strays>>
    /\ UNCHANGED lost

LinkRestarts ==
    /\ service = "down"
    /\ FirstState("starting")
    /\ UNCHANGED lost

-----------------------------------------------------------------------------
(* Faults *)

\* c is closed: what was sent on it fails, and each close handler on it clears
\* the variables, whosever they are by now, and calls connect().
LinkCloses(c) ==
    LET hit == {l \in Loop : on[l] = c \/ (at[l] = "open" /\ own[l] = c)}
        heard == {l \in Armed : own[l] = c}
        After(held) == IF heard # {} THEN NoConn ELSE IF held = c THEN Stale ELSE held
    IN /\ open' = open \ {c}
       /\ broken' = broken \ {c}
       /\ connection' = After(connection)
       /\ channel' = After(channel)
       /\ at' = [l \in Loop |-> IF l \in hit THEN "failed"
                                ELSE IF l \notin heard THEN at[l]
                                ELSE IF tries < MaxTries THEN "connect" ELSE "off"]
       /\ on' = [l \in Loop |-> IF l \in hit THEN NoConn ELSE on[l]]
       /\ own' = [l \in Loop |-> IF l \in hit \/ own[l] = c THEN NoConn ELSE own[l]]
       /\ splits' = splits + Cardinality({l \in Loop : at[l] \in SetUp /\ c \in {on[l], own[l]}})
       /\ UNCHANGED <<tries, spent, strays>>

\* Without an error handler the 'error' that may come before the 'close' is an
\* uncaught exception, after which main() shuts down: LinkExits.
LinkLost(c) ==
    /\ c \in open
    /\ lost < MaxLost
    /\ lost' = lost + 1
    /\ LinkCloses(c)
    /\ UNCHANGED service

\* The broker refuses a command and closes its channel; the connection stays.
LinkRefused(l) ==
    /\ at[l] \in SetUp \cup {"open"}
    /\ lost < MaxLost
    /\ lost' = lost + 1
    /\ Fail({k \in Loop : k = l \/ (at[l] \in SetUp /\ on[k] = on[l])})
    /\ broken' = IF at[l] = "open" THEN broken ELSE broken \cup {on[l]}
    /\ UNCHANGED <<service, open, connection, channel, tries, spent, strays>>

\* SIGTERM, or an uncaught exception.  What a close handler begins while
\* close() waits ends with the process.
LinkExits ==
    /\ service # "down"
    /\ FirstState("down")
    /\ UNCHANGED lost

LinkNext ==
    \/ \E l \in Loop : \/ \E c \in Conn : LinkConnects(l, c)
                       \/ LinkOpens(l) \/ LinkReplies(l) \/ LinkCatches(l) \/ LinkWakes(l)
                       \/ LinkRefused(l)
    \/ \E c \in Conn : LinkLost(c)
    \/ LinkConsumes \/ LinkExits \/ LinkRestarts

LinkSpec == LinkInit /\ [][LinkNext]_linkVars

-----------------------------------------------------------------------------

LinkTypeOK ==
    /\ service \in {"starting", "listening", "serving", "down"}
    /\ at \in [Loop -> LinkAt]
    /\ own \in [Loop -> Conn \cup {NoConn}]
    /\ on \in [Loop -> Conn \cup {NoConn}]
    /\ open \subseteq Conn
    /\ broken \subseteq Conn
    /\ connection \in Conn \cup {NoConn, Stale}
    /\ channel \in Conn \cup {NoConn, Stale}
    /\ tries \in Nat
    /\ lost \in 0 .. MaxLost
    /\ spent \in BOOLEAN
    /\ splits \in Nat
    /\ strays \in Nat

\* Connections that no call of connect() is at work on.
Loose == {c \in open : \A l \in Running : own[l] # c}

\* Reconnecting does not multiply.  Close handlers and calls that have still to
\* put one on are never more than one and the attempts that went wrong midway;
\* calls under way and connections left open, no more than that and the
\* handlers that went on the connection of another attempt.
ConnectionsBounded ==
    /\ Cardinality(Armed) + Cardinality({l \in Running : at[l] \notin SetUp}) <= 1 + splits
    /\ Cardinality(Running) + Cardinality(Loose) <= 1 + splits + strays

\* While the service runs, some connection has a close handler or some call is
\* after one, unless the retries were used up in the meantime; whoever used
\* them up.
NotGivenUpEarly ==
    service # "down" /\ Running = {} /\ Armed = {} => spent
=============================================================================
