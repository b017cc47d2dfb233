------------------------------ MODULE WsClient ------------------------------
(***************************************************************************)
(* The web-socket client (ws/client.go, ws/rpc.go): connecting to the      *)
(* node, reading its messages into the channel of the message goroutine,   *)
(* reconnecting when the connection breaks, and submitting shares.         *)
(*                                                                         *)
(* socket.Conn is one pointer that everybody shares and nobody guards: a   *)
(* dial overwrites it, with nil if it fails.  An agent stands for one      *)
(* goroutine after another: a connecting one ends where it starts a        *)
(* reader, a reader ends where it starts a connecting one.  A close frame  *)
(* of the node starts one more agent per handler that hears of it.         *)
(*                                                                         *)
(* Messages are numbered in the order in which the node sends them, to     *)
(* every connection it has.  Pings, and what the messages say, are left    *)
(* out.  Close() is never called.                                          *)
(***************************************************************************)
EXTENDS Integers, Sequences, FiniteSets

CONSTANTS
    Agents,       \* bound: goroutines that connect or read
    First,        \* the one of NewClient
    Submitters,   \* connection goroutines that submit a share
    ChanCap,      \* capacity of msgChan (512)
    MaxConns,     \* bound: connections made
    MaxMessages,  \* bound: messages of the node
    MaxBreaks,    \* bound: connections that break without a close frame
    MaxCloses,    \* bound: close frames of the node
    MaxRefusals   \* bound: dials that fail

ASSUME FirstAssumption == First \in Agents
ASSUME CapAssumption == ChanCap \in Nat \ {0}
ASSUME ConnsAssumption == MaxConns \in Nat

VARIABLES
    Conn,         \* socket.Conn: a connection, 0 for nil
    IsConnected,  \* socket.IsConnected
    at,           \* where each agent is
    using,        \* the connection a reader reads, or the message it has read
    handlers,     \* close handlers of each connection that start a reconnect
    msgChan,      \* the channel
    submit,       \* where each submitter is
    crashed,      \* who dereferenced nil, which stops the process
    dialled, open, inbox,    \* the node: connections made, alive, and what is under way
    sent, breaks, closes,    \* its messages, broken connections and close frames so far
    refusals,     \* dials that failed so far
    handled,      \* history: the message the message goroutine took last
    ordered       \* history: it took them all in order

clientVars == <<Conn, IsConnected, handlers>>
agentVars == <<at, using>>
nodeVars == <<dialled, open, inbox, sent, breaks, closes>>
historyVars == <<handled, ordered>>
wsVars == <<clientVars, agentVars, msgChan, submit, crashed, nodeVars, refusals, historyVars>>

Conns == 1..MaxConns
Bye == 0    \* a close frame

WsInit ==
    /\ Conn = 0 /\ IsConnected = FALSE
    /\ at = [a \in Agents |-> IF a = First THEN "dial" ELSE "none"]
    /\ using = [a \in Agents |-> 0]
    /\ handlers = [c \in Conns |-> 0]
    /\ msgChan = << >> /\ crashed = "nobody"
    /\ submit = [s \in Submitters |-> "idle"]
    /\ dialled = 0 /\ open = {} /\ inbox = [c \in Conns |-> << >>]
    /\ sent = 0 /\ breaks = 0 /\ closes = 0 /\ refusals = 0
    /\ handled = 0 /\ ordered = TRUE

Goes(a, step) == at' = [at EXCEPT ![a] = step]

-----------------------------------------------------------------------------
(* Connect *)

Dial(a) ==
    /\ at[a] = "dial" /\ dialled < MaxConns
    /\ dialled' = dialled + 1
    /\ open' = open \union {dialled'}
    /\ Conn' = dialled'
    /\ Goes(a, "announce")
    /\ UNCHANGED <<IsConnected, handlers, using, msgChan, submit, crashed, inbox, sent,
                   breaks, closes, refusals, historyVars>>

\* What Dial returns is assigned whether it is a connection or not.
DialFails(a) ==
    /\ at[a] = "dial" /\ refusals < MaxRefusals
    /\ refusals' = refusals + 1
    /\ Conn' = 0
    /\ Goes(a, "refused")
    /\ UNCHANGED <<IsConnected, handlers, using, msgChan, submit, crashed, nodeVars,
                   historyVars>>

\* OnConnectError: another attempt, after a second.
ConnectError(a) ==
    /\ at[a] = "refused"
    /\ IsConnected' = FALSE
    /\ Goes(a, "dial")
    /\ UNCHANGED <<Conn, handlers, using, msgChan, submit, crashed, nodeVars, refusals,
                   historyVars>>

Announce(a) ==
    /\ at[a] = "announce"
    /\ IsConnected' = TRUE
    /\ Goes(a, "install")
    /\ UNCHANGED <<Conn, handlers, using, msgChan, submit, crashed, nodeVars, refusals,
                   historyVars>>

\* The close handler wraps the one that is there, of whatever connection is
\* the current one by now, and the reader starts.
Install(a) ==
    /\ at[a] = "install"
    /\ IF Conn = 0
       THEN crashed' = "connect" /\ UNCHANGED <<handlers, at>>
       ELSE /\ handlers' = [handlers EXCEPT ![Conn] = @ + 1]
            /\ Goes(a, "want") /\ UNCHANGED crashed
    /\ UNCHANGED <<Conn, IsConnected, using, msgChan, submit, nodeVars, refusals, historyVars>>

-----------------------------------------------------------------------------
(* The reader *)

\* Mutant: receiveMu is not taken.
StartReadUnlocked(a) ==
    /\ at[a] = "want"
    /\ IF Conn = 0
       THEN crashed' = "reader" /\ UNCHANGED agentVars
       ELSE /\ using' = [using EXCEPT ![a] = Conn]
            /\ Goes(a, "read") /\ UNCHANGED crashed
    /\ UNCHANGED <<clientVars, msgChan, submit, nodeVars, refusals, historyVars>>

\* receiveMu is taken and the current connection read from, to the end of a
\* message or of the connection.
StartRead(a) ==
    /\ at[a] = "want" /\ \A b \in Agents : at[b] # "read"
    /\ IF Conn = 0
       THEN crashed' = "reader" /\ UNCHANGED agentVars
       ELSE /\ using' = [using EXCEPT ![a] = Conn]
            /\ Goes(a, "read") /\ UNCHANGED crashed
    /\ UNCHANGED <<clientVars, msgChan, submit, nodeVars, refusals, historyVars>>

Receive(a) ==
    LET c == using[a]
    IN  /\ at[a] = "read" /\ inbox[c] # << >> /\ Head(inbox[c]) # Bye
        /\ inbox' = [inbox EXCEPT ![c] = Tail(@)]
        /\ using' = [using EXCEPT ![a] = Head(inbox[c])]
        /\ Goes(a, "deliver")
        /\ UNCHANGED <<clientVars, msgChan, submit, crashed, dialled, open, sent, breaks,
                       closes, refusals, historyVars>>

\* Each close handler calls OnDisconnected, which starts a reconnect without
\* waiting a second; then the read returns an error.
ReceiveClose(a) ==
    LET c == using[a]
    IN  /\ at[a] = "read" /\ inbox[c] # << >> /\ Head(inbox[c]) = Bye
        /\ \E new \in SUBSET {b \in Agents : at[b] = "none"} :
              /\ Cardinality(new) = handlers[c]
              /\ at' = [b \in Agents |-> IF b = a THEN "failed"
                                         ELSE IF b \in new THEN "dial" ELSE at[b]]
        /\ IsConnected' = (IsConnected /\ handlers[c] = 0)
        /\ using' = [using EXCEPT ![a] = 0]
        /\ open' = open \ {c}
        /\ inbox' = [inbox EXCEPT ![c] = << >>]
        /\ UNCHANGED <<Conn, handlers, msgChan, submit, crashed, dialled, sent, breaks,
                       closes, refusals, historyVars>>

ReadError(a) ==
    LET c == using[a]
    IN  /\ at[a] = "read" /\ inbox[c] = << >> /\ c \notin open
        /\ using' = [using EXCEPT ![a] = 0]
        /\ Goes(a, "failed")
        /\ UNCHANGED <<clientVars, msgChan, submit, crashed, nodeVars, refusals, historyVars>>

\* Mutant: the reader goes on besides the reconnect it starts.
DisconnectedReadsOn(a) ==
    /\ at[a] = "failed"
    /\ IsConnected' = FALSE
    /\ \E b \in Agents : at[b] = "none" /\ at' = [at EXCEPT ![a] = "want", ![b] = "dial"]
    /\ UNCHANGED <<Conn, handlers, using, msgChan, submit, crashed, nodeVars, refusals,
                   historyVars>>

\* Mutant: no reconnect.
DisconnectedForGood(a) ==
    /\ at[a] = "failed"
    /\ IsConnected' = FALSE
    /\ Goes(a, "none")
    /\ UNCHANGED <<Conn, handlers, using, msgChan, submit, crashed, nodeVars, refusals,
                   historyVars>>

\* OnDisconnected: a reconnect at once, and the reader ends.
Disconnected(a) ==
    /\ at[a] = "failed"
    /\ IsConnected' = FALSE
    /\ Goes(a, "dial")
    /\ UNCHANGED <<Conn, handlers, using, msgChan, submit, crashed, nodeVars, refusals,
                   historyVars>>

\* OnTextMessage and OnBinaryMessage: the message goes into the channel when it
\* has room, unless it cannot be read.
Deliver(a) ==
    /\ at[a] = "deliver"
    /\ \/ Len(msgChan) < ChanCap /\ msgChan' = Append(msgChan, using[a])
       \/ UNCHANGED msgChan
    /\ using' = [using EXCEPT ![a] = 0]
    /\ Goes(a, "want")
    /\ UNCHANGED <<clientVars, submit, crashed, nodeVars, refusals, historyVars>>

-----------------------------------------------------------------------------
(* Submit, and the message goroutine *)

\* A submission while IsConnected is false returns an error and changes nothing.
CheckConnected(s) ==
    /\ submit[s] = "idle" /\ IsConnected
    /\ submit' = [submit EXCEPT ![s] = "send"]
    /\ UNCHANGED <<clientVars, agentVars, msgChan, crashed, nodeVars, refusals, historyVars>>

\* sendMu is taken and the share written to the current connection.  The write
\* may be lost; Submit returns nil all the same.
SendText(s) ==
    /\ submit[s] = "send"
    /\ IF Conn = 0
       THEN crashed' = "submit" /\ UNCHANGED submit
       ELSE submit' = [submit EXCEPT ![s] = "idle"] /\ UNCHANGED crashed
    /\ UNCHANGED <<clientVars, agentVars, msgChan, nodeVars, refusals, historyVars>>

\* The message goroutine takes the next message (its work is in Stratum and Rewards).
Handle ==
    /\ msgChan # << >>
    /\ msgChan' = Tail(msgChan)
    /\ handled' = Head(msgChan)
    /\ ordered' = (ordered /\ handled < Head(msgChan))
    /\ UNCHANGED <<clientVars, agentVars, submit, crashed, nodeVars, refusals>>

-----------------------------------------------------------------------------
(* The node *)

Live == {c \in open : inbox[c] = << >> \/ inbox[c][Len(inbox[c])] # Bye}

NodeSends ==
    /\ sent < MaxMessages
    /\ sent' = sent + 1
    /\ inbox' = [c \in Conns |-> IF c \in Live THEN Append(inbox[c], sent') ELSE inbox[c]]
    /\ UNCHANGED <<clientVars, agentVars, msgChan, submit, crashed, dialled, open, breaks,
                   closes, refusals, historyVars>>

NodeCloses(c) ==
    /\ c \in Live /\ closes < MaxCloses
    /\ closes' = closes + 1
    /\ inbox' = [inbox EXCEPT ![c] = Append(@, Bye)]
    /\ UNCHANGED <<clientVars, agentVars, msgChan, submit, crashed, dialled, open, sent,
                   breaks, refusals, historyVars>>

\* What was under way may still be read or be gone.
ConnBreaks(c) ==
    /\ c \in Live /\ breaks < MaxBreaks
    /\ breaks' = breaks + 1
    /\ open' = open \ {c}
    /\ inbox' \in {inbox, [inbox EXCEPT ![c] = << >>]}
    /\ UNCHANGED <<clientVars, agentVars, msgChan, submit, crashed, dialled, sent, closes,
                   refusals, historyVars>>

-----------------------------------------------------------------------------
Connecting(a) ==
    \/ Dial(a) \/ DialFails(a) \/ ConnectError(a) \/ Announce(a) \/ Install(a)

Reading(a) ==
    \/ StartRead(a) \/ Receive(a) \/ ReceiveClose(a) \/ ReadError(a)
    \/ Disconnected(a) \/ Deliver(a)

Node == NodeSends \/ \E c \in Conns : NodeCloses(c) \/ ConnBreaks(c)

WsNext ==
    /\ crashed = "nobody"
    /\ \/ \E a \in Agents : Connecting(a) \/ Reading(a)
       \/ \E s \in Submitters : CheckConnected(s) \/ SendText(s)
       \/ Handle
       \/ Node

WsSpec == WsInit /\ [][WsNext]_wsVars

\* Goroutines are scheduled and dials come back; readers that wait for
\* receiveMu get it in turn.
FairWsSpec ==
    /\ WsSpec
    /\ \A a \in Agents :
          /\ WF_wsVars(crashed = "nobody" /\ Connecting(a))
          /\ SF_wsVars(crashed = "nobody" /\ Reading(a))
    /\ WF_wsVars(crashed = "nobody" /\ Handle)

-----------------------------------------------------------------------------
(* Properties *)

\* The shape of the client's state; a reader holds a connection that was made.
WsTypeOK ==
    /\ Conn \in 0..dialled /\ dialled \in 0..MaxConns /\ IsConnected \in BOOLEAN
    /\ at \in [Agents -> {"none", "dial", "refused", "announce", "install", "want",
                          "read", "deliver", "failed"}]
    /\ \A a \in Agents :
          /\ at[a] = "read" => using[a] \in 1..dialled
          /\ at[a] = "deliver" => using[a] \in 1..sent
          /\ at[a] \notin {"read", "deliver"} => using[a] = 0
    /\ \A a, b \in Agents : at[a] = "read" /\ at[b] = "read" => a = b
    /\ handlers \in [Conns -> 0..MaxConns] /\ Len(msgChan) <= ChanCap
    /\ submit \in [Submitters -> {"idle", "send"}]
    /\ crashed \in {"nobody", "connect", "reader", "submit"}
    /\ open \subseteq 1..dialled

\* As long as the node has sent no close frame, its messages reach the message
\* goroutine in the order in which they were sent and none of them twice,
\* across any number of reconnects: no old task replaces a newer one.
InOrder == closes = 0 => ordered

\* As long as the node has sent no close frame, the reader and the reconnect
\* never dereference a nil connection, however many dials fail: only one of
\* them is at work at a time.  (A submission may, see the README.)
NilNeedsClose == crashed \in {"connect", "reader"} => closes > 0

\* A broken connection is replaced: in the end the client is connected to the
\* node, on a connection that is alive, if no close frame came.
Reconnects ==
    <>[](crashed = "nobody" /\ closes = 0 => IsConnected /\ Conn \in open)
=============================================================================
