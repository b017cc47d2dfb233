--------------------------- MODULE WsClientProofs ---------------------------
(***************************************************************************)
(* Theorems about the web-socket client: its state keeps its shape, with   *)
(* one reader at a time and no more handlers than connections; and until   *)
(* the node sends a close frame, messages are handled in the order in      *)
(* which they were sent, and neither the reader nor the reconnect meets a  *)
(* nil connection, for any number of broken connections, failed dials,     *)
(* submitters and messages.                                                *)
(***************************************************************************)
EXTENDS WsClient, FiniteSetTheorems, TLAPS

Steps == {"none", "dial", "refused", "announce", "install", "want", "read", "deliver",
          "failed"}

Types ==
    /\ at \in [Agents -> Steps] /\ using \in [Agents -> Nat]
    /\ dialled \in 0..MaxConns /\ Conn \in 0..dialled /\ open \subseteq 1..dialled
    /\ inbox \in [Conns -> Seq(Nat)] /\ msgChan \in Seq(Nat)
    /\ sent \in Nat /\ closes \in Nat /\ handled \in Nat
    /\ \A c \in Conns : c > dialled => inbox[c] = << >>
    /\ \A a \in Agents : at[a] = "read" => using[a] \in 1..dialled

\* One goroutine connects or reads, and none else.
Alone == \E a \in Agents : \A b \in Agents \ {a} : at[b] = "none"

\* Nobody reads while there is no connection; who reads, reads the current one.
ConnInUse ==
    /\ Conn = 0 => \A a \in Agents : at[a] \in {"none", "dial", "refused"}
    /\ \A a \in Agents : at[a] = "read" => using[a] = Conn

Increasing(q) == \A i, j \in 1..Len(q) : i < j => q[i] < q[j]

\* What was taken from the connection: handled, then the channel, then the
\* message the reader is about to deliver.
TakenInOrder ==
    /\ handled <= sent
    /\ Increasing(msgChan)
    /\ \A j \in 1..Len(msgChan) : handled < msgChan[j] /\ msgChan[j] <= sent
    /\ \A a \in Agents : at[a] = "deliver" =>
          /\ handled < using[a] /\ using[a] <= sent
          /\ \A j \in 1..Len(msgChan) : msgChan[j] < using[a]

\* What is still to be read comes after all that.
InboxAhead ==
    Conn # 0 =>
        /\ Increasing(inbox[Conn])
        /\ \A i \in 1..Len(inbox[Conn]) :
              /\ handled < inbox[Conn][i] /\ inbox[Conn][i] <= sent
              /\ \A j \in 1..Len(msgChan) : msgChan[j] < inbox[Conn][i]
              /\ \A a \in Agents : at[a] = "deliver" => using[a] < inbox[Conn][i]

\* The state before a close frame.
Calm ==
    /\ Alone /\ ConnInUse /\ TakenInOrder /\ InboxAhead
    /\ ordered /\ crashed \notin {"connect", "reader"}

WsInv == Types /\ (closes = 0 => Calm)

-----------------------------------------------------------------------------
LEMMA InitWsInv == WsInit => WsInv
BY FirstAssumption, ConnsAssumption
   DEF WsInit, WsInv, Types, Steps, Calm, Alone, ConnInUse, TakenInOrder, InboxAhead,
       Increasing, Conns

LEMMA GoesTypes ==
    ASSUME at \in [Agents -> Steps], NEW a \in Agents, NEW step \in Steps, Goes(a, step)
    PROVE  /\ at' \in [Agents -> Steps] /\ at'[a] = step
           /\ \A b \in Agents \ {a} : at'[b] = at[b]
BY DEF Goes

LEMMA ConnectingTypes ==
    ASSUME Types, NEW a \in Agents, Connecting(a)
    PROVE  Types'
<1>1. at' \in [Agents -> Steps] /\ \A b \in Agents : at'[b] = "read" => at[b] = "read"
  <2>1. "announce" \in Steps /\ "refused" \in Steps /\ "dial" \in Steps
        /\ "install" \in Steps /\ "want" \in Steps
        /\ "read" \notin {"announce", "refused", "dial", "install", "want"}
    BY DEF Steps
  <2> QED
    BY <2>1, GoesTypes
       DEF Types, Connecting, Dial, DialFails, ConnectError, Announce, Install
<1>2. CASE Dial(a)
  BY <1>1, <1>2, ConnsAssumption DEF Types, Dial, Conns, historyVars
<1>3. CASE DialFails(a)
  BY <1>1, <1>3 DEF Types, DialFails, historyVars, nodeVars
<1>4. CASE ConnectError(a) \/ Announce(a) \/ Install(a)
  <2>1. UNCHANGED <<using, dialled, Conn, open, inbox, msgChan, sent, closes, handled>>
    BY <1>4 DEF ConnectError, Announce, Install, historyVars, nodeVars
  <2> QED
    BY <1>1, <2>1 DEF Types
<1> QED
  BY <1>2, <1>3, <1>4 DEF Connecting

LEMMA ReadingTypes ==
    ASSUME Types, NEW a \in Agents, Reading(a)
    PROVE  Types'
<1> DEFINE Moves(step) ==
      /\ at' \in [Agents -> Steps] /\ at'[a] = step
      /\ \A b \in Agents \ {a} : at'[b] = at[b]
<1>1. ASSUME NEW step \in Steps, Goes(a, step) PROVE Moves(step)
  BY <1>1, GoesTypes DEF Types
<1>2. CASE StartRead(a)
  <2>1. CASE Conn = 0
    BY <1>2, <2>1 DEF Types, StartRead, historyVars, nodeVars, agentVars, clientVars
  <2>2. CASE Conn # 0
    <3>1. Moves("read") /\ using' = [using EXCEPT ![a] = Conn]
      BY <1>1, <1>2, <2>2 DEF StartRead, Steps
    <3>2. UNCHANGED <<dialled, Conn, open, inbox, msgChan, sent, closes, handled>>
      BY <1>2 DEF StartRead, historyVars, nodeVars, clientVars
    <3> QED
      BY <2>2, <3>1, <3>2 DEF Types
  <2> QED
    BY <2>1, <2>2
<1>3. CASE Receive(a)
  <2>1. Moves("deliver")
    BY <1>1, <1>3 DEF Receive, Steps
  <2>2. using[a] \in Conns /\ inbox[using[a]] \in Seq(Nat) /\ inbox[using[a]] # << >>
    <3>1. at[a] = "read" /\ inbox[using[a]] # << >>
      BY <1>3 DEF Receive
    <3>2. using[a] \in Conns
      BY <3>1, ConnsAssumption DEF Types, Conns
    <3> QED
      BY <3>1, <3>2 DEF Types
  <2>3. /\ inbox' = [inbox EXCEPT ![using[a]] = Tail(inbox[using[a]])]
        /\ using' = [using EXCEPT ![a] = Head(inbox[using[a]])]
        /\ UNCHANGED <<dialled, Conn, open, msgChan, sent, closes, handled>>
    BY <1>3 DEF Receive, historyVars, clientVars
  <2>4. Head(inbox[using[a]]) \in Nat /\ Tail(inbox[using[a]]) \in Seq(Nat)
    BY <2>2
  <2>5. ~(using[a] > dialled)
    BY <1>3 DEF Types, Receive
  <2> QED
    BY <2>1, <2>2, <2>3, <2>4, <2>5 DEF Types
<1>4. CASE ReceiveClose(a)
  <2>1. /\ at' \in [Agents -> Steps] /\ at'[a] # "read"
        /\ \A b \in Agents : at'[b] = "read" => at[b] = "read"
    BY <1>4 DEF ReceiveClose, Types, Steps
  <2>2. /\ using' = [using EXCEPT ![a] = 0] /\ open' \subseteq open
        /\ inbox' = [inbox EXCEPT ![using[a]] = << >>]
        /\ UNCHANGED <<dialled, Conn, msgChan, sent, closes, handled>>
    BY <1>4 DEF ReceiveClose, historyVars
  <2>3. << >> \in Seq(Nat)
    OBVIOUS
  <2> QED
    BY <2>1, <2>2, <2>3 DEF Types
<1>5. CASE ReadError(a)
  <2>1. Moves("failed") /\ using' = [using EXCEPT ![a] = 0]
        /\ UNCHANGED <<dialled, Conn, open, inbox, msgChan, sent, closes, handled>>
    BY <1>1, <1>5 DEF ReadError, Steps, historyVars, nodeVars, clientVars
  <2> QED
    BY <2>1 DEF Types
<1>6. CASE Disconnected(a)
  <2>1. Moves("dial")
        /\ UNCHANGED <<using, dialled, Conn, open, inbox, msgChan, sent, closes, handled>>
    BY <1>1, <1>6 DEF Disconnected, Steps, historyVars, nodeVars
  <2> QED
    BY <2>1 DEF Types
<1>7. CASE Deliver(a)
  <2>1. Moves("want") /\ using' = [using EXCEPT ![a] = 0]
        /\ UNCHANGED <<dialled, Conn, open, inbox, sent, closes, handled>>
    BY <1>1, <1>7 DEF Deliver, Steps, historyVars, nodeVars, clientVars
  <2>2. msgChan' \in Seq(Nat)
    <3>1. msgChan' = msgChan \/ msgChan' = Append(msgChan, using[a])
      BY <1>7 DEF Deliver
    <3>2. msgChan \in Seq(Nat) /\ using[a] \in Nat
      BY DEF Types
    <3>3. Append(msgChan, using[a]) \in Seq(Nat)
      BY <3>2
    <3> QED
      BY <3>1, <3>2, <3>3
  <2> QED
    BY <2>1, <2>2 DEF Types
<1> QED
  BY <1>2, <1>3, <1>4, <1>5, <1>6, <1>7 DEF Reading

LEMMA TypesStep == ASSUME Types, [WsNext]_wsVars PROVE Types'
<1>1. CASE UNCHANGED <<at, using, dialled, Conn, open, inbox, msgChan, sent, closes, handled>>
  BY <1>1 DEF Types
<1>2. ASSUME NEW s \in Submitters, CheckConnected(s) \/ SendText(s) PROVE Types'
  BY <1>1, <1>2 DEF CheckConnected, SendText, clientVars, agentVars, nodeVars, historyVars
<1>3. CASE Handle
  BY <1>3 DEF Types, Handle, clientVars, agentVars, nodeVars
<1>4. CASE NodeSends
  <2>1. sent' \in Nat /\ \A c \in Conns : Append(inbox[c], sent') \in Seq(Nat)
    BY <1>4 DEF Types, NodeSends
  <2>2. \A c \in Conns : c > dialled => c \notin Live
    BY DEF Types, Live, Conns
  <2>3. inbox' \in [Conns -> Seq(Nat)]
    BY <1>4, <2>1 DEF Types, NodeSends
  <2>4. \A c \in Conns : c > dialled => inbox'[c] = << >>
    BY <1>4, <2>2 DEF Types, NodeSends
  <2> QED
    BY <1>4, <2>1, <2>3, <2>4 DEF Types, NodeSends, clientVars, agentVars, historyVars
<1>5. ASSUME NEW c \in Conns, NodeCloses(c) PROVE Types'
  <2>1. Append(inbox[c], Bye) \in Seq(Nat) /\ ~(c > dialled)
    BY <1>5 DEF Types, NodeCloses, Live, Bye, Conns
  <2> QED
    BY <1>5, <2>1 DEF Types, NodeCloses, clientVars, agentVars, historyVars
<1>6. ASSUME NEW c \in Conns, ConnBreaks(c) PROVE Types'
  <2>1. inbox' = inbox \/ inbox' = [inbox EXCEPT ![c] = << >>]
    BY <1>6 DEF ConnBreaks
  <2>2. << >> \in Seq(Nat)
    OBVIOUS
  <2>3. inbox' \in [Conns -> Seq(Nat)]
    BY <2>1, <2>2 DEF Types
  <2>4. \A b \in Conns : inbox'[b] = inbox[b] \/ inbox'[b] = << >>
    BY <2>1 DEF Types
  <2> QED
    BY <1>6, <2>3, <2>4 DEF Types, ConnBreaks, clientVars, agentVars, historyVars
<1>7. CASE UNCHANGED wsVars
  BY <1>1, <1>7 DEF wsVars, clientVars, agentVars, nodeVars, historyVars
<1> QED
  BY <1>2, <1>3, <1>4, <1>5, <1>6, <1>7, ConnectingTypes, ReadingTypes DEF WsNext, Node

-----------------------------------------------------------------------------
(* The state before a close frame *)

LEMMA AppendIncreasing ==
    ASSUME NEW q \in Seq(Nat), NEW n \in Nat, Increasing(q),
           \A i \in 1..Len(q) : q[i] < n
    PROVE  Increasing(Append(q, n))
BY DEF Increasing

LEMMA ConnectingCalm ==
    ASSUME Types, Calm, NEW a \in Agents, Connecting(a)
    PROVE  Calm'
<1>1. \A b \in Agents \ {a} : at[b] = "none"
  BY DEF Calm, Alone, Connecting, Dial, DialFails, ConnectError, Announce, Install
<1> DEFINE Moves(step) ==
      /\ at' = [at EXCEPT ![a] = step] /\ at'[a] = step
      /\ \A b \in Agents \ {a} : at'[b] = "none"
<1>2. ASSUME NEW step, Goes(a, step) PROVE Moves(step)
  BY <1>1, <1>2 DEF Types, Goes
<1>3. ASSUME NEW step, Goes(a, step), step \notin {"read", "deliver"},
             UNCHANGED <<using, msgChan, handled, sent, ordered>>,
             Conn' = 0 => step \in {"dial", "refused"},
             Conn' # 0 => inbox'[Conn'] = << >> \/ UNCHANGED <<Conn, inbox>>,
             crashed' = crashed
      PROVE  Calm'
  <2>1. Moves(step)
    BY <1>2, <1>3
  <2>2. Alone' /\ ConnInUse'
    BY <1>3, <2>1 DEF Alone, ConnInUse
  <2>3. TakenInOrder'
    BY <1>3, <2>1 DEF Calm, TakenInOrder, Increasing
  <2>4. InboxAhead'
    BY <1>3, <2>1 DEF Calm, InboxAhead, Increasing
  <2> QED
    BY <1>3, <2>2, <2>3, <2>4 DEF Calm
<1>4. CASE Dial(a)
  <2>1. Conn' = dialled + 1 /\ dialled + 1 \in Conns /\ UNCHANGED inbox
    BY <1>4, ConnsAssumption DEF Dial, Types, Conns
  <2>2. inbox'[Conn'] = << >> /\ Conn' # 0
    BY <2>1, ConnsAssumption DEF Types, Conns
  <2> QED
    BY <1>3, <1>4, <2>2 DEF Dial, historyVars
<1>5. CASE DialFails(a)
  BY <1>3, <1>5 DEF DialFails, historyVars, nodeVars
<1>6. CASE ConnectError(a)
  BY <1>3, <1>6 DEF ConnectError, historyVars, nodeVars
<1>7. CASE Announce(a)
  <2>1. Conn # 0
    BY <1>7 DEF Calm, ConnInUse, Announce
  <2> QED
    BY <1>3, <1>7, <2>1 DEF Announce, historyVars, nodeVars
<1>8. CASE Install(a)
  <2>1. Conn # 0
    BY <1>8 DEF Calm, ConnInUse, Install
  <2> QED
    BY <1>3, <1>8, <2>1 DEF Install, historyVars, nodeVars
<1> QED
  BY <1>4, <1>5, <1>6, <1>7, <1>8 DEF Connecting

LEMMA ReadingCalm ==
    ASSUME Types, Calm, NEW a \in Agents, Reading(a)
    PROVE  Calm'
<1>1. at[a] # "none" /\ \A b \in Agents \ {a} : at[b] = "none"
  BY DEF Calm, Alone, Reading, StartRead, Receive, ReceiveClose, ReadError, Disconnected,
         Deliver
<1> DEFINE Moves(step) ==
      /\ at' = [at EXCEPT ![a] = step] /\ at'[a] = step
      /\ \A b \in Agents \ {a} : at'[b] = "none"
<1>2. ASSUME NEW step, Goes(a, step) PROVE Moves(step)
  BY <1>1, <1>2 DEF Types, Goes
<1>4. CASE StartRead(a)
  <2>1. Conn # 0
    BY <1>4 DEF Calm, ConnInUse, StartRead
  <2>2. /\ Moves("read") /\ using' = [using EXCEPT ![a] = Conn] /\ using'[a] = Conn
        /\ UNCHANGED <<Conn, inbox, msgChan, handled, sent, ordered, crashed>>
    BY <1>2, <1>4, <2>1 DEF StartRead, Types, clientVars, nodeVars, historyVars
  <2>3. Alone' /\ ConnInUse'
    BY <2>1, <2>2 DEF Alone, ConnInUse
  <2>4. TakenInOrder' /\ InboxAhead'
    BY <2>2 DEF Calm, TakenInOrder, InboxAhead, Increasing
  <2> QED
    BY <2>2, <2>3, <2>4 DEF Calm
<1>5. CASE Receive(a)
  <2> DEFINE q == inbox[Conn]
  <2>1. at[a] = "read" /\ using[a] = Conn /\ Conn \in Conns /\ q \in Seq(Nat) /\ q # << >>
    <3>1. at[a] = "read" /\ using[a] = Conn /\ q # << >>
      BY <1>5 DEF Receive, Calm, ConnInUse
    <3>2. Conn \in Conns
      BY <3>1, ConnsAssumption DEF Types, Conns
    <3> QED
      BY <3>1, <3>2 DEF Types
  <2>2. /\ Moves("deliver")
        /\ using' = [using EXCEPT ![a] = Head(q)] /\ using'[a] = Head(q)
        /\ inbox' = [inbox EXCEPT ![Conn] = Tail(q)] /\ inbox'[Conn] = Tail(q)
        /\ UNCHANGED <<Conn, msgChan, handled, sent, ordered, crashed>>
    BY <1>2, <1>5, <2>1 DEF Receive, Types, clientVars, historyVars
  <2>3. /\ Head(q) = q[1] /\ 1 \in 1..Len(q)
        /\ Len(Tail(q)) = Len(q) - 1 /\ \A i \in 1..Len(Tail(q)) : Tail(q)[i] = q[i + 1]
        /\ \A i \in 1..Len(Tail(q)) : i + 1 \in 1..Len(q)
    BY <2>1
  <2>4. Conn # 0
    BY <2>1 DEF Conns
  <2>5. Alone' /\ ConnInUse'
    BY <2>2, <2>4 DEF Alone, ConnInUse
  <2>6. /\ Increasing(q)
        /\ \A i \in 1..Len(q) : /\ handled < q[i] /\ q[i] <= sent
                               /\ \A j \in 1..Len(msgChan) : msgChan[j] < q[i]
    BY <2>4 DEF Calm, InboxAhead
  <2>7. TakenInOrder'
    <3>1. \A b \in Agents : at'[b] = "deliver" => b = a
      BY <2>2
    <3> QED
      BY <2>2, <2>3, <2>6, <3>1 DEF Calm, TakenInOrder, Increasing
  <2>8. InboxAhead'
    <3>1. \A i \in 1..Len(Tail(q)) : Head(q) < Tail(q)[i]
      BY <2>1, <2>3, <2>6 DEF Increasing
    <3>2. Increasing(Tail(q))
      BY <2>1, <2>3, <2>6 DEF Increasing
    <3>3. \A b \in Agents : at'[b] = "deliver" => using'[b] = Head(q)
      BY <2>2
    <3>4. \A i \in 1..Len(Tail(q)) : /\ handled < Tail(q)[i] /\ Tail(q)[i] <= sent
                                      /\ \A j \in 1..Len(msgChan) : msgChan[j] < Tail(q)[i]
      BY <2>3, <2>6
    <3>5. /\ inbox'[Conn'] = Tail(q)
          /\ handled' = handled /\ sent' = sent /\ msgChan' = msgChan
      BY <2>2
    <3>6. Increasing(inbox'[Conn'])
      BY <3>2, <3>5
    <3>7. \A i \in 1..Len(inbox'[Conn']) :
             /\ handled' < inbox'[Conn'][i] /\ inbox'[Conn'][i] <= sent'
             /\ \A j \in 1..Len(msgChan') : msgChan'[j] < inbox'[Conn'][i]
      BY <3>4, <3>5
    <3>8. \A i \in 1..Len(inbox'[Conn']) :
             \A b \in Agents : at'[b] = "deliver" => using'[b] < inbox'[Conn'][i]
      BY <3>1, <3>3, <3>5
    <3> QED
      BY <3>6, <3>7, <3>8 DEF InboxAhead
  <2> QED
    BY <2>2, <2>5, <2>7, <2>8 DEF Calm
<1>6. ~ReceiveClose(a)
  <2> SUFFICES ASSUME ReceiveClose(a) PROVE FALSE
    OBVIOUS
  <2>1. at[a] = "read" /\ using[a] = Conn /\ inbox[Conn] # << >> /\ Head(inbox[Conn]) = 0
    BY DEF ReceiveClose, Calm, ConnInUse, Bye
  <2>2. Conn \in Conns /\ Conn # 0
    BY <2>1, ConnsAssumption DEF Types, Conns
  <2>3. inbox[Conn] \in Seq(Nat)
    BY <2>2 DEF Types
  <2>4. 1 \in 1..Len(inbox[Conn]) /\ Head(inbox[Conn]) = inbox[Conn][1]
    BY <2>1, <2>3
  <2>5. handled < inbox[Conn][1]
    BY <2>2, <2>4 DEF Calm, InboxAhead
  <2> QED
    BY <2>1, <2>4, <2>5 DEF Types
<1>7. CASE ReadError(a) \/ Disconnected(a)
  <2>1. at[a] \in {"read", "failed"}
    BY <1>7 DEF ReadError, Disconnected
  <2>2. Conn # 0
    BY <2>1 DEF Calm, ConnInUse
  <2>3. /\ Moves("failed") \/ Moves("dial")
        /\ UNCHANGED <<Conn, inbox, msgChan, handled, sent, ordered, crashed>>
    BY <1>2, <1>7 DEF ReadError, Disconnected, clientVars, nodeVars, historyVars
  <2>4. Alone' /\ ConnInUse'
    BY <2>2, <2>3 DEF Alone, ConnInUse
  <2>5. TakenInOrder' /\ InboxAhead'
    BY <2>3 DEF Calm, TakenInOrder, InboxAhead, Increasing
  <2> QED
    BY <2>3, <2>4, <2>5 DEF Calm
<1>8. CASE Deliver(a)
  <2>1. at[a] = "deliver" /\ Conn # 0
    BY <1>8 DEF Deliver, Calm, ConnInUse
  <2>2. /\ Moves("want")
        /\ UNCHANGED <<Conn, inbox, handled, sent, ordered, crashed>>
        /\ msgChan' = msgChan \/ msgChan' = Append(msgChan, using[a])
    BY <1>2, <1>8 DEF Deliver, clientVars, nodeVars, historyVars
  <2>3. Alone' /\ ConnInUse'
    BY <2>1, <2>2 DEF Alone, ConnInUse
  <2>4. CASE msgChan' = msgChan
    <3>1. TakenInOrder' /\ InboxAhead'
      BY <2>2, <2>4 DEF Calm, TakenInOrder, InboxAhead, Increasing
    <3> QED
      BY <2>2, <2>3, <3>1 DEF Calm
  <2>5. CASE msgChan' = Append(msgChan, using[a])
    <3>1. msgChan \in Seq(Nat) /\ using[a] \in Nat
      BY DEF Types
    <3>2. /\ Len(msgChan') = Len(msgChan) + 1 /\ msgChan'[Len(msgChan) + 1] = using[a]
          /\ \A j \in 1..Len(msgChan) : msgChan'[j] = msgChan[j]
      BY <2>5, <3>1
    <3>3. \A j \in 1..Len(msgChan') : j \in 1..Len(msgChan) \/ j = Len(msgChan) + 1
      BY <3>1, <3>2
    <3>4. TakenInOrder'
      BY <2>1, <2>2, <3>1, <3>2, <3>3 DEF Calm, TakenInOrder, Increasing
    <3>5. InboxAhead'
      BY <2>1, <2>2, <3>1, <3>2, <3>3 DEF Calm, InboxAhead
    <3> QED
      BY <2>2, <2>3, <3>4, <3>5 DEF Calm
  <2> QED
    BY <2>2, <2>4, <2>5
<1> QED
  BY <1>4, <1>5, <1>6, <1>7, <1>8 DEF Reading

LEMMA CalmStep ==
    ASSUME WsInv, [WsNext]_wsVars, closes' = 0
    PROVE  Calm'
<1>1. closes = 0 /\ Types /\ Calm
  <2>1. closes' = closes \/ closes' = closes + 1
    BY DEF WsNext, Connecting, Reading, Node, Dial, DialFails, ConnectError, Announce, Install,
           StartRead, Receive, ReceiveClose, ReadError, Disconnected, Deliver, CheckConnected,
           SendText, Handle, NodeSends, NodeCloses, ConnBreaks, wsVars, nodeVars
  <2> QED
    BY <2>1 DEF WsInv, Types
<1>2. ASSUME UNCHANGED <<at, using, Conn, inbox, msgChan, handled, sent, ordered>>,
             crashed' \in {crashed, "submit"}
      PROVE  Calm'
  BY <1>1, <1>2 DEF Calm, Alone, ConnInUse, TakenInOrder, InboxAhead, Increasing
<1>3. ASSUME NEW s \in Submitters, CheckConnected(s) \/ SendText(s) PROVE Calm'
  BY <1>2, <1>3 DEF CheckConnected, SendText, clientVars, agentVars, nodeVars, historyVars
<1>4. CASE Handle
  <2>1. /\ msgChan \in Seq(Nat) /\ msgChan # << >> /\ msgChan' = Tail(msgChan)
        /\ handled' = Head(msgChan) /\ ordered' = (ordered /\ handled < Head(msgChan))
        /\ UNCHANGED <<at, using, Conn, inbox, sent, crashed>>
    BY <1>1, <1>4 DEF Handle, Types, clientVars, agentVars, nodeVars
  <2>2. /\ Head(msgChan) = msgChan[1] /\ 1 \in 1..Len(msgChan)
        /\ Len(msgChan') = Len(msgChan) - 1
        /\ \A j \in 1..Len(msgChan') : msgChan'[j] = msgChan[j + 1] /\ j + 1 \in 1..Len(msgChan)
    BY <2>1
  <2>3. TakenInOrder'
    BY <1>1, <2>1, <2>2 DEF Calm, TakenInOrder, Increasing
  <2>4. InboxAhead'
    BY <1>1, <2>1, <2>2 DEF Calm, InboxAhead, Increasing
  <2>5. ordered' /\ Alone' /\ ConnInUse'
    BY <1>1, <2>1, <2>2 DEF Calm, TakenInOrder, Alone, ConnInUse
  <2> QED
    BY <1>1, <2>1, <2>3, <2>4, <2>5 DEF Calm
<1>5. CASE NodeSends
  <2>1. /\ sent' = sent + 1
        /\ inbox' = [c \in Conns |-> IF c \in Live THEN Append(inbox[c], sent + 1) ELSE inbox[c]]
        /\ UNCHANGED <<at, using, Conn, msgChan, handled, ordered, crashed>>
    BY <1>5 DEF NodeSends, clientVars, agentVars, historyVars
  <2>2. Alone' /\ ConnInUse' /\ TakenInOrder'
    BY <1>1, <2>1 DEF Calm, Alone, ConnInUse, TakenInOrder, Increasing, Types
  <2>3. InboxAhead'
    <3> SUFFICES ASSUME Conn # 0 PROVE InboxAhead'
      BY <2>1 DEF InboxAhead
    <3>1. Conn \in Conns /\ inbox[Conn] \in Seq(Nat) /\ sent \in Nat
      BY <1>1, ConnsAssumption DEF Types, Conns
    <3>2. CASE inbox'[Conn] = inbox[Conn]
      BY <1>1, <2>1, <3>1, <3>2 DEF Calm, InboxAhead, Types
    <3>3. CASE inbox'[Conn] = Append(inbox[Conn], sent + 1)
      <4>1. /\ Len(inbox'[Conn]) = Len(inbox[Conn]) + 1
            /\ inbox'[Conn][Len(inbox[Conn]) + 1] = sent + 1
            /\ \A i \in 1..Len(inbox[Conn]) : inbox'[Conn][i] = inbox[Conn][i]
            /\ \A i \in 1..Len(inbox'[Conn]) :
                  i \in 1..Len(inbox[Conn]) \/ i = Len(inbox[Conn]) + 1
        BY <3>1, <3>3
      <4>2. /\ Increasing(inbox[Conn])
            /\ \A i \in 1..Len(inbox[Conn]) : inbox[Conn][i] \in Nat /\ inbox[Conn][i] < sent + 1
        BY <1>1, <3>1 DEF Calm, InboxAhead
      <4>3. Increasing(inbox'[Conn])
        BY <3>1, <3>3, <4>2, AppendIncreasing
      <4>4. ASSUME NEW i \in 1..Len(inbox'[Conn])
            PROVE  /\ handled < inbox'[Conn][i] /\ inbox'[Conn][i] <= sent + 1
                   /\ \A j \in 1..Len(msgChan) : msgChan[j] < inbox'[Conn][i]
                   /\ \A b \in Agents : at[b] = "deliver" => using[b] < inbox'[Conn][i]
        <5>1. CASE i \in 1..Len(inbox[Conn])
          <6>1. inbox'[Conn][i] = inbox[Conn][i] /\ inbox[Conn][i] < sent + 1
            BY <4>1, <4>2, <5>1
          <6> QED
            BY <1>1, <3>1, <4>2, <5>1, <6>1 DEF Calm, InboxAhead
        <5>2. CASE i = Len(inbox[Conn]) + 1
          <6>1. inbox'[Conn][i] = sent + 1
            BY <4>1, <5>2
          <6>2. \A j \in 1..Len(msgChan) : msgChan[j] \in Nat /\ msgChan[j] <= sent
            BY <1>1 DEF Calm, TakenInOrder, Types
          <6>3. handled \in Nat /\ handled <= sent
            BY <1>1 DEF Calm, TakenInOrder, Types
          <6>4. \A b \in Agents : at[b] = "deliver" => using[b] \in Nat /\ using[b] <= sent
            BY <1>1 DEF Calm, TakenInOrder, Types
          <6> QED
            BY <3>1, <6>1, <6>2, <6>3, <6>4
        <5> QED
          BY <4>1, <5>1, <5>2
      <4> QED
        BY <2>1, <4>3, <4>4 DEF InboxAhead
    <3> QED
      BY <2>1, <3>1, <3>2, <3>3
  <2> QED
    BY <1>1, <2>1, <2>2, <2>3 DEF Calm
<1>6. ASSUME NEW c \in Conns PROVE ~NodeCloses(c)
  BY <1>1 DEF NodeCloses
<1>7. ASSUME NEW c \in Conns, ConnBreaks(c) PROVE Calm'
  <2>1. /\ inbox' = inbox \/ inbox' = [inbox EXCEPT ![c] = << >>]
        /\ UNCHANGED <<at, using, Conn, msgChan, handled, sent, ordered, crashed>>
    BY <1>7 DEF ConnBreaks, clientVars, agentVars, historyVars
  <2>2. Alone' /\ ConnInUse' /\ TakenInOrder'
    BY <1>1, <2>1 DEF Calm, Alone, ConnInUse, TakenInOrder, Increasing
  <2>3. Conn # 0 => inbox'[Conn] = inbox[Conn] \/ inbox'[Conn] = << >>
    BY <1>1, <2>1, ConnsAssumption DEF Types, Conns
  <2>4. InboxAhead'
    BY <1>1, <2>1, <2>3 DEF Calm, InboxAhead, Increasing
  <2> QED
    BY <1>1, <2>1, <2>2, <2>4 DEF Calm
<1>8. CASE UNCHANGED wsVars
  BY <1>2, <1>8 DEF wsVars, clientVars, agentVars, nodeVars, historyVars
<1> QED
  BY <1>1, <1>3, <1>4, <1>5, <1>6, <1>7, <1>8, ConnectingCalm, ReadingCalm DEF WsNext, Node

-----------------------------------------------------------------------------
(* The shape of the client's state *)

Pending == {a \in Agents : at[a] \in {"announce", "install"}}

\* What is under way was sent, or is a close frame.
InboxSent == \A c \in Conns : \A i \in 1..Len(inbox[c]) : inbox[c][i] <= sent

\* A connection is made before its handler is installed, on whichever
\* connection that is.
HandlersCounted ==
    /\ IsFiniteSet(Pending)
    /\ \A c \in Conns : handlers[c] + Cardinality(Pending) <= dialled

\* Who reads or delivers, what and of which connection.
ReadersType ==
    /\ \A a \in Agents :
          /\ at[a] = "deliver" => using[a] \in 1..sent
          /\ at[a] \notin {"read", "deliver"} => using[a] = 0
    /\ \A a, b \in Agents : at[a] = "read" /\ at[b] = "read" => a = b

RestType ==
    /\ IsConnected \in BOOLEAN /\ Len(msgChan) <= ChanCap
    /\ submit \in [Submitters -> {"idle", "send"}]
    /\ crashed \in {"nobody", "connect", "reader", "submit"}

Shape ==
    /\ InboxSent /\ HandlersCounted /\ ReadersType /\ RestType
    /\ handlers \in [Conns -> Nat]

LEMMA InitShape == WsInit => Shape
<1> SUFFICES ASSUME WsInit PROVE Shape
  OBVIOUS
<1>1. Pending = {}
  BY DEF WsInit, Pending
<1>2. HandlersCounted /\ handlers \in [Conns -> Nat]
  BY <1>1, FS_EmptySet DEF WsInit, HandlersCounted
<1>3. InboxSent
  BY DEF WsInit, InboxSent
<1>4. ReadersType
  <2>1. \A a \in Agents : at[a] \notin {"read", "deliver"} /\ using[a] = 0
    BY DEF WsInit
  <2> QED
    BY <2>1 DEF ReadersType
<1>5. RestType
  <2>1. Len(msgChan) = 0 /\ 0 <= ChanCap
    BY CapAssumption DEF WsInit
  <2> QED
    BY <2>1 DEF WsInit, RestType
<1> QED
  BY <1>2, <1>3, <1>4, <1>5 DEF Shape

LEMMA RestTypeStep == ASSUME Types, RestType, [WsNext]_wsVars PROVE RestType'
<1>1. ASSUME NEW a \in Agents, Connecting(a) PROVE RestType'
  BY <1>1 DEF RestType, Connecting, Dial, DialFails, ConnectError, Announce, Install
<1>2. ASSUME NEW a \in Agents, Reading(a) PROVE RestType'
  <2>1. CASE Deliver(a)
    <3>1. Len(msgChan') <= ChanCap
      BY <2>1, CapAssumption DEF Types, RestType, Deliver
    <3> QED
      BY <2>1, <3>1 DEF RestType, Deliver, clientVars
  <2>2. CASE StartRead(a)
    BY <2>2 DEF RestType, StartRead, clientVars
  <2>3. CASE Receive(a) \/ ReceiveClose(a) \/ ReadError(a) \/ Disconnected(a)
    <3>1. IsConnected' \in BOOLEAN
      BY <2>3 DEF RestType, Receive, ReceiveClose, ReadError, Disconnected, clientVars
    <3> QED
      BY <2>3, <3>1 DEF RestType, Receive, ReceiveClose, ReadError, Disconnected, clientVars
  <2> QED
    BY <1>2, <2>1, <2>2, <2>3 DEF Reading
<1>3. ASSUME NEW s \in Submitters, CheckConnected(s) \/ SendText(s) PROVE RestType'
  BY <1>3 DEF RestType, CheckConnected, SendText, clientVars
<1>4. CASE Handle
  <2>1. Len(msgChan') <= ChanCap
    BY <1>4, CapAssumption DEF Types, RestType, Handle
  <2> QED
    BY <1>4, <2>1 DEF RestType, Handle, clientVars
<1>5. CASE Node \/ UNCHANGED wsVars
  BY <1>5 DEF RestType, Node, NodeSends, NodeCloses, ConnBreaks, wsVars, clientVars
<1> QED
  BY <1>1, <1>2, <1>3, <1>4, <1>5 DEF WsNext

\* Only a dial and an installation change what is counted.
LEMMA HandlersStep ==
    ASSUME Types, HandlersCounted, handlers \in [Conns -> Nat], [WsNext]_wsVars
    PROVE  HandlersCounted' /\ handlers' \in [Conns -> Nat]
<1> USE DEF Types
<1>0. Cardinality(Pending) \in Nat
  BY FS_CardinalityType DEF HandlersCounted
<1>1. ASSUME Pending' = Pending, UNCHANGED handlers, dialled' = dialled
      PROVE  HandlersCounted' /\ handlers' \in [Conns -> Nat]
  BY <1>1 DEF HandlersCounted
<1>2. ASSUME NEW a \in Agents, Dial(a) PROVE HandlersCounted' /\ handlers' \in [Conns -> Nat]
  <2>1. Pending' = Pending \union {a} /\ a \notin Pending
    BY <1>2 DEF Pending, Dial, Goes
  <2>2. IsFiniteSet(Pending') /\ Cardinality(Pending') = Cardinality(Pending) + 1
    BY <2>1, FS_AddElement DEF HandlersCounted
  <2>3. UNCHANGED handlers /\ dialled' = dialled + 1
    BY <1>2 DEF Dial
  <2> QED
    BY <1>0, <2>2, <2>3 DEF HandlersCounted
<1>3. ASSUME NEW a \in Agents, Install(a)
      PROVE  HandlersCounted' /\ handlers' \in [Conns -> Nat]
  <2>1. CASE Conn = 0
    BY <1>1, <1>3, <2>1 DEF Install, Pending, nodeVars
  <2>2. CASE Conn # 0
    <3>1. Pending' = Pending \ {a} /\ a \in Pending
      BY <1>3, <2>2 DEF Pending, Install, Goes
    <3>2. IsFiniteSet(Pending') /\ Cardinality(Pending') = Cardinality(Pending) - 1
      BY <3>1, FS_RemoveElement DEF HandlersCounted
    <3>3. handlers' = [handlers EXCEPT ![Conn] = handlers[Conn] + 1] /\ dialled' = dialled
      BY <1>3, <2>2 DEF Install, nodeVars
    <3>4. Conn \in Conns
      BY <2>2, ConnsAssumption DEF Conns
    <3>5. /\ handlers' \in [Conns -> Nat]
          /\ \A c \in Conns : handlers'[c] \in Nat /\ handlers'[c] <= handlers[c] + 1
      BY <3>3, <3>4
    <3>6. ASSUME NEW c \in Conns PROVE handlers'[c] + Cardinality(Pending') <= dialled'
      <4>1. handlers[c] + Cardinality(Pending) <= dialled
        BY DEF HandlersCounted
      <4>2. handlers[c] \in Nat /\ dialled \in Nat
        BY ConnsAssumption
      <4> HIDE DEF Types
      <4> QED
        BY <1>0, <3>2, <3>3, <3>5, <4>1, <4>2
    <3> QED
      BY <3>2, <3>5, <3>6 DEF HandlersCounted
  <2> QED
    BY <2>1, <2>2
<1>4. ASSUME NEW a \in Agents,
             DialFails(a) \/ ConnectError(a) \/ Announce(a) \/ Reading(a)
      PROVE  HandlersCounted' /\ handlers' \in [Conns -> Nat]
  <2>1. CASE ReceiveClose(a)
    <3>1. Pending' = Pending
      BY <2>1 DEF ReceiveClose, Pending
    <3> QED
      BY <1>1, <2>1, <3>1 DEF ReceiveClose
  <2>2. CASE StartRead(a)
    BY <1>1, <2>2 DEF StartRead, Pending, Goes, agentVars, clientVars, nodeVars
  <2>3. ASSUME NEW from, NEW step, at[a] = from, Goes(a, step),
               from \in {"announce", "install"} <=> step \in {"announce", "install"},
               UNCHANGED <<handlers, dialled>>
        PROVE  HandlersCounted' /\ handlers' \in [Conns -> Nat]
    BY <1>1, <2>3 DEF Pending, Goes
  <2>4. CASE DialFails(a) \/ ConnectError(a) \/ Announce(a)
    BY <2>3, <2>4 DEF DialFails, ConnectError, Announce, nodeVars
  <2>5. CASE Receive(a) \/ ReadError(a) \/ Disconnected(a) \/ Deliver(a)
    BY <2>3, <2>5 DEF Receive, ReadError, Disconnected, Deliver, clientVars, nodeVars
  <2> QED
    BY <1>4, <2>1, <2>2, <2>4, <2>5 DEF Reading
<1>5. ASSUME NEW s \in Submitters, CheckConnected(s) \/ SendText(s)
      PROVE  HandlersCounted' /\ handlers' \in [Conns -> Nat]
  BY <1>1, <1>5 DEF CheckConnected, SendText, Pending, clientVars, agentVars, nodeVars
<1>6. CASE Handle \/ Node \/ UNCHANGED wsVars
  BY <1>1, <1>6
     DEF Handle, Node, NodeSends, NodeCloses, ConnBreaks, Pending, wsVars, clientVars,
         agentVars, nodeVars
<1> QED
  BY <1>2, <1>3, <1>4, <1>5, <1>6 DEF WsNext, Connecting

LEMMA InboxSentStep ==
    ASSUME Types, InboxSent, [WsNext]_wsVars
    PROVE  InboxSent' /\ sent' \in Nat /\ sent <= sent'
<1> USE DEF Types
<1>1. ASSUME UNCHANGED <<inbox, sent>> PROVE InboxSent'
  BY <1>1 DEF InboxSent
<1>2. ASSUME NEW a \in Agents, Connecting(a) PROVE UNCHANGED <<inbox, sent>>
  BY <1>2 DEF Connecting, Dial, DialFails, ConnectError, Announce, Install, nodeVars
<1>3. ASSUME NEW a \in Agents, Reading(a) PROVE InboxSent' /\ sent' = sent
  <2>1. CASE Receive(a)
    <3> DEFINE q == inbox[using[a]]
    <3>1. using[a] \in Conns /\ q \in Seq(Nat) /\ q # << >>
      BY <2>1, ConnsAssumption DEF Receive, Conns
    <3>2. inbox' = [inbox EXCEPT ![using[a]] = Tail(q)] /\ sent' = sent
      BY <2>1 DEF Receive
    <3>3. \A i \in 1..Len(Tail(q)) : Tail(q)[i] = q[i + 1] /\ i + 1 \in 1..Len(q)
      BY <3>1
    <3>4. \A i \in 1..Len(Tail(q)) : Tail(q)[i] <= sent
      BY <3>1, <3>3 DEF InboxSent
    <3> QED
      BY <3>2, <3>4 DEF InboxSent
  <2>2. CASE ReceiveClose(a)
    BY <2>2 DEF ReceiveClose, InboxSent
  <2>3. CASE StartRead(a) \/ ReadError(a) \/ Disconnected(a) \/ Deliver(a)
    BY <1>1, <2>3 DEF StartRead, ReadError, Disconnected, Deliver, nodeVars
  <2> QED
    BY <1>3, <2>1, <2>2, <2>3 DEF Reading
<1>4. ASSUME NEW s \in Submitters, CheckConnected(s) \/ SendText(s)
      PROVE  UNCHANGED <<inbox, sent>>
  BY <1>4 DEF CheckConnected, SendText, nodeVars
<1>5. CASE NodeSends
  <2>1. sent' = sent + 1 /\ inbox' = [c \in Conns |-> IF c \in Live THEN Append(inbox[c], sent')
                                                      ELSE inbox[c]]
    BY <1>5 DEF NodeSends
  <2>2. ASSUME NEW c \in Conns, NEW i \in 1..Len(inbox'[c]) PROVE inbox'[c][i] <= sent'
    <3>1. inbox[c] \in Seq(Nat) /\ \A j \in 1..Len(inbox[c]) : inbox[c][j] <= sent
      BY DEF InboxSent
    <3>2. \A j \in 1..Len(inbox[c]) : inbox[c][j] \in Nat
      BY <3>1
    <3>3. CASE c \in Live
      BY <2>1, <2>2, <3>1, <3>2, <3>3
    <3>4. CASE c \notin Live
      BY <2>1, <2>2, <3>1, <3>2, <3>4
    <3> QED
      BY <3>3, <3>4
  <2> QED
    BY <2>1, <2>2 DEF InboxSent
<1>6. ASSUME NEW c \in Conns, NodeCloses(c) PROVE InboxSent' /\ sent' = sent
  <2>1. inbox[c] \in Seq(Nat)
    OBVIOUS
  <2>2. inbox' = [inbox EXCEPT ![c] = Append(inbox[c], 0)] /\ sent' = sent
    BY <1>6 DEF NodeCloses, Bye
  <2>3. \A i \in 1..Len(Append(inbox[c], 0)) : Append(inbox[c], 0)[i] <= sent
    BY <2>1 DEF InboxSent
  <2> QED
    BY <2>2, <2>3 DEF InboxSent
<1>7. ASSUME NEW c \in Conns, ConnBreaks(c) PROVE InboxSent' /\ sent' = sent
  BY <1>7 DEF ConnBreaks, InboxSent
<1>8. CASE Handle \/ UNCHANGED wsVars
  <2>1. UNCHANGED <<inbox, sent>>
    BY <1>8 DEF Handle, wsVars, nodeVars
  <2> QED
    BY <1>1, <2>1
<1> QED
  BY <1>1, <1>2, <1>3, <1>4, <1>5, <1>6, <1>7, <1>8 DEF WsNext, Node

\* Only the holder of receiveMu reads, and a message that is read was sent.
LEMMA ReadersStep ==
    ASSUME Types, InboxSent, ReadersType, [WsNext]_wsVars
    PROVE  ReadersType'
<1> USE DEF Types
<1>0. sent' \in Nat /\ sent <= sent'
  BY InboxSentStep
<1>1. ASSUME UNCHANGED <<at, using>> PROVE ReadersType'
  BY <1>0, <1>1 DEF ReadersType
<1>2. ASSUME NEW a \in Agents, NEW step \in Steps \ {"read", "deliver"}, Goes(a, step),
             using' = [using EXCEPT ![a] = 0] \/ (using' = using /\ using[a] = 0)
      PROVE  ReadersType'
  <2>1. /\ at'[a] \notin {"read", "deliver"} /\ using'[a] = 0
        /\ \A b \in Agents \ {a} : at'[b] = at[b] /\ using'[b] = using[b]
    BY <1>2 DEF Goes
  <2>2. \A b \in Agents : at'[b] \in {"read", "deliver"} => b # a
    BY <2>1
  <2>3. ASSUME NEW b \in Agents
        PROVE  /\ at'[b] = "deliver" => using'[b] \in 1..sent'
               /\ at'[b] \notin {"read", "deliver"} => using'[b] = 0
    <3>1. CASE b = a
      BY <2>1, <3>1
    <3>2. CASE b # a
      BY <1>0, <2>1, <3>2 DEF ReadersType
    <3> QED
      BY <3>1, <3>2
  <2>4. \A b, c \in Agents : at'[b] = "read" /\ at'[c] = "read" => b = c
    BY <2>1, <2>2 DEF ReadersType
  <2> QED
    BY <2>3, <2>4 DEF ReadersType
<1>3. ASSUME NEW a \in Agents, Connecting(a) PROVE ReadersType'
  <2>1. at[a] \notin {"read", "deliver"}
    BY <1>3 DEF Connecting, Dial, DialFails, ConnectError, Announce, Install
  <2>2. using[a] = 0
    BY <2>1 DEF ReadersType
  <2>3. using' = using
    BY <1>3 DEF Connecting, Dial, DialFails, ConnectError, Announce, Install
  <2>4. at' = at \/ \E step \in Steps \ {"read", "deliver"} : Goes(a, step)
    BY <1>3 DEF Connecting, Dial, DialFails, ConnectError, Announce, Install, Steps
  <2> QED
    BY <1>1, <1>2, <2>2, <2>3, <2>4
<1>4. ASSUME NEW a \in Agents, StartRead(a) PROVE ReadersType'
  <2>1. CASE Conn = 0
    BY <1>1, <1>4, <2>1 DEF StartRead, agentVars
  <2>2. CASE Conn # 0
    <3>1. at'[a] = "read" /\ \A b \in Agents \ {a} : at'[b] = at[b] /\ using'[b] = using[b]
      BY <1>4, <2>2 DEF StartRead, Goes
    <3>2. \A b \in Agents : at[b] # "read"
      BY <1>4 DEF StartRead
    <3> QED
      BY <1>0, <3>1, <3>2 DEF ReadersType
  <2> QED
    BY <2>1, <2>2
<1>5. ASSUME NEW a \in Agents, Receive(a) PROVE ReadersType'
  <2> DEFINE q == inbox[using[a]]
  <2>1. using[a] \in Conns /\ q \in Seq(Nat) /\ q # << >> /\ Head(q) # 0
    BY <1>5, ConnsAssumption DEF Receive, Conns, Bye
  <2>2. Head(q) = q[1] /\ 1 \in 1..Len(q) /\ Head(q) \in Nat
    BY <2>1
  <2>3. Head(q) \in 1..sent
    BY <2>1, <2>2 DEF InboxSent
  <2>4. /\ at'[a] = "deliver" /\ using'[a] = Head(q) /\ sent' = sent
        /\ \A b \in Agents \ {a} : at'[b] = at[b] /\ using'[b] = using[b]
    BY <1>5 DEF Receive, Goes
  <2> QED
    BY <2>3, <2>4 DEF ReadersType
<1>6. ASSUME NEW a \in Agents, ReceiveClose(a) PROVE ReadersType'
  <2>1. PICK new \in SUBSET {b \in Agents : at[b] = "none"} :
           at' = [b \in Agents |-> IF b = a THEN "failed"
                                   ELSE IF b \in new THEN "dial" ELSE at[b]]
    BY <1>6 DEF ReceiveClose
  <2>2. using' = [using EXCEPT ![a] = 0] /\ sent' = sent
    BY <1>6 DEF ReceiveClose
  <2>3. /\ at'[a] = "failed" /\ using'[a] = 0
        /\ \A b \in Agents \ {a} :
              /\ using'[b] = using[b]
              /\ at'[b] = at[b] \/ (at[b] = "none" /\ at'[b] = "dial")
    <3>1. at'[a] = "failed" /\ using'[a] = 0
      BY <2>1, <2>2
    <3>2. ASSUME NEW b \in Agents \ {a} PROVE using'[b] = using[b]
      BY <2>2, <3>2
    <3>3. ASSUME NEW b \in Agents \ {a}
          PROVE  at'[b] = at[b] \/ (at[b] = "none" /\ at'[b] = "dial")
      <4>1. at'[b] = IF b \in new THEN "dial" ELSE at[b]
        BY <2>1, <3>3
      <4>2. b \in new => at[b] = "none"
        BY <2>1
      <4>3. CASE b \in new
        BY <4>1, <4>2, <4>3
      <4>4. CASE b \notin new
        BY <4>1, <4>4
      <4> QED
        BY <4>3, <4>4
    <3> QED
      BY <3>1, <3>2, <3>3
  <2>4. \A b \in Agents :
           /\ at'[b] = "read" => b # a /\ at[b] = "read"
           /\ at'[b] = "deliver" => at[b] = "deliver" /\ using'[b] = using[b]
    BY <2>3
  <2>5. ASSUME NEW b \in Agents, at'[b] \notin {"read", "deliver"} PROVE using'[b] = 0
    <3>1. CASE b = a
      BY <2>3, <3>1
    <3>2. CASE b # a
      <4>1. at[b] \notin {"read", "deliver"} /\ using'[b] = using[b]
        BY <2>3, <2>5, <3>2
      <4> QED
        BY <4>1 DEF ReadersType
    <3> QED
      BY <3>1, <3>2
  <2> QED
    BY <2>2, <2>4, <2>5 DEF ReadersType
<1>7. ASSUME NEW a \in Agents, ReadError(a) \/ Disconnected(a) \/ Deliver(a)
      PROVE  ReadersType'
  <2>1. at[a] = "failed" => using[a] = 0
    BY DEF ReadersType
  <2>2. {"failed", "dial", "want"} \subseteq Steps \ {"read", "deliver"}
    BY DEF Steps
  <2>3. \E step \in {"failed", "dial", "want"} : Goes(a, step)
    BY <1>7 DEF ReadError, Disconnected, Deliver
  <2>4. using' = [using EXCEPT ![a] = 0] \/ (using' = using /\ using[a] = 0)
    <3>1. CASE ReadError(a)
      BY <3>1 DEF ReadError
    <3>3. CASE Deliver(a)
      BY <3>3 DEF Deliver
    <3>2. CASE Disconnected(a)
      BY <2>1, <3>2 DEF Disconnected
    <3> QED
      BY <1>7, <3>1, <3>2, <3>3
  <2> QED
    BY <1>2, <2>2, <2>3, <2>4
<1>8. ASSUME NEW s \in Submitters, CheckConnected(s) \/ SendText(s) PROVE ReadersType'
  BY <1>1, <1>8 DEF CheckConnected, SendText, agentVars
<1>9. CASE Handle \/ Node \/ UNCHANGED wsVars
  BY <1>1, <1>9 DEF Handle, Node, NodeSends, NodeCloses, ConnBreaks, wsVars, agentVars
<1> QED
  BY <1>3, <1>4, <1>5, <1>6, <1>7, <1>8, <1>9 DEF WsNext, Reading

-----------------------------------------------------------------------------
(* Theorems *)

\* WsInv holds in every state.
THEOREM ClientInvariant == WsSpec => []WsInv
<1>1. WsInit => WsInv
  BY InitWsInv
<1>2. WsInv /\ [WsNext]_wsVars => WsInv'
  BY TypesStep, CalmStep DEF WsInv
<1> QED
  BY <1>1, <1>2, PTL DEF WsSpec

\* Messages reach the message goroutine in order until a close frame
\* (OnTextMessage, Connect).
THEOREM MessagesInOrder == WsSpec => []InOrder
<1>1. WsInv => InOrder
  BY DEF WsInv, Calm, InOrder
<1> QED
  BY <1>1, ClientInvariant, PTL

\* A reader or a reconnect that meets a nil connection has company, which
\* only a close frame gives it (Connect).
THEOREM NoNilBeforeClose == WsSpec => []NilNeedsClose
<1>1. WsInv => NilNeedsClose
  BY DEF WsInv, Types, Calm, NilNeedsClose
<1> QED
  BY <1>1, ClientInvariant, PTL

\* The client's state keeps its shape: one reader at a time, which holds a
\* connection that was made or a message that was sent; and no more handlers are
\* installed than connections were made (Connect, OnDisconnected).
THEOREM ClientTypeCorrect == WsSpec => []WsTypeOK
<1>1. WsInit => Types /\ Shape
  BY InitWsInv, InitShape DEF WsInv
<1>2. Types /\ Shape /\ [WsNext]_wsVars => (Types /\ Shape)'
  BY TypesStep, RestTypeStep, HandlersStep, InboxSentStep, ReadersStep DEF Shape
<1>3. Types /\ Shape => WsTypeOK
  <2> SUFFICES ASSUME Types, Shape PROVE WsTypeOK
    OBVIOUS
  <2>1. handlers \in [Conns -> 0..MaxConns]
    <3>1. Cardinality(Pending) \in Nat
      BY FS_CardinalityType DEF Shape, HandlersCounted
    <3>2. \A c \in Conns : handlers[c] \in 0..MaxConns
      BY <3>1, ConnsAssumption DEF Types, Shape, HandlersCounted
    <3> QED
      BY <3>2 DEF Shape
  <2>2. at \in [Agents -> {"none", "dial", "refused", "announce", "install", "want",
                           "read", "deliver", "failed"}]
    BY DEF Types, Steps
  <2> QED
    BY <2>1, <2>2 DEF Types, Shape, ReadersType, RestType, WsTypeOK
<1> QED
  BY <1>1, <1>2, <1>3, PTL DEF WsSpec
=============================================================================
