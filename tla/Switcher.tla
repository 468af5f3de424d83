------------------------------ MODULE Switcher ------------------------------
(***************************************************************************)
(* The switcher: a server to which SwitcherClients connect, and which      *)
(* passes a value from the Push of one client to the Pop of another.       *)
(*                                                                         *)
(* The server is one thread that runs coroutines: start_accept, one handle *)
(* per connection and one transfer_data per pair.  A step of the server is *)
(* what a coroutine does between two suspensions; a step of a client is    *)
(* one package written or read.  A connection is a stream of packages in   *)
(* each direction; a package cut off by the end of a connection is not     *)
(* there, since read_package throws.                                       *)
(***************************************************************************)
EXTENDS Naturals, Sequences, FiniteSets

CONSTANTS
    Client,     \* the clients, each with one connection
    Topic,      \* the topics
    Value,      \* what is pushed: serialized values, and EOF
    Plans,      \* what the clients may do: functions to sequences of calls
    Leavers,    \* the clients that may go away in the middle of a call
    MayStop,    \* whether the server may be stopped
    Nil         \* no value

PushCall == [op : {"push"}, topic : Topic, value : Value]
Call == PushCall \cup [op : {"pop", "check", "close"}, topic : Topic]

ASSUME ClientAssumption == IsFiniteSet(Client) /\ Leavers \subseteq Client
ASSUME PlanAssumption == Plans \subseteq [Client -> Seq(Call)]
ASSUME SwitchAssumption == MayStop \in BOOLEAN /\ Nil \notin Value \cup Call

VARIABLES
    todo,           \* todo[c]: the calls of client c that have not returned
    pc,             \* pc[c]: where client c is
    val,            \* val[c]: the data package that a Pop of c has read
    up,             \* up[c]: the packages from c to the server
    down,           \* down[c]: the packages from the server to c
    srv,            \* srv[c]: who has the server's socket of c
    topics,         \* the keys of datas_
    pushing_nodes,  \* pushing_nodes[t]: sockets whose push request waits
    poping_nodes,   \* poping_nodes[t]: sockets whose pop request waits
    transfers,      \* the coroutines in transfer_data
    accepting,      \* start_accept is in its loop
    offered         \* history: offered[c]: the Push of c not yet written to a Pop

client == <<todo, pc, val>>
datas == <<topics, pushing_nodes, poping_nodes>>
vars == <<client, up, down, srv, datas, transfers, accepting, offered>>

(* The response codes are not told apart.                                  *)
Response == [type |-> "response"]

Inside == {"push_data", "pop_data", "response"}
Package == [type : {"request"}, call : Call] \cup [type : {"data"}, value : Value]
               \cup {Response}
Transfer == [push : Client, pop : Client, value : Value \cup {Nil},
             at : {"start", "read", "write_data", "respond_push", "respond_pop"}]

(* A list of waiting sockets belongs to a key of datas_.                   *)
TypeOK ==
    /\ todo \in [Client -> Seq(Call)]
    /\ pc \in [Client -> {"new", "idle", "ended"} \cup Inside]
    /\ val \in [Client -> Value \cup {Nil}]
    /\ up \in [Client -> Seq(Package)]
    /\ down \in [Client -> Seq(Package)]
    /\ srv \in [Client -> {"none", "backlog", "handle", "reply", "waiting", "transfer", "closed"}]
    /\ topics \subseteq Topic
    /\ pushing_nodes \in [Topic -> Seq(Client)]
    /\ poping_nodes \in [Topic -> Seq(Client)]
    /\ \A t \in Topic \ topics : pushing_nodes[t] = <<>> /\ poping_nodes[t] = <<>>
    /\ transfers \subseteq Transfer
    /\ accepting \in BOOLEAN
    /\ offered \in [Client -> PushCall \cup {Nil}]

Init ==
    /\ todo \in Plans
    /\ pc = [c \in Client |-> "new"]
    /\ val = [c \in Client |-> Nil]
    /\ up = [c \in Client |-> <<>>]
    /\ down = [c \in Client |-> <<>>]
    /\ srv = [c \in Client |-> "none"]
    /\ topics = {}
    /\ pushing_nodes = [t \in Topic |-> <<>>]
    /\ poping_nodes = [t \in Topic |-> <<>>]
    /\ transfers = {}
    /\ accepting = TRUE
    /\ offered = [c \in Client |-> Nil]

-----------------------------------------------------------------------------
(* The client.                                                             *)

Request(c) == Head(todo[c])
Goto(c, location) == pc' = [pc EXCEPT ![c] = location]
Send(c, pkg) == up' = [up EXCEPT ![c] = Append(@, pkg)]
server == <<srv, datas, transfers, accepting>>

(* The client is gone, with what it still had to do.                       *)
Ended(c) == /\ Goto(c, "ended")
            /\ todo' = [todo EXCEPT ![c] = <<>>]
            /\ val' = [val EXCEPT ![c] = Nil]
            /\ down' = [down EXCEPT ![c] = <<>>]

(* Connect: the listening socket takes the connection, or nobody listens   *)
(* and Connect throws.                                                     *)
Connect(c) ==
    /\ pc[c] = "new"
    /\ \/ /\ accepting
          /\ Goto(c, "idle")
          /\ srv' = [srv EXCEPT ![c] = "backlog"]
          /\ UNCHANGED <<todo, val, down>>
       \/ /\ ~ accepting
          /\ Ended(c)
          /\ UNCHANGED srv
    /\ UNCHANGED <<up, datas, transfers, accepting, offered>>

(* Push, Pop, CheckTopicExist and CloseTopic write their request.          *)
WriteRequest(c) ==
    /\ pc[c] = "idle"
    /\ todo[c] # <<>>
    /\ Send(c, [type |-> "request", call |-> Request(c)])
    /\ offered' = IF Request(c).op = "push" THEN [offered EXCEPT ![c] = Request(c)] ELSE offered
    /\ Goto(c, CASE Request(c).op = "push" -> "push_data"
                 [] Request(c).op = "pop" -> "pop_data"
                 [] OTHER -> "response")
    /\ UNCHANGED <<todo, val, down, server>>

(* Push writes its data package.                                           *)
WriteData(c) ==
    /\ pc[c] = "push_data"
    /\ Send(c, [type |-> "data", value |-> Request(c).value])
    /\ Goto(c, "response")
    /\ UNCHANGED <<todo, val, down, server, offered>>

(* Pop reads its data package.                                             *)
ReadData(c) ==
    /\ pc[c] = "pop_data"
    /\ down[c] # <<>>
    /\ val' = [val EXCEPT ![c] = Head(down[c]).value]
    /\ down' = [down EXCEPT ![c] = Tail(@)]
    /\ Goto(c, "response")
    /\ UNCHANGED <<todo, up, server, offered>>

(* The response package, with which every call returns.                    *)
ReadResponse(c) ==
    /\ pc[c] = "response"
    /\ down[c] # <<>>
    /\ down' = [down EXCEPT ![c] = Tail(@)]
    /\ todo' = [todo EXCEPT ![c] = Tail(@)]
    /\ val' = [val EXCEPT ![c] = Nil]
    /\ Goto(c, "idle")
    /\ UNCHANGED <<up, server, offered>>

(* A read throws when the server has closed the connection; data that the  *)
(* server had not read makes the client lose what it had not read.         *)
CallThrows(c) ==
    /\ pc[c] \in {"pop_data", "response"}
    /\ srv[c] = "closed"
    /\ down[c] = <<>> \/ up[c] # <<>>
    /\ Ended(c)
    /\ UNCHANGED <<up, server, offered>>

(* ~SwitcherClient between two calls, or the end of the client's process   *)
(* or of its connection at any time: the last packages may not arrive.     *)
Leave(c) ==
    /\ \/ pc[c] = "idle" /\ todo[c] = <<>>
       \/ pc[c] # "ended" /\ c \in Leavers
    /\ Ended(c)
    /\ \E k \in 0..Len(up[c]) : up' = [up EXCEPT ![c] = SubSeq(@, 1, k)]
    /\ UNCHANGED <<server, offered>>

-----------------------------------------------------------------------------
(* The server.                                                             *)

gone(c) == pc[c] = "ended"
Owned(c, owner) == srv' = [srv EXCEPT ![c] = owner]

(* write_package to a client that is gone goes nowhere.                    *)
Write(c, pkg) == down' = IF gone(c) THEN down ELSE [down EXCEPT ![c] = Append(@, pkg)]

(* start_accept: when the peer is gone, get_remote_ipport may throw, which *)
(* ends the loop and with it the listening socket.                         *)
Accept(c) ==
    /\ accepting
    /\ srv[c] = "backlog"
    /\ \/ Owned(c, "handle") /\ UNCHANGED accepting
       \/ /\ gone(c)
          /\ accepting' = FALSE
          /\ srv' = [d \in Client |-> IF srv[d] = "backlog" THEN "closed" ELSE srv[d]]
    /\ UNCHANGED <<client, up, down, datas, transfers, offered>>

Back(s) == s[Len(s)]
PopBack(s) == SubSeq(s, 1, Len(s) - 1)

(* The coroutine transfer_data is spawned for two sockets.                 *)
Spawn(p, q) ==
    /\ transfers' = transfers \cup {[push |-> p, pop |-> q, value |-> Nil, at |-> "start"]}
    /\ srv' = [srv EXCEPT ![p] = "transfer", ![q] = "transfer"]

(* Mutant: the socket of the pop request stays in the list.                *)
PushRequestKeepsPop(c, t) ==
    IF poping_nodes[t] = <<>>
    THEN /\ topics' = topics \cup {t}
         /\ pushing_nodes' = [pushing_nodes EXCEPT ![t] = Append(@, c)]
         /\ Owned(c, "waiting")
         /\ UNCHANGED <<poping_nodes, transfers>>
    ELSE /\ Spawn(c, Back(poping_nodes[t]))
         /\ UNCHANGED datas

(* Mutant: the request waits under a topic that is not in datas_.          *)
PushRequestNoTopic(c, t) ==
    IF poping_nodes[t] = <<>>
    THEN /\ pushing_nodes' = [pushing_nodes EXCEPT ![t] = Append(@, c)]
         /\ Owned(c, "waiting")
         /\ UNCHANGED <<topics, poping_nodes, transfers>>
    ELSE /\ poping_nodes' = [poping_nodes EXCEPT ![t] = PopBack(@)]
         /\ Spawn(c, Back(poping_nodes[t]))
         /\ UNCHANGED <<topics, pushing_nodes>>

handle_push_request(c, t) ==
    IF poping_nodes[t] = <<>>
    THEN /\ topics' = topics \cup {t}
         /\ pushing_nodes' = [pushing_nodes EXCEPT ![t] = Append(@, c)]
         /\ Owned(c, "waiting")
         /\ UNCHANGED <<poping_nodes, transfers>>
    ELSE /\ poping_nodes' = [poping_nodes EXCEPT ![t] = PopBack(@)]
         /\ Spawn(c, Back(poping_nodes[t]))
         /\ UNCHANGED <<topics, pushing_nodes>>

(* Mutant: a pop request does not look for a push request.                 *)
PopRequestWaits(c, t) ==
    /\ topics' = topics \cup {t}
    /\ poping_nodes' = [poping_nodes EXCEPT ![t] = Append(@, c)]
    /\ Owned(c, "waiting")
    /\ UNCHANGED <<pushing_nodes, transfers>>

handle_pop_request(c, t) ==
    IF pushing_nodes[t] = <<>>
    THEN /\ topics' = topics \cup {t}
         /\ poping_nodes' = [poping_nodes EXCEPT ![t] = Append(@, c)]
         /\ Owned(c, "waiting")
         /\ UNCHANGED <<pushing_nodes, transfers>>
    ELSE /\ pushing_nodes' = [pushing_nodes EXCEPT ![t] = PopBack(@)]
         /\ Spawn(Back(pushing_nodes[t]), c)
         /\ UNCHANGED <<topics, poping_nodes>>

InList(c, s) == \E i \in DOMAIN s : s[i] = c

(* Mutant: the sockets of the topic are forgotten and stay open.           *)
CloseTopicForgets(c, t) ==
    /\ topics' = topics \ {t}
    /\ pushing_nodes' = [pushing_nodes EXCEPT ![t] = <<>>]
    /\ poping_nodes' = [poping_nodes EXCEPT ![t] = <<>>]
    /\ Owned(c, "reply")
    /\ UNCHANGED transfers

(* The topic is erased from datas_, which closes the sockets that wait.    *)
handle_close_topic_request(c, t) ==
    /\ topics' = topics \ {t}
    /\ pushing_nodes' = [pushing_nodes EXCEPT ![t] = <<>>]
    /\ poping_nodes' = [poping_nodes EXCEPT ![t] = <<>>]
    /\ srv' = [d \in Client |-> IF d = c THEN "reply"
                                ELSE IF InList(d, pushing_nodes[t]) \/ InList(d, poping_nodes[t])
                                THEN "closed" ELSE srv[d]]
    /\ UNCHANGED transfers

handle_check_topic_exist(c, t) ==
    /\ Owned(c, "reply")
    /\ UNCHANGED <<datas, transfers>>

(* handle: one request.  When the peer is gone, there may be no request,   *)
(* or get_remote_ipport throws; the socket is dropped.                     *)
Handle(c) ==
    /\ srv[c] = "handle"
    /\ \/ /\ up[c] # <<>>
          /\ LET call == Head(up[c]).call
             IN  CASE call.op = "push" -> handle_push_request(c, call.topic)
                   [] call.op = "pop" -> handle_pop_request(c, call.topic)
                   [] call.op = "close" -> handle_close_topic_request(c, call.topic)
                   [] call.op = "check" -> handle_check_topic_exist(c, call.topic)
          /\ up' = [up EXCEPT ![c] = Tail(@)]
       \/ /\ gone(c)
          /\ Owned(c, "closed")
          /\ UNCHANGED <<up, datas, transfers>>
    /\ UNCHANGED <<client, down, accepting, offered>>

(* The response to check and close, after which handle is spawned again.   *)
Reply(c) ==
    /\ srv[c] = "reply"
    /\ \/ Write(c, Response) /\ Owned(c, "handle")
       \/ gone(c) /\ Owned(c, "closed") /\ UNCHANGED down
    /\ UNCHANGED <<client, up, datas, transfers, accepting, offered>>

-----------------------------------------------------------------------------
(* transfer_data.                                                          *)

Step(x, y) == transfers' = (transfers \ {x}) \cup {y}

TransferStart(x) ==
    /\ x.at = "start"
    /\ Step(x, [x EXCEPT !.at = "read"])
    /\ UNCHANGED <<client, up, down, srv, offered>>

TransferRead(x) ==
    /\ x.at = "read"
    /\ up[x.push] # <<>>
    /\ up' = [up EXCEPT ![x.push] = Tail(@)]
    /\ Step(x, [x EXCEPT !.at = "write_data", !.value = Head(up[x.push]).value])
    /\ UNCHANGED <<client, down, srv, offered>>

(* Mutant: the push request is answered before the data is passed on.      *)
TransferWriteLate(x) ==
    /\ x.at = "write_data"
    /\ Write(x.push, Response)
    /\ Step(x, [x EXCEPT !.at = "respond_push"])
    /\ UNCHANGED <<client, up, srv, offered>>

TransferWrite(x) ==
    /\ x.at = "write_data"
    /\ Write(x.pop, [type |-> "data", value |-> x.value])
    /\ offered' = [offered EXCEPT ![x.push] = Nil]
    /\ Step(x, [x EXCEPT !.at = "respond_push"])
    /\ UNCHANGED <<client, up, srv>>

TransferRespondPush(x) ==
    /\ x.at = "respond_push"
    /\ Write(x.push, Response)
    /\ Step(x, [x EXCEPT !.at = "respond_pop"])
    /\ UNCHANGED <<client, up, srv, offered>>

(* The response to the Pop; both sockets go back to handle.                *)
TransferRespondPop(x) ==
    /\ x.at = "respond_pop"
    /\ Write(x.pop, Response)
    /\ transfers' = transfers \ {x}
    /\ srv' = [srv EXCEPT ![x.push] = "handle", ![x.pop] = "handle"]
    /\ UNCHANGED <<client, up, offered>>

(* Mutant: the sockets are kept and handled when the transfer has failed.  *)
TransferThrowsKeeps(x) ==
    /\ gone(x.push) \/ gone(x.pop)
    /\ transfers' = transfers \ {x}
    /\ srv' = [srv EXCEPT ![x.push] = "handle", ![x.pop] = "handle"]
    /\ UNCHANGED <<client, up, down, offered>>

(* A read, a write or get_remote_ipport throws, because a peer is gone:    *)
(* both sockets are closed.                                                *)
TransferThrows(x) ==
    /\ \/ x.at = "read" /\ gone(x.push) /\ up[x.push] = <<>>
       \/ x.at = "write_data" /\ gone(x.pop)
       \/ x.at \in {"start", "respond_push", "respond_pop"} /\ (gone(x.push) \/ gone(x.pop))
    /\ transfers' = transfers \ {x}
    /\ srv' = [srv EXCEPT ![x.push] = "closed", ![x.pop] = "closed"]
    /\ UNCHANGED <<client, up, down, offered>>

transfer_data(x) ==
    /\ \/ TransferStart(x) \/ TransferRead(x) \/ TransferWrite(x)
       \/ TransferRespondPush(x) \/ TransferRespondPop(x) \/ TransferThrows(x)
    /\ UNCHANGED <<datas, accepting>>

(* Stop and the destructor: every socket of the server is closed.          *)
Stop ==
    /\ MayStop
    /\ accepting' = FALSE
    /\ srv' = [c \in Client |-> IF srv[c] = "none" THEN "none" ELSE "closed"]
    /\ topics' = {}
    /\ pushing_nodes' = [t \in Topic |-> <<>>]
    /\ poping_nodes' = [t \in Topic |-> <<>>]
    /\ transfers' = {}
    /\ UNCHANGED <<client, up, down, offered>>

-----------------------------------------------------------------------------

ClientStep(c) == \/ Connect(c) \/ WriteRequest(c) \/ WriteData(c)
                 \/ ReadData(c) \/ ReadResponse(c) \/ CallThrows(c)
ConnectionStep(c) == Accept(c) \/ Handle(c) \/ Reply(c)

Next ==
    \/ \E c \in Client : ClientStep(c) \/ Leave(c) \/ ConnectionStep(c)
    \/ \E x \in transfers : transfer_data(x)
    \/ Stop

Spec == Init /\ [][Next]_vars

(* Clients go on with their calls, and the server's thread gets round to   *)
(* every coroutine that can run.  Nobody has to leave, or to stop.         *)
Fairness ==
    \A c \in Client :
        /\ WF_vars(ClientStep(c))
        /\ WF_vars(ConnectionStep(c))
        /\ WF_vars(\E x \in transfers : x.push = c /\ transfer_data(x))
FairSpec == Spec /\ Fairness

-----------------------------------------------------------------------------

Waits(c) == \E t \in Topic : InList(c, pushing_nodes[t]) \/ InList(c, poping_nodes[t])

(* A socket is moved from handle to a list of datas_, to transfer_data and *)
(* back: nobody uses a socket that was moved away, no socket is in two     *)
(* lists, or twice in one, or in two transfers, and none is forgotten.     *)
SocketsHaveOneOwner ==
    /\ \A c \in Client :
           /\ (srv[c] = "waiting") <=> Waits(c)
           /\ (srv[c] = "transfer") <=> \E x \in transfers : c \in {x.push, x.pop}
    /\ \A x, y \in transfers : {x.push, x.pop} \cap {y.push, y.pop} # {} => x = y
    /\ \A x \in transfers : x.push # x.pop
    /\ \A s, t \in Topic : \A i \in DOMAIN pushing_nodes[s], j \in DOMAIN poping_nodes[t] :
           pushing_nodes[s][i] # poping_nodes[t][j]
    /\ \A s, t \in Topic : \A i \in DOMAIN pushing_nodes[s], j \in DOMAIN pushing_nodes[t] :
           pushing_nodes[s][i] = pushing_nodes[t][j] => s = t /\ i = j
    /\ \A s, t \in Topic : \A i \in DOMAIN poping_nodes[s], j \in DOMAIN poping_nodes[t] :
           poping_nodes[s][i] = poping_nodes[t][j] => s = t /\ i = j

(* Nobody parses a package of another type than the one it expects: after  *)
(* an exception at any point of a transfer, neither the server nor a       *)
(* client goes on in the middle of an exchange.                            *)
StreamsAligned ==
    /\ \A c \in Client :
           /\ srv[c] = "handle" /\ up[c] # <<>> => Head(up[c]).type = "request"
           /\ pc[c] = "pop_data" /\ down[c] # <<>> => Head(down[c]).type = "data"
           /\ pc[c] = "response" /\ down[c] # <<>> => Head(down[c]).type = "response"
    /\ \A x \in transfers :
           x.at = "read" /\ up[x.push] # <<>> => Head(up[x.push]).type = "data"

(* A push request and a pop request of one topic never both wait.          *)
NeverBothWaiting ==
    \A t \in Topic : pushing_nodes[t] = <<>> \/ poping_nodes[t] = <<>>

(* Every value goes from one Push to one Pop of the same topic, and a Push *)
(* returns only when its value was passed on, whoever goes away meanwhile. *)
Meeting == INSTANCE Rendezvous WITH
    inside <- {c \in Client : pc[c] \in Inside},
    has <- [c \in Client |->
               IF pc[c] = "pop_data" /\ down[c] # <<>> THEN Head(down[c]).value ELSE val[c]]
ImplementsRendezvous == Meeting!Spec

(* No client hangs: in the end every call has returned or thrown, unless   *)
(* its request waits in datas_ for a partner.                              *)
CallsSettle == <>[](\A c \in Client : pc[c] \in Inside => Waits(c))

=============================================================================
