--------------------------- MODULE SwitcherProofs ---------------------------
(***************************************************************************)
(* Proofs about Switcher, for all clients, topics, values and plans,       *)
(* whoever may leave and whether or not the server may be stopped.         *)
(*                                                                         *)
(* The server's socket of a client is in a mode, given by who has it; in   *)
(* each mode the packages on their way in both directions, the place of    *)
(* the client in its call and the history variable offered fit together.   *)
(*                                                                         *)
(*   Invariant      the conjunction of these facts                         *)
(*   TypeCorrect    every variable keeps its type                          *)
(*   OneOwner       every socket of the server has one owner               *)
(*   NeverBoth      no push and pop request of a topic wait together       *)
(*   Aligned        nobody reads a package of another type                 *)
(*   Refinement     the switcher implements the atomic Rendezvous          *)
(***************************************************************************)
EXTENDS Switcher, SequenceTheorems, TLAPS

Req(call) == [type |-> "request", call |-> call]
Data(v) == [type |-> "data", value |-> v]
Op(c) == Request(c).op

(* A client by itself: where it is, what it has read and has to read.      *)
ClientInv(c) ==
    /\ pc[c] \in Inside => todo[c] # <<>>
    /\ gone(c) => todo[c] = <<>>
    /\ pc[c] = "push_data" => Op(c) = "push"
    /\ pc[c] = "pop_data" => Op(c) = "pop"
    /\ pc[c] # "response" => val[c] = Nil
    /\ pc[c] = "response" => (val[c] # Nil <=> Op(c) = "pop")
    /\ pc[c] \notin {"pop_data", "response"} => down[c] = <<>>
    /\ pc[c] = "pop_data" => \/ down[c] = <<>>
                             \/ \E v \in Value : down[c] \in {<<Data(v)>>, <<Data(v), Response>>}
    /\ pc[c] = "response" => down[c] \in {<<>>, <<Response>>}
    /\ pc[c] = "response" /\ down[c] # <<>> /\ Op(c) = "push" => offered[c] = Nil

(* The server is to read a request.                                        *)
AsksUp(c) ==
    \/ up[c] = <<>>
    \/ \E call \in Call : up[c] = <<Req(call)>> /\ (call.op = "push" => offered[c] = call)
    \/ \E call \in PushCall : up[c] = <<Req(call), Data(call.value)>> /\ offered[c] = call
Asks(c) ==
    /\ AsksUp(c)
    /\ pc[c] \in {"new", "idle"} => up[c] = <<>>
    /\ pc[c] = "push_data" => up[c] = <<Req(Request(c))>>
    /\ pc[c] = "pop_data" => \/ up[c] = <<Req(Request(c))>> /\ down[c] = <<>>
                             \/ up[c] = <<>> /\ Len(down[c]) = 2
    /\ pc[c] = "response" =>
           \/ up[c] = <<>> /\ down[c] = <<Response>>
           \/ down[c] = <<>> /\ Op(c) = "push" /\ up[c] = <<Req(Request(c)), Data(Request(c).value)>>
           \/ down[c] = <<>> /\ Op(c) \notin {"push", "pop"} /\ up[c] = <<Req(Request(c))>>

(* The request of a Push was read: its data was not, was, was passed on.   *)
Pushes(c) ==
    /\ offered[c] \in PushCall
    /\ up[c] = <<>> \/ up[c] = <<Data(offered[c].value)>>
    /\ ~ gone(c) => /\ Request(c) = offered[c] /\ down[c] = <<>>
                    /\ \/ pc[c] = "push_data" /\ up[c] = <<>>
                       \/ pc[c] = "response" /\ up[c] # <<>>
Given(c) ==
    /\ offered[c] \in PushCall
    /\ up[c] = <<>>
    /\ ~ gone(c) => pc[c] = "response" /\ Request(c) = offered[c] /\ down[c] = <<>>
Taken(c) ==
    /\ offered[c] = Nil
    /\ up[c] = <<>>
    /\ ~ gone(c) => pc[c] = "response" /\ Op(c) = "push" /\ down[c] = <<>>

(* The request of a Pop was read; its data was written.                    *)
Pops(c) == up[c] = <<>> /\ (~ gone(c) => pc[c] = "pop_data" /\ down[c] = <<>>)
Popped(c) ==
    /\ up[c] = <<>>
    /\ ~ gone(c) => \/ pc[c] = "pop_data" /\ Len(down[c]) = 1
                    \/ pc[c] = "response" /\ down[c] = <<>> /\ Op(c) = "pop"

(* The request of CheckTopicExist or CloseTopic was read.                  *)
Replies(c) ==
    /\ up[c] = <<>>
    /\ ~ gone(c) => pc[c] = "response" /\ Op(c) \notin {"push", "pop"} /\ down[c] = <<>>

Mode == {"asks", "pushes", "given", "taken", "pops", "popped", "replies"}
Talk(c, m) ==
    /\ m = "asks" => Asks(c)
    /\ m = "pushes" => Pushes(c)
    /\ m = "given" => Given(c)
    /\ m = "taken" => Taken(c)
    /\ m = "pops" => Pops(c)
    /\ m = "popped" => Popped(c)
    /\ m = "replies" => Replies(c)

(* The modes of the two sockets of a transfer.                             *)
PushMode(x) == IF x.at \in {"start", "read"} THEN "pushes" ELSE IF x.at = "write_data" THEN "given"
               ELSE IF x.at = "respond_push" THEN "taken" ELSE "asks"
PopMode(x) == IF x.at \in {"start", "read", "write_data"} THEN "pops" ELSE "popped"

InMode(c, m) ==
    \/ m = "asks" /\ srv[c] \in {"none", "backlog", "handle"}
    \/ m = "replies" /\ srv[c] = "reply"
    \/ m = "pushes" /\ \E t \in Topic : InList(c, pushing_nodes[t])
    \/ m = "pops" /\ \E t \in Topic : InList(c, poping_nodes[t])
    \/ \E x \in transfers : (x.push = c /\ m = PushMode(x)) \/ (x.pop = c /\ m = PopMode(x))

ModeInv == \A c \in Client, m \in Mode : InMode(c, m) => Talk(c, m)

(* A push request and a pop request that meet are of one topic.            *)
TopicInv ==
    /\ \A t \in Topic, d \in Client : InList(d, pushing_nodes[t]) => offered[d].topic = t
    /\ \A t \in Topic, d \in Client : InList(d, poping_nodes[t]) /\ ~ gone(d) => Request(d).topic = t
    /\ \A x \in transfers : x.at \in {"start", "read", "write_data"} =>
           /\ ~ gone(x.pop) => Request(x.pop).topic = offered[x.push].topic
           /\ x.at = "write_data" => x.value = offered[x.push].value

OwnInv ==
    /\ SocketsHaveOneOwner
    /\ NeverBothWaiting
    /\ \A c \in Client : pc[c] = "new" => srv[c] = "none"

TalkInv == (\A c \in Client : ClientInv(c)) /\ ModeInv /\ TopicInv

Inv == TypeOK /\ OwnInv /\ TalkInv

-----------------------------------------------------------------------------

(* Short sequences.                                                        *)
LEMMA One ==
  ASSUME NEW a
  PROVE  /\ Head(<<a>>) = a /\ Tail(<<a>>) = <<>> /\ Len(<<a>>) = 1 /\ <<a>> # <<>>
         /\ Append(<<>>, a) = <<a>>
  OBVIOUS

LEMMA Two ==
  ASSUME NEW a, NEW b
  PROVE  /\ Head(<<a, b>>) = a /\ Tail(<<a, b>>) = <<b>> /\ Len(<<a, b>>) = 2 /\ <<a, b>> # <<>>
         /\ Append(<<a>>, b) = <<a, b>> /\ <<a, b>> # <<a>>
  <1>1. <<a, b>> \in Seq({a, b}) /\ <<a>> \in Seq({a, b}) /\ <<b>> \in Seq({a, b})
    OBVIOUS
  <1>2. Head(<<a, b>>) = a /\ Len(<<a, b>>) = 2 /\ <<a, b>> # <<>> /\ <<a, b>> # <<a>>
    OBVIOUS
  <1>3. Tail(<<a, b>>) \in Seq({a, b}) /\ Len(Tail(<<a, b>>)) = 1 /\ Tail(<<a, b>>)[1] = b
    BY <1>1
  <1>4. Append(<<a>>, b) \in Seq({a, b}) /\ Len(Append(<<a>>, b)) = 2
        /\ Append(<<a>>, b)[1] = a /\ Append(<<a>>, b)[2] = b
    BY <1>1
  <1>5. Tail(<<a, b>>) = <<b>>
    BY <1>1, <1>3, SeqEqual
  <1>6. Append(<<a>>, b) = <<a, b>>
    <2>1. \A i \in 1..2 : Append(<<a>>, b)[i] = <<a, b>>[i]
      BY <1>4
    <2> QED BY <1>1, <1>2, <1>4, <2>1, SeqEqual
  <1> QED BY <1>2, <1>5, <1>6

LEMMA Injective ==
  /\ \A a, b : <<a>> = <<b>> => a = b
  /\ \A a, b, c, d : <<a, b>> = <<c, d>> => a = c /\ b = d
  /\ \A a, b, c : <<a, b>> # <<c>>
  OBVIOUS

(* A prefix of up to two packages.                                         *)
LEMMA Prefix ==
  ASSUME NEW a, NEW b, NEW s \in {<<>>, <<a>>, <<a, b>>}, NEW k \in 0..Len(s)
  PROVE  SubSeq(s, 1, k) \in {<<>>, <<a>>, s}
  <1>0. <<a>> \in Seq({a, b}) /\ <<a, b>> \in Seq({a, b}) /\ <<>> \in Seq({a, b})
    OBVIOUS
  <1>1. s \in Seq({a, b}) /\ Len(s) \in 0..2 /\ (Len(s) = 2 => s = <<a, b>>) /\ <<a>> \in Seq({a, b})
    <2>1. CASE s = <<>>
      BY <1>0, <2>1
    <2>2. CASE s = <<a>>
      BY <1>0, <2>2
    <2>3. CASE s = <<a, b>>
      BY <1>0, <2>3
    <2> QED BY <2>1, <2>2, <2>3
  <1>2. CASE k = 0
    BY <1>1, <1>2, SubSeqEmpty
  <1>3. CASE k = Len(s)
    BY <1>1, <1>3, SubSeqFull
  <1>4. CASE k # 0 /\ k # Len(s)
    <2>0. \A m \in 0..2 : \A n \in 0..m : n # 0 /\ n # m => n = 1 /\ m = 2
      OBVIOUS
    <2>1. k = 1 /\ Len(s) = 2
      BY <1>1, <1>4, <2>0, Zenon
    <2>2. s = <<a, b>>
      BY <1>1, <2>1
    <2>3. SubSeq(s, 1, k) \in Seq({a, b}) /\ Len(SubSeq(s, 1, k)) = 1 /\ SubSeq(s, 1, k)[1] = a
      BY <1>1, <2>1, <2>2
    <2>4. Len(<<a>>) = 1 /\ \A i \in 1..1 : SubSeq(s, 1, k)[i] = <<a>>[i]
      BY <2>3
    <2>5. SubSeq(s, 1, k) = <<a>>
      BY <1>1, <2>3, <2>4, SeqEqual
    <2> QED BY <2>5
  <1> QED BY <1>2, <1>3, <1>4

(* The packages.                                                           *)
LEMMA Packages ==
  /\ \A call \in Call : Req(call) \in Package /\ Req(call).type = "request" /\ Req(call).call = call
  /\ \A v \in Value : Data(v) \in Package /\ Data(v).type = "data" /\ Data(v).value = v
  /\ Response \in Package /\ Response.type = "response"
  /\ \A call \in Call : call.op \in {"push", "pop", "check", "close"} /\ call.topic \in Topic
  /\ \A call \in Call : call.op = "push" => call \in PushCall
  /\ \A call \in PushCall : call \in Call /\ call.op = "push" /\ call.value \in Value /\ call.topic \in Topic
  BY DEF Package, Req, Data, Response, Call, PushCall

LEMMA NilIsNoCall == Nil \notin PushCall /\ Nil \notin Value
  BY SwitchAssumption DEF Call

-----------------------------------------------------------------------------

LEMMA InitInv == Init => Inv
  <1> SUFFICES ASSUME Init PROVE Inv
    OBVIOUS
  <1> USE DEF Init
  <1>1. TypeOK
    <2>1. todo \in [Client -> Seq(Call)]
      BY PlanAssumption
    <2>2. up \in [Client -> Seq(Package)] /\ down \in [Client -> Seq(Package)]
      OBVIOUS
    <2>3. pushing_nodes \in [Topic -> Seq(Client)] /\ poping_nodes \in [Topic -> Seq(Client)]
      OBVIOUS
    <2> QED BY <2>1, <2>2, <2>3 DEF TypeOK
  <1>2. /\ \A t \in Topic : DOMAIN pushing_nodes[t] = {} /\ DOMAIN poping_nodes[t] = {}
        /\ transfers = {} /\ \A c \in Client : srv[c] = "none"
        /\ \A t \in Topic : pushing_nodes[t] = <<>>
    OBVIOUS
  <1>3. SocketsHaveOneOwner
    BY <1>2 DEF SocketsHaveOneOwner, Waits, InList
  <1>4. OwnInv
    BY <1>2, <1>3 DEF OwnInv, NeverBothWaiting
  <1>5. ASSUME NEW c \in Client PROVE ClientInv(c) /\ Asks(c)
    <2>1. pc[c] = "new" /\ val[c] = Nil /\ up[c] = <<>> /\ down[c] = <<>>
      OBVIOUS
    <2> QED BY <2>1 DEF ClientInv, Asks, AsksUp, Inside, gone
  <1>6. ModeInv
    BY <1>2, <1>5 DEF ModeInv, InMode, Talk, InList
  <1>7. TopicInv
    BY <1>2 DEF TopicInv, InList
  <1> QED BY <1>1, <1>4, <1>5, <1>6, <1>7 DEF Inv, TalkInv

(* What is said of d stays true while nothing of d moves.                  *)
Same(d) == /\ pc'[d] = pc[d] /\ todo'[d] = todo[d] /\ val'[d] = val[d]
           /\ up'[d] = up[d] /\ down'[d] = down[d] /\ offered'[d] = offered[d]

LEMMA SameTalk ==
  ASSUME NEW d, Same(d)
  PROVE  /\ ClientInv(d) => ClientInv(d)'
         /\ \A m : Talk(d, m) => Talk(d, m)'
         /\ gone(d)' <=> gone(d)
         /\ Request(d)' = Request(d)
  <1>1. (gone(d)' <=> gone(d)) /\ Request(d)' = Request(d) /\ Op(d)' = Op(d)
    BY DEF Same, gone, Request, Op
  <1>2. ClientInv(d) => ClientInv(d)'
    BY <1>1 DEF Same, ClientInv
  <1>3. (Asks(d) => Asks(d)') /\ (Pushes(d) => Pushes(d)') /\ (Given(d) => Given(d)')
    BY <1>1 DEF Same, Asks, AsksUp, Pushes, Given
  <1>4. (Taken(d) => Taken(d)') /\ (Pops(d) => Pops(d)') /\ (Popped(d) => Popped(d)')
        /\ (Replies(d) => Replies(d)')
    BY <1>1 DEF Same, Taken, Pops, Popped, Replies
  <1>5. \A m : Talk(d, m) => Talk(d, m)'
    BY <1>3, <1>4 DEF Talk
  <1> QED BY <1>1, <1>2, <1>5

(* The parts of SocketsHaveOneOwner.                                       *)
Attached == \A c \in Client :
    /\ (srv[c] = "waiting") <=> Waits(c)
    /\ (srv[c] = "transfer") <=> \E x \in transfers : c \in {x.push, x.pop}
Pairs(T) == /\ \A x, y \in T : {x.push, x.pop} \cap {y.push, y.pop} # {} => x = y
            /\ \A x \in T : x.push # x.pop
Apart(P, Q) == \A s, t \in Topic : \A i \in DOMAIN P[s], j \in DOMAIN Q[t] : P[s][i] # Q[t][j]
Distinct(P) == \A s, t \in Topic : \A i \in DOMAIN P[s], j \in DOMAIN P[t] :
                   P[s][i] = P[t][j] => s = t /\ i = j

LEMMA OwnerParts ==
  /\ SocketsHaveOneOwner <=> /\ Attached /\ Pairs(transfers) /\ Apart(pushing_nodes, poping_nodes)
                             /\ Distinct(pushing_nodes) /\ Distinct(poping_nodes)
  /\ SocketsHaveOneOwner' <=> /\ Attached' /\ Pairs(transfers') /\ Apart(pushing_nodes', poping_nodes')
                              /\ Distinct(pushing_nodes') /\ Distinct(poping_nodes')
  <1>1. SocketsHaveOneOwner <=> /\ Attached /\ Pairs(transfers) /\ Apart(pushing_nodes, poping_nodes)
                                /\ Distinct(pushing_nodes) /\ Distinct(poping_nodes)
    BY Zenon DEF SocketsHaveOneOwner, Attached, Pairs, Apart, Distinct
  <1>2. SocketsHaveOneOwner' <=> /\ Attached' /\ Pairs(transfers') /\ Apart(pushing_nodes', poping_nodes')
                                 /\ Distinct(pushing_nodes') /\ Distinct(poping_nodes')
    BY Zenon DEF SocketsHaveOneOwner, Attached, Pairs, Apart, Distinct
  <1> QED BY <1>1, <1>2

(* A socket that waits, or is in a transfer, stays there.                  *)
Loose == {"none", "backlog", "handle", "reply", "closed"}

LEMMA LooseFrame ==
  ASSUME OwnInv, UNCHANGED <<datas, transfers>>,
         \A d \in Client : srv'[d] = srv[d] \/ (srv[d] \in Loose /\ srv'[d] \in Loose),
         \A d \in Client : pc'[d] = "new" => srv'[d] = "none"
  PROVE  OwnInv'
  <1>1. \A d \in Client : /\ srv'[d] = "waiting" <=> srv[d] = "waiting"
                          /\ srv'[d] = "transfer" <=> srv[d] = "transfer"
    BY DEF Loose
  <1>2. SocketsHaveOneOwner'
    <2>1. SocketsHaveOneOwner /\ pushing_nodes' = pushing_nodes /\ poping_nodes' = poping_nodes /\ transfers' = transfers
      BY DEF OwnInv, datas
    <2>2. \A c : Waits(c)' <=> Waits(c)
      BY <2>1 DEF Waits, InList
    <2>3. Attached
      BY <2>1, OwnerParts
    <2>4. ASSUME NEW c \in Client
          PROVE  /\ (srv'[c] = "waiting") <=> Waits(c)'
                 /\ (srv'[c] = "transfer") <=> \E x \in transfers' : c \in {x.push, x.pop}
      <3>1. (srv[c] = "waiting" <=> Waits(c)) /\ (srv[c] = "transfer" <=> \E x \in transfers : c \in {x.push, x.pop})
        BY <2>3 DEF Attached
      <3>2. (srv'[c] = "waiting" <=> srv[c] = "waiting") /\ (srv'[c] = "transfer" <=> srv[c] = "transfer")
        BY <1>1
      <3>3. Waits(c)' <=> Waits(c)
        BY <2>2
      <3>4. (\E x \in transfers' : c \in {x.push, x.pop}) <=> \E x \in transfers : c \in {x.push, x.pop}
        BY <2>1
      <3> QED BY <3>1, <3>2, <3>3, <3>4, Zenon
    <2>5. Attached'
      BY <2>4 DEF Attached
    <2> QED BY <2>1, <2>5, OwnerParts
  <1> QED BY <1>2 DEF OwnInv, NeverBothWaiting, datas

(* What a step keeps of the client it is about.                            *)
Keeps(c) ==
    /\ ClientInv(c)'
    /\ Pushes(c) \/ Given(c) => offered'[c] = offered[c]
    /\ Pops(c) /\ ~ gone(c)' => Request(c)' = Request(c)
    /\ gone(c) => gone(c)'

(* A step about one client, in which no socket gets to wait or stops.      *)
LEMMA Frame ==
  ASSUME Inv, TypeOK', OwnInv', UNCHANGED <<datas, transfers>>, NEW c \in Client,
         \A d \in Client \ {c} : Same(d),
         \A d \in Client \ {c}, m \in Mode : InMode(d, m)' => InMode(d, m),
         Keeps(c), \A m \in Mode : InMode(c, m)' => Talk(c, m)'
  PROVE  Inv'
  <1>0. /\ TypeOK /\ OwnInv /\ (\A d \in Client : ClientInv(d)) /\ ModeInv /\ TopicInv
    BY DEF Inv, TalkInv
  <1>1. UNCHANGED <<topics, pushing_nodes, poping_nodes, transfers>>
    BY DEF datas
  <1>2. \A d \in Client : Same(d) \/ Keeps(d)
    OBVIOUS
  <1>5. \A d \in Client : ClientInv(d)'
    BY <1>0, <1>2, SameTalk DEF Keeps
  <1>7. ModeInv'
    <2> SUFFICES ASSUME NEW d \in Client, NEW m \in Mode, InMode(d, m)' PROVE Talk(d, m)'
      BY DEF ModeInv
    <2>1. CASE d = c
      BY <2>1
    <2>2. CASE d # c
      BY <1>0, <2>2, SameTalk DEF ModeInv
    <2> QED BY <2>1, <2>2
  <1>8. ASSUME NEW d \in Client, Pushes(d) \/ Given(d) PROVE offered'[d] = offered[d]
    BY <1>2, <1>8 DEF Keeps, Same
  <1>9. ASSUME NEW d \in Client, Pops(d), ~ gone(d)' PROVE Request(d)' = Request(d) /\ ~ gone(d)
    BY <1>2, <1>9, SameTalk DEF Keeps
  <1>10. TopicInv'
    <2>1. ASSUME NEW t \in Topic, NEW d \in Client, InList(d, pushing_nodes[t]) PROVE offered'[d].topic = t
      <3>1. InMode(d, "pushes")
        BY <2>1 DEF InMode
      <3>2. Pushes(d)
        BY <1>0, <3>1 DEF ModeInv, Talk, Mode
      <3> QED BY <1>0, <1>8, <2>1, <3>2 DEF TopicInv
    <2>2. ASSUME NEW t \in Topic, NEW d \in Client, InList(d, poping_nodes[t]), ~ gone(d)'
          PROVE  Request(d)'.topic = t
      <3>1. InMode(d, "pops")
        BY <2>2 DEF InMode
      <3>2. Pops(d)
        BY <1>0, <3>1 DEF ModeInv, Talk, Mode
      <3>3. Request(d)' = Request(d) /\ ~ gone(d)
        BY <1>9, <2>2, <3>2
      <3> QED BY <1>0, <2>2, <3>3 DEF TopicInv
    <2>3. ASSUME NEW x \in transfers, x.at \in {"start", "read", "write_data"}
          PROVE  /\ ~ gone(x.pop)' => Request(x.pop)'.topic = offered'[x.push].topic
                 /\ x.at = "write_data" => x.value = offered'[x.push].value
      <3>1. x.push \in Client /\ x.pop \in Client
        BY <1>0 DEF TypeOK, Transfer
      <3>2. InMode(x.push, PushMode(x)) /\ InMode(x.pop, "pops") /\ PushMode(x) \in {"pushes", "given"}
        BY <2>3 DEF InMode, PushMode, PopMode
      <3>3. (Pushes(x.push) \/ Given(x.push)) /\ Pops(x.pop)
        BY <1>0, <3>1, <3>2 DEF ModeInv, Talk, Mode
      <3>4. offered'[x.push] = offered[x.push] /\ (~ gone(x.pop)' => Request(x.pop)' = Request(x.pop) /\ ~ gone(x.pop))
        BY <1>8, <1>9, <3>1, <3>3
      <3> QED BY <1>0, <2>3, <3>4 DEF TopicInv
    <2>4. \A t, d : /\ InList(d, pushing_nodes[t])' <=> InList(d, pushing_nodes[t])
                    /\ InList(d, poping_nodes[t])' <=> InList(d, poping_nodes[t])
      BY <1>1
    <2> QED BY <1>1, <2>1, <2>2, <2>3, <2>4 DEF TopicInv
  <1> QED BY <1>5, <1>7, <1>10 DEF Inv, TalkInv

(* A step of a client, whatever the mode of its socket.                    *)
LEMMA ClientFrame ==
  ASSUME Inv, TypeOK', UNCHANGED server, NEW c \in Client,
         \A d \in Client \ {c} : Same(d), Keeps(c), pc'[c] # "new",
         \A m \in Mode : Talk(c, m) => Talk(c, m)'
  PROVE  Inv'
  <1>1. UNCHANGED <<datas, transfers>> /\ srv' = srv
    BY DEF server
  <1>2. OwnInv'
    BY <1>1, LooseFrame DEF Inv, OwnInv, Same
  <1>3. \A d, m : InMode(d, m)' <=> InMode(d, m)
    BY <1>1 DEF InMode, InList, datas
  <1>4. \A m \in Mode : InMode(c, m)' => Talk(c, m)'
    BY <1>3 DEF Inv, TalkInv, ModeInv
  <1> QED BY <1>1, <1>2, <1>3, <1>4, Frame


-----------------------------------------------------------------------------
(* The steps of the clients.                                               *)

LEMMA Types ==
  ASSUME TypeOK
  PROVE  /\ todo \in [Client -> Seq(Call)] /\ pc \in [Client -> {"new", "idle", "ended"} \cup Inside]
         /\ val \in [Client -> Value \cup {Nil}] /\ offered \in [Client -> PushCall \cup {Nil}]
         /\ up \in [Client -> Seq(Package)] /\ down \in [Client -> Seq(Package)]
  BY DEF TypeOK

LEMMA RequestType ==
  ASSUME TypeOK, NEW c \in Client, todo[c] # <<>>
  PROVE  Request(c) \in Call /\ Tail(todo[c]) \in Seq(Call)
  <1>1. todo[c] \in Seq(Call)
    BY DEF TypeOK
  <1> QED BY <1>1 DEF Request

LEMMA WriteRequestInv ==
  ASSUME Inv, NEW c \in Client, WriteRequest(c)
  PROVE  Inv'
  <1>0. TypeOK /\ ClientInv(c)
    BY DEF Inv, TalkInv
  <1>1. /\ pc[c] = "idle" /\ todo[c] # <<>> /\ up' = [up EXCEPT ![c] = Append(up[c], Req(Request(c)))]
        /\ UNCHANGED <<todo, val, down>> /\ UNCHANGED server
        /\ Request(c).op = "push" => offered' = [offered EXCEPT ![c] = Request(c)]
        /\ Request(c).op # "push" => offered' = offered
    BY DEF WriteRequest, Send, Req
  <1>2. Request(c) \in Call /\ Op(c) \in {"push", "pop", "check", "close"} /\ (Op(c) = "push" => Request(c) \in PushCall)
    BY <1>0, <1>1, RequestType, Packages DEF Op
  <1>3. /\ Op(c) = "push" => pc' = [pc EXCEPT ![c] = "push_data"]
        /\ Op(c) = "pop" => pc' = [pc EXCEPT ![c] = "pop_data"]
        /\ Op(c) \in {"check", "close"} => pc' = [pc EXCEPT ![c] = "response"]
    <2>1. CASE Op(c) = "push"
      BY <2>1 DEF WriteRequest, Goto, Op
    <2>2. CASE Op(c) = "pop"
      BY <2>2 DEF WriteRequest, Goto, Op
    <2>3. CASE Op(c) \in {"check", "close"}
      BY <2>3 DEF WriteRequest, Goto, Op
    <2> QED BY <2>1, <2>2, <2>3
  <1>4. /\ pc' \in [Client -> {"new", "idle", "ended"} \cup Inside]
        /\ \A d \in Client \ {c} : pc'[d] = pc[d]
        /\ Op(c) = "push" => pc'[c] = "push_data"
        /\ Op(c) = "pop" => pc'[c] = "pop_data"
        /\ Op(c) \in {"check", "close"} => pc'[c] = "response"
    BY <1>0, <1>2, <1>3, Types DEF Inside
  <1>5. /\ offered' \in [Client -> PushCall \cup {Nil}]
        /\ \A d \in Client \ {c} : offered'[d] = offered[d]
        /\ Op(c) = "push" => offered'[c] = Request(c)
    BY <1>0, <1>1, <1>2, Types DEF Op
  <1>6. up' \in [Client -> Seq(Package)] /\ up'[c] = Append(up[c], Req(Request(c))) /\ \A d \in Client \ {c} : up'[d] = up[d]
    BY <1>0, <1>1, <1>2, Types, Packages
  <1>7. TypeOK'
    BY <1>0, <1>1, <1>4, <1>5, <1>6 DEF TypeOK, server, datas
  <1>8. \A d \in Client \ {c} : Same(d)
    BY <1>1, <1>4, <1>5, <1>6 DEF Same
  <1>9. down'[c] = <<>> /\ val'[c] = Nil /\ todo'[c] = todo[c] /\ Request(c)' = Request(c) /\ Op(c)' = Op(c)
    BY <1>0, <1>1 DEF ClientInv, Request, Op
  <1>10. ClientInv(c)'
    BY <1>1, <1>2, <1>4, <1>9 DEF ClientInv, Inside, gone
  <1>11. ASSUME Asks(c) PROVE Asks(c)'
    <2>1. up[c] = <<>>
      BY <1>1, <1>11 DEF Asks
    <2>2. up'[c] = <<Req(Request(c))>>
      BY <1>6, <2>1, One
    <2>3. AsksUp(c)'
      BY <1>2, <1>5, <2>2 DEF AsksUp, Op
    <2>4. up'[c] = <<Req(Request(c)')>>
      BY <1>9, <2>2
    <2>5. pc'[c] \in {"push_data", "pop_data", "response"} /\ (pc'[c] = "response" => Op(c)' \notin {"push", "pop"})
      BY <1>2, <1>4, <1>9
    <2> QED BY <1>9, <2>3, <2>4, <2>5 DEF Asks
  <1>12. ~ gone(c) /\ ~ Pushes(c) /\ ~ Given(c) /\ ~ Taken(c) /\ ~ Pops(c) /\ ~ Popped(c) /\ ~ Replies(c)
    BY <1>1 DEF Pushes, Given, Taken, Pops, Popped, Replies, gone
  <1>13. Keeps(c) /\ pc'[c] # "new" /\ \A m \in Mode : Talk(c, m) => Talk(c, m)'
    BY <1>2, <1>4, <1>10, <1>11, <1>12 DEF Keeps, Talk, Mode
  <1> QED BY <1>1, <1>7, <1>8, <1>13, ClientFrame

LEMMA WriteDataInv ==
  ASSUME Inv, NEW c \in Client, WriteData(c)
  PROVE  Inv'
  <1>0. TypeOK /\ ClientInv(c)
    BY DEF Inv, TalkInv
  <1>1. /\ pc[c] = "push_data" /\ up' = [up EXCEPT ![c] = Append(up[c], Data(Request(c).value))]
        /\ UNCHANGED <<todo, val, down, offered>> /\ UNCHANGED server
        /\ pc' = [pc EXCEPT ![c] = "response"]
    BY DEF WriteData, Send, Goto, Data
  <1>2. /\ todo[c] # <<>> /\ Op(c) = "push" /\ val[c] = Nil /\ down[c] = <<>>
        /\ Request(c) \in PushCall /\ Request(c).value \in Value
    <2>1. todo[c] # <<>> /\ Op(c) = "push" /\ val[c] = Nil /\ down[c] = <<>>
      BY <1>0, <1>1 DEF ClientInv, Inside
    <2> QED BY <1>0, <2>1, RequestType, Packages DEF Op
  <1>3. /\ pc' \in [Client -> {"new", "idle", "ended"} \cup Inside] /\ pc'[c] = "response"
        /\ \A d \in Client \ {c} : pc'[d] = pc[d]
    BY <1>0, <1>1, Types DEF Inside
  <1>4. /\ up' \in [Client -> Seq(Package)] /\ up'[c] = Append(up[c], Data(Request(c).value))
        /\ \A d \in Client \ {c} : up'[d] = up[d]
    BY <1>0, <1>1, <1>2, Types, Packages
  <1>5. TypeOK'
    BY <1>0, <1>1, <1>3, <1>4 DEF TypeOK, server, datas
  <1>6. \A d \in Client \ {c} : Same(d)
    BY <1>1, <1>3, <1>4 DEF Same
  <1>7. /\ down'[c] = <<>> /\ val'[c] = Nil /\ todo'[c] = todo[c] /\ offered'[c] = offered[c]
        /\ Request(c)' = Request(c) /\ Op(c)' = Op(c)
    BY <1>1, <1>2 DEF Request, Op
  <1>8. ClientInv(c)'
    BY <1>2, <1>3, <1>7 DEF ClientInv, Inside, gone
  <1>9. ASSUME Asks(c) PROVE Asks(c)'
    <2>1. up[c] = <<Req(Request(c))>>
      BY <1>1, <1>9 DEF Asks
    <2>2. up'[c] = <<Req(Request(c)), Data(Request(c).value)>>
      BY <1>4, <2>1, Two
    <2>3. offered[c] = Request(c)
      <3>1. \A call : <<Req(call)>> = <<Req(Request(c))>> => call = Request(c)
        BY Injective DEF Req
      <3> QED BY <1>2, <1>9, <2>1, <3>1, Injective, One DEF Asks, AsksUp, Op
    <2> QED BY <1>2, <1>3, <1>7, <2>2, <2>3 DEF Asks, AsksUp
  <1>10. ASSUME Pushes(c) PROVE Pushes(c)'
    <2>1. up[c] = <<>> /\ Request(c) = offered[c]
      BY <1>1, <1>10 DEF Pushes, gone
    <2>2. up'[c] = <<Data(Request(c).value)>>
      BY <1>4, <2>1, One
    <2> QED BY <1>2, <1>3, <1>7, <2>1, <2>2, One DEF Pushes
  <1>11. ~ gone(c) /\ ~ Given(c) /\ ~ Taken(c) /\ ~ Pops(c) /\ ~ Popped(c) /\ ~ Replies(c)
    BY <1>1 DEF Given, Taken, Pops, Popped, Replies, gone
  <1>12. Keeps(c) /\ pc'[c] # "new" /\ \A m \in Mode : Talk(c, m) => Talk(c, m)'
    BY <1>3, <1>7, <1>8, <1>9, <1>10, <1>11 DEF Keeps, Talk, Mode
  <1> QED BY <1>1, <1>5, <1>6, <1>12, ClientFrame

LEMMA ReadDataInv ==
  ASSUME Inv, NEW c \in Client, ReadData(c)
  PROVE  Inv'
  <1>0. TypeOK /\ ClientInv(c)
    BY DEF Inv, TalkInv
  <1>1. /\ pc[c] = "pop_data" /\ down[c] # <<>>
        /\ val' = [val EXCEPT ![c] = Head(down[c]).value] /\ down' = [down EXCEPT ![c] = Tail(down[c])]
        /\ UNCHANGED <<todo, up, offered>> /\ UNCHANGED server
        /\ pc' = [pc EXCEPT ![c] = "response"]
    BY DEF ReadData, Goto
  <1>2. /\ todo[c] # <<>> /\ Op(c) = "pop" /\ val[c] = Nil
        /\ \E v \in Value : down[c] \in {<<Data(v)>>, <<Data(v), Response>>}
    BY <1>0, <1>1 DEF ClientInv, Inside
  <1>3. PICK v \in Value : down[c] \in {<<Data(v)>>, <<Data(v), Response>>}
    BY <1>2
  <1>4. /\ Head(down[c]).value = v
        /\ down[c] = <<Data(v)>> => Tail(down[c]) = <<>> /\ Len(down[c]) = 1
        /\ down[c] = <<Data(v), Response>> => Tail(down[c]) = <<Response>> /\ Len(down[c]) = 2
    <2>1. Data(v).value = v
      BY Packages
    <2>2. CASE down[c] = <<Data(v)>>
      <3>1. Head(down[c]) = Data(v) /\ Tail(down[c]) = <<>> /\ Len(down[c]) = 1
        BY <2>2, One
      <3> QED BY <2>1, <2>2, <3>1, Injective
    <2>3. CASE down[c] = <<Data(v), Response>>
      <3>1. Head(down[c]) = Data(v) /\ Tail(down[c]) = <<Response>> /\ Len(down[c]) = 2
        BY <2>3, Two
      <3> QED BY <2>1, <2>3, <3>1, Injective
    <2> QED BY <1>3, <2>2, <2>3
  <1>5. /\ pc' \in [Client -> {"new", "idle", "ended"} \cup Inside] /\ pc'[c] = "response"
        /\ \A d \in Client \ {c} : pc'[d] = pc[d]
    BY <1>0, <1>1, Types DEF Inside
  <1>6. /\ val' \in [Client -> Value \cup {Nil}] /\ val'[c] = v /\ val'[c] # Nil
        /\ \A d \in Client \ {c} : val'[d] = val[d]
    BY <1>0, <1>1, <1>4, Types, NilIsNoCall
  <1>7. /\ down' \in [Client -> Seq(Package)] /\ down'[c] = Tail(down[c])
        /\ \A d \in Client \ {c} : down'[d] = down[d]
    <2>1. down[c] \in Seq(Package) /\ Tail(down[c]) \in Seq(Package)
      BY <1>0, <1>1, Types
    <2> QED BY <1>0, <1>1, <2>1, Types
  <1>8. TypeOK'
    BY <1>0, <1>1, <1>5, <1>6, <1>7 DEF TypeOK, server, datas
  <1>9. \A d \in Client \ {c} : Same(d)
    BY <1>1, <1>5, <1>6, <1>7 DEF Same
  <1>10. /\ up'[c] = up[c] /\ todo'[c] = todo[c] /\ offered'[c] = offered[c]
         /\ Request(c)' = Request(c) /\ Op(c)' = Op(c)
    BY <1>1 DEF Request, Op
  <1>11. down'[c] \in {<<>>, <<Response>>}
    BY <1>3, <1>4, <1>7
  <1>12. ClientInv(c)'
    BY <1>2, <1>5, <1>6, <1>10, <1>11 DEF ClientInv, Inside, gone
  <1>13. ASSUME Asks(c) PROVE Asks(c)'
    <2>1. up[c] = <<>> /\ Len(down[c]) = 2
      BY <1>1, <1>13 DEF Asks
    <2>2. down[c] = <<Data(v), Response>>
      BY <1>3, <1>4, <2>1
    <2>3. down'[c] = <<Response>> /\ up'[c] = <<>>
      BY <1>4, <1>7, <1>10, <2>1, <2>2
    <2> QED BY <1>5, <2>3 DEF Asks, AsksUp
  <1>14. ASSUME Popped(c) PROVE Popped(c)'
    <2>1. up[c] = <<>> /\ Len(down[c]) = 1
      BY <1>1, <1>14 DEF Popped, gone
    <2>2. down[c] = <<Data(v)>>
      BY <1>3, <1>4, <2>1
    <2>3. down'[c] = <<>> /\ up'[c] = <<>>
      BY <1>4, <1>7, <1>10, <2>1, <2>2
    <2> QED BY <1>2, <1>5, <1>10, <2>3 DEF Popped
  <1>15. ~ gone(c) /\ ~ Pushes(c) /\ ~ Given(c) /\ ~ Taken(c) /\ ~ Pops(c) /\ ~ Replies(c)
    BY <1>1 DEF Pushes, Given, Taken, Pops, Replies, gone
  <1>16. Keeps(c) /\ pc'[c] # "new" /\ \A m \in Mode : Talk(c, m) => Talk(c, m)'
    BY <1>5, <1>10, <1>12, <1>13, <1>14, <1>15 DEF Keeps, Talk, Mode
  <1> QED BY <1>1, <1>8, <1>9, <1>16, ClientFrame

LEMMA ReadResponseInv ==
  ASSUME Inv, NEW c \in Client, ReadResponse(c)
  PROVE  Inv'
  <1>0. TypeOK /\ ClientInv(c)
    BY DEF Inv, TalkInv
  <1>1. /\ pc[c] = "response" /\ down[c] # <<>>
        /\ val' = [val EXCEPT ![c] = Nil] /\ down' = [down EXCEPT ![c] = Tail(down[c])]
        /\ todo' = [todo EXCEPT ![c] = Tail(todo[c])]
        /\ UNCHANGED <<up, offered>> /\ UNCHANGED server
        /\ pc' = [pc EXCEPT ![c] = "idle"]
    BY DEF ReadResponse, Goto
  <1>2. down[c] = <<Response>> /\ Tail(down[c]) = <<>> /\ todo[c] # <<>>
    BY <1>0, <1>1, One DEF ClientInv, Inside
  <1>3. /\ pc' \in [Client -> {"new", "idle", "ended"} \cup Inside] /\ pc'[c] = "idle"
        /\ \A d \in Client \ {c} : pc'[d] = pc[d]
    BY <1>0, <1>1, Types DEF Inside
  <1>4. /\ val' \in [Client -> Value \cup {Nil}] /\ val'[c] = Nil
        /\ \A d \in Client \ {c} : val'[d] = val[d]
    BY <1>0, <1>1, Types
  <1>5. /\ down' \in [Client -> Seq(Package)] /\ down'[c] = <<>>
        /\ \A d \in Client \ {c} : down'[d] = down[d]
    BY <1>0, <1>1, <1>2, Types
  <1>6. todo' \in [Client -> Seq(Call)] /\ \A d \in Client \ {c} : todo'[d] = todo[d]
    BY <1>0, <1>1, <1>2, RequestType, Types
  <1>7. TypeOK'
    BY <1>0, <1>1, <1>3, <1>4, <1>5, <1>6 DEF TypeOK, server, datas
  <1>8. \A d \in Client \ {c} : Same(d)
    BY <1>1, <1>3, <1>4, <1>5, <1>6 DEF Same
  <1>9. ClientInv(c)'
    BY <1>3, <1>4, <1>5 DEF ClientInv, Inside, gone
  <1>10. ASSUME Asks(c) PROVE Asks(c)'
    <2>1. up'[c] = <<>>
      BY <1>1, <1>10 DEF Asks
    <2> QED BY <1>3, <2>1 DEF Asks, AsksUp
  <1>11. ~ gone(c) /\ ~ Pushes(c) /\ ~ Given(c) /\ ~ Taken(c) /\ ~ Pops(c) /\ ~ Popped(c) /\ ~ Replies(c)
    BY <1>1 DEF Pushes, Given, Taken, Pops, Popped, Replies, gone
  <1>12. Keeps(c) /\ pc'[c] # "new" /\ \A m \in Mode : Talk(c, m) => Talk(c, m)'
    BY <1>3, <1>9, <1>10, <1>11 DEF Keeps, Talk, Mode
  <1> QED BY <1>1, <1>7, <1>8, <1>12, ClientFrame

(* A client that is gone: some of what it wrote may not arrive.            *)
LEMMA EndedKeeps ==
  ASSUME NEW c, Len(up[c]) \in Nat, pc'[c] = "ended", todo'[c] = <<>>, val'[c] = Nil, down'[c] = <<>>,
         offered'[c] = offered[c],
         up'[c] = up[c] \/ \E k \in 0..Len(up[c]) : up'[c] = SubSeq(up[c], 1, k)
  PROVE  Keeps(c) /\ \A m \in Mode : Talk(c, m) => Talk(c, m)'
  <1>1. gone(c)' /\ ClientInv(c)'
    BY DEF gone, ClientInv, Inside
  <1>2. ASSUME NEW a, NEW b, up[c] \in {<<>>, <<a>>, <<a, b>>} PROVE up'[c] \in {<<>>, <<a>>, up[c]}
    BY <1>2, Prefix
  <1>3. ASSUME Asks(c) PROVE Asks(c)'
    <2>1. AsksUp(c)
      BY <1>3 DEF Asks
    <2>3. ASSUME NEW call \in Call, up[c] = <<Req(call)>>, call.op = "push" => offered[c] = call PROVE AsksUp(c)'
      <3>1. up'[c] \in {<<>>, <<Req(call)>>}
        BY <1>2, <2>3
      <3> QED BY <2>3, <3>1 DEF AsksUp
    <2>4. ASSUME NEW call \in PushCall, up[c] = <<Req(call), Data(call.value)>>, offered[c] = call PROVE AsksUp(c)'
      <3>1. up'[c] \in {<<>>, <<Req(call)>>, <<Req(call), Data(call.value)>>}
        BY <1>2, <2>4
      <3>2. call \in Call
        BY Packages
      <3> QED BY <2>4, <3>1, <3>2 DEF AsksUp
    <2>5. AsksUp(c)'
      <3>1. CASE up[c] = <<>>
        <4>1. up'[c] = <<>>
          BY <1>2, <3>1
        <4> QED BY <4>1 DEF AsksUp
      <3> QED BY <2>1, <2>3, <2>4, <3>1 DEF AsksUp
    <2> QED BY <2>5 DEF Asks
  <1>4. up[c] = <<>> => up'[c] = <<>>
    BY <1>2
  <1>5. Pushes(c) => Pushes(c)'
    <2>1. ASSUME NEW a, up[c] = <<a>> PROVE up'[c] \in {<<>>, <<a>>}
      BY <1>2, <2>1
    <2> QED BY <1>1, <1>4, <2>1 DEF Pushes
  <1>6. (Given(c) => Given(c)') /\ (Taken(c) => Taken(c)') /\ (Pops(c) => Pops(c)')
        /\ (Popped(c) => Popped(c)') /\ (Replies(c) => Replies(c)')
    BY <1>1, <1>4 DEF Given, Taken, Pops, Popped, Replies
  <1> QED BY <1>1, <1>3, <1>5, <1>6 DEF Keeps, Talk, Mode

LEMMA EndedTypes ==
  ASSUME TypeOK, NEW c \in Client, Ended(c)
  PROVE  /\ pc' \in [Client -> {"new", "idle", "ended"} \cup Inside] /\ pc'[c] = "ended"
         /\ todo' \in [Client -> Seq(Call)] /\ todo'[c] = <<>>
         /\ val' \in [Client -> Value \cup {Nil}] /\ val'[c] = Nil
         /\ down' \in [Client -> Seq(Package)] /\ down'[c] = <<>>
         /\ \A d \in Client \ {c} : /\ pc'[d] = pc[d] /\ todo'[d] = todo[d]
                                    /\ val'[d] = val[d] /\ down'[d] = down[d]
  BY Types DEF Ended, Goto

LEMMA CallThrowsInv ==
  ASSUME Inv, NEW c \in Client, CallThrows(c)
  PROVE  Inv'
  <1>0. TypeOK /\ Ended(c) /\ UNCHANGED <<up, offered>> /\ UNCHANGED server /\ Len(up[c]) \in Nat
    BY Types DEF Inv, CallThrows
  <1>1. TypeOK'
    BY <1>0, EndedTypes DEF TypeOK, server, datas
  <1>2. \A d \in Client \ {c} : Same(d)
    BY <1>0, EndedTypes DEF Same
  <1>3. pc'[c] = "ended" /\ todo'[c] = <<>> /\ val'[c] = Nil /\ down'[c] = <<>> /\ offered'[c] = offered[c] /\ up'[c] = up[c]
    BY <1>0, EndedTypes
  <1>4. Keeps(c) /\ \A m \in Mode : Talk(c, m) => Talk(c, m)'
    BY <1>0, <1>3, EndedKeeps
  <1> QED BY <1>0, <1>1, <1>2, <1>3, <1>4, ClientFrame

LEMMA LeaveInv ==
  ASSUME Inv, NEW c \in Client, Leave(c)
  PROVE  Inv'
  <1>0. TypeOK /\ Ended(c) /\ offered' = offered /\ UNCHANGED server /\ up[c] \in Seq(Package)
    BY Types DEF Inv, Leave
  <1>1. PICK k \in 0..Len(up[c]) : up' = [up EXCEPT ![c] = SubSeq(up[c], 1, k)]
    BY DEF Leave
  <1>2. SubSeq(up[c], 1, k) \in Seq(Package) /\ Len(up[c]) \in Nat
    BY <1>0
  <1>3. up' \in [Client -> Seq(Package)] /\ up'[c] = SubSeq(up[c], 1, k) /\ \A d \in Client \ {c} : up'[d] = up[d]
    BY <1>0, <1>1, <1>2, Types
  <1>4. TypeOK'
    BY <1>0, <1>3, EndedTypes DEF TypeOK, server, datas
  <1>5. \A d \in Client \ {c} : Same(d)
    BY <1>0, <1>3, EndedTypes DEF Same
  <1>6. pc'[c] = "ended" /\ todo'[c] = <<>> /\ val'[c] = Nil /\ down'[c] = <<>> /\ offered'[c] = offered[c]
    BY <1>0, EndedTypes
  <1>7. Keeps(c) /\ \A m \in Mode : Talk(c, m) => Talk(c, m)'
    BY <1>2, <1>3, <1>6, EndedKeeps
  <1> QED BY <1>0, <1>4, <1>5, <1>6, <1>7, ClientFrame

LEMMA ConnectInv ==
  ASSUME Inv, NEW c \in Client, Connect(c)
  PROVE  Inv'
  <1>0. /\ TypeOK /\ OwnInv /\ ClientInv(c) /\ pc[c] = "new" /\ srv[c] = "none"
        /\ UNCHANGED <<up, offered, accepting>> /\ UNCHANGED <<datas, transfers>>
    BY DEF Inv, TalkInv, OwnInv, Connect
  <1>1. CASE accepting
    <2>1. /\ pc' = [pc EXCEPT ![c] = "idle"] /\ srv' = [srv EXCEPT ![c] = "backlog"]
          /\ UNCHANGED <<todo, val, down>>
      BY <1>1 DEF Connect, Goto
    <2>2. /\ pc' \in [Client -> {"new", "idle", "ended"} \cup Inside] /\ pc'[c] = "idle"
          /\ \A d \in Client \ {c} : pc'[d] = pc[d] /\ srv'[d] = srv[d]
          /\ srv'[c] = "backlog"
          /\ srv' \in [Client -> {"none", "backlog", "handle", "reply", "waiting", "transfer", "closed"}]
      BY <1>0, <2>1 DEF TypeOK
    <2>3. TypeOK'
      BY <1>0, <2>1, <2>2 DEF TypeOK, datas
    <2>4. OwnInv'
      BY <1>0, <2>2, LooseFrame DEF OwnInv, Loose
    <2>5. \A d \in Client \ {c} : Same(d)
      BY <1>0, <2>1, <2>2 DEF Same
    <2>6. \A d \in Client, m \in Mode : InMode(d, m)' => InMode(d, m)
      BY <1>0, <2>2 DEF InMode, InList, datas
    <2>7. ClientInv(c)'
      BY <1>0, <2>1, <2>2 DEF ClientInv, Inside, gone
    <2>8. Asks(c)
      <3>1. InMode(c, "asks")
        BY <1>0 DEF InMode
      <3> QED BY <3>1 DEF Inv, TalkInv, ModeInv, Mode, Talk
    <2>9. up'[c] = <<>>
      BY <1>0, <2>8 DEF Asks
    <2>10. Asks(c)'
      BY <2>2, <2>9 DEF Asks, AsksUp
    <2>11. ~ gone(c) /\ ~ Pushes(c) /\ ~ Given(c) /\ ~ Taken(c) /\ ~ Pops(c) /\ ~ Popped(c) /\ ~ Replies(c)
      BY <1>0 DEF Pushes, Given, Taken, Pops, Popped, Replies, gone
    <2>12. Keeps(c) /\ \A m \in Mode : InMode(c, m)' => Talk(c, m)'
      BY <2>6, <2>7, <2>10, <2>11 DEF Keeps, Inv, TalkInv, ModeInv, Talk, Mode
    <2> QED BY <1>0, <2>3, <2>4, <2>5, <2>6, <2>12, Frame
  <1>2. CASE ~ accepting
    <2>1. Ended(c) /\ srv' = srv
      BY <1>2 DEF Connect
    <2>2. TypeOK'
      BY <1>0, <2>1, EndedTypes DEF TypeOK, datas
    <2>3. \A d \in Client \ {c} : Same(d)
      BY <1>0, <2>1, EndedTypes DEF Same
    <2>4. pc'[c] = "ended" /\ todo'[c] = <<>> /\ val'[c] = Nil /\ down'[c] = <<>> /\ offered'[c] = offered[c] /\ up'[c] = up[c]
      BY <1>0, <2>1, EndedTypes
    <2>5. Len(up[c]) \in Nat
      BY <1>0, Types
    <2>6. Keeps(c) /\ \A m \in Mode : Talk(c, m) => Talk(c, m)'
      BY <2>4, <2>5, EndedKeeps
    <2>7. UNCHANGED server
      BY <1>0, <2>1 DEF server
    <2> QED BY <1>0, <2>2, <2>3, <2>4, <2>6, <2>7, ClientFrame
  <1> QED BY <1>1, <1>2

-----------------------------------------------------------------------------
(* The lists of datas_: sockets are added and taken at the back.           *)

Member(d, P) == \E t \in Topic : InList(d, P[t])
Lists == [Topic -> Seq(Client)]

Added(P, t, c) == [P EXCEPT ![t] = Append(P[t], c)]
Shorter(P, t) == [P EXCEPT ![t] = PopBack(P[t])]
Cleared(P, t) == [P EXCEPT ![t] = <<>>]

LEMMA AppendList ==
  ASSUME NEW s \in Seq(Client), NEW c \in Client
  PROVE  /\ Append(s, c) \in Seq(Client)
         /\ \A d : InList(d, Append(s, c)) <=> InList(d, s) \/ d = c
         /\ DOMAIN Append(s, c) = 1..(Len(s) + 1) /\ DOMAIN s = 1..Len(s) /\ Len(s) \in Nat
         /\ \A i \in DOMAIN s : Append(s, c)[i] = s[i]
         /\ Append(s, c)[Len(s) + 1] = c
  <1>1. /\ Append(s, c) \in Seq(Client)
        /\ DOMAIN Append(s, c) = 1..(Len(s) + 1) /\ DOMAIN s = 1..Len(s) /\ Len(s) \in Nat
        /\ \A i \in DOMAIN s : Append(s, c)[i] = s[i]
        /\ Append(s, c)[Len(s) + 1] = c
    OBVIOUS
  <1>2. \A d : InList(d, Append(s, c)) <=> InList(d, s) \/ d = c
    BY <1>1 DEF InList
  <1> QED BY <1>1, <1>2

LEMMA PopBackList ==
  ASSUME NEW s \in Seq(Client), s # <<>>
  PROVE  /\ Back(s) \in Client /\ InList(Back(s), s)
         /\ PopBack(s) \in Seq(Client)
         /\ \A d : InList(d, s) <=> InList(d, PopBack(s)) \/ d = Back(s)
         /\ Len(s) \in Nat \ {0} /\ DOMAIN s = 1..Len(s) /\ DOMAIN PopBack(s) = 1..(Len(s) - 1)
         /\ \A i \in DOMAIN PopBack(s) : PopBack(s)[i] = s[i]
         /\ Back(s) = s[Len(s)]
  <1>1. Len(s) \in Nat \ {0} /\ DOMAIN s = 1..Len(s) /\ Back(s) = s[Len(s)] /\ Back(s) \in Client
    BY DEF Back
  <1>2. /\ PopBack(s) \in Seq(Client) /\ DOMAIN PopBack(s) = 1..(Len(s) - 1)
        /\ \A i \in DOMAIN PopBack(s) : PopBack(s)[i] = s[i]
    BY <1>1 DEF PopBack
  <1>3. \A d : InList(d, s) <=> InList(d, PopBack(s)) \/ d = Back(s)
    BY <1>1, <1>2 DEF InList
  <1> QED BY <1>1, <1>2, <1>3

LEMMA AppendLists ==
  ASSUME NEW P \in Lists, NEW t \in Topic, NEW c \in Client, ~ Member(c, P), Distinct(P),
         NEW R, R = Added(P, t, c)
  PROVE  /\ R \in Lists /\ Distinct(R) /\ Member(c, R)
         /\ \A d : Member(d, R) <=> Member(d, P) \/ d = c
         /\ \A s \in Topic, d \in Client : InList(d, R[s]) => InList(d, P[s]) \/ (d = c /\ s = t)
  <1>1. P[t] \in Seq(Client) /\ R[t] = Append(P[t], c) /\ \A s \in Topic \ {t} : R[s] = P[s]
    BY DEF Lists, Added
  <1>2. R \in Lists
    <2>1. Append(P[t], c) \in Seq(Client)
      BY <1>1
    <2> QED BY <2>1 DEF Lists, Added
  <1>3. \A s \in Topic : \A d : InList(d, R[s]) <=> InList(d, P[s]) \/ (d = c /\ s = t)
    <2>1. \A d : InList(d, R[t]) <=> InList(d, P[t]) \/ d = c
      BY <1>1, AppendList
    <2> QED BY <1>1, <2>1
  <1>4. \A d : Member(d, R) <=> Member(d, P) \/ d = c
    BY <1>3 DEF Member
  <1>5. Distinct(R)
    <2> SUFFICES ASSUME NEW u \in Topic, NEW v \in Topic, NEW i \in DOMAIN R[u], NEW j \in DOMAIN R[v],
                        R[u][i] = R[v][j]
                 PROVE  u = v /\ i = j
      BY DEF Distinct
    <2>1. ASSUME NEW s \in Topic, NEW k \in DOMAIN R[s]
          PROVE  \/ k \in DOMAIN P[s] /\ R[s][k] = P[s][k] /\ R[s][k] # c
                 \/ s = t /\ k = Len(P[t]) + 1 /\ R[s][k] = c
      <3>1. CASE s # t
        BY <1>1, <3>1 DEF Member, InList
      <3>2. CASE s = t
        <4>1. k \in DOMAIN P[t] \/ k = Len(P[t]) + 1
          BY <1>1, <2>1, <3>2, AppendList
        <4> QED BY <1>1, <3>2, <4>1, AppendList DEF Member, InList
      <3> QED BY <3>1, <3>2
    <2> QED BY <2>1 DEF Distinct
  <1> QED BY <1>2, <1>3, <1>4, <1>5

LEMMA PopLists ==
  ASSUME NEW P \in Lists, NEW t \in Topic, P[t] # <<>>, Distinct(P),
         NEW R, R = Shorter(P, t), NEW q, q = Back(P[t])
  PROVE  /\ q \in Client /\ InList(q, P[t])
         /\ R \in Lists /\ Distinct(R)
         /\ \A d : Member(d, R) <=> Member(d, P) /\ d # q
         /\ \A s \in Topic : \A d : InList(d, R[s]) => InList(d, P[s])
  <1>1. P[t] \in Seq(Client) /\ R[t] = PopBack(P[t]) /\ \A s \in Topic \ {t} : R[s] = P[s]
    BY DEF Lists, Shorter
  <1>2. R \in Lists
    BY <1>1, PopBackList DEF Lists, Shorter
  <1>3. q \in Client /\ InList(q, P[t])
    BY <1>1, PopBackList
  <1>4. \A s \in Topic : DOMAIN R[s] \subseteq DOMAIN P[s] /\ \A i \in DOMAIN R[s] : R[s][i] = P[s][i]
    <2>1. DOMAIN R[t] \subseteq DOMAIN P[t] /\ \A i \in DOMAIN R[t] : R[t][i] = P[t][i]
      BY <1>1, PopBackList
    <2> QED BY <1>1, <2>1
  <1>5. Distinct(R)
    BY <1>4 DEF Distinct
  <1>6. \A s \in Topic : \A d : InList(d, R[s]) => InList(d, P[s])
    BY <1>4 DEF InList
  <1>7. ASSUME NEW s \in Topic PROVE ~ InList(q, R[s])
    <2> SUFFICES ASSUME NEW i \in DOMAIN R[s], R[s][i] = q PROVE FALSE
      BY DEF InList
    <2>1. Len(P[t]) \in DOMAIN P[t] /\ P[t][Len(P[t])] = q
      BY <1>1, PopBackList
    <2>2. s = t /\ i = Len(P[t])
      BY <1>4, <2>1 DEF Distinct
    <2> QED BY <1>1, <2>2, PopBackList
  <1>8. ASSUME NEW d, Member(d, P), d # q PROVE Member(d, R)
    <2>1. PICK s \in Topic : InList(d, P[s])
      BY <1>8 DEF Member
    <2>2. InList(d, R[s])
      BY <1>1, <1>8, <2>1, PopBackList
    <2> QED BY <2>2 DEF Member
  <1>9. \A d : Member(d, R) <=> Member(d, P) /\ d # q
    BY <1>6, <1>7, <1>8 DEF Member
  <1> QED BY <1>2, <1>3, <1>5, <1>6, <1>9

LEMMA ClearLists ==
  ASSUME NEW P \in Lists, NEW t \in Topic, Distinct(P), NEW R, R = Cleared(P, t)
  PROVE  /\ R \in Lists /\ Distinct(R)
         /\ \A d : Member(d, R) <=> Member(d, P) /\ ~ InList(d, P[t])
         /\ \A s \in Topic : \A d : InList(d, R[s]) => InList(d, P[s])
  <1>1. R[t] = <<>> /\ DOMAIN R[t] = {} /\ R \in Lists /\ \A s \in Topic \ {t} : R[s] = P[s]
    BY DEF Lists, Cleared
  <1>2. \A s \in Topic : DOMAIN R[s] \subseteq DOMAIN P[s] /\ \A i \in DOMAIN R[s] : R[s][i] = P[s][i]
    BY <1>1
  <1>3. Distinct(R)
    BY <1>2 DEF Distinct
  <1>4. \A s \in Topic : \A d : InList(d, R[s]) <=> InList(d, P[s]) /\ s # t
    BY <1>1 DEF InList
  <1>5. \A s \in Topic : \A d : InList(d, P[s]) /\ InList(d, P[t]) => s = t
    BY DEF Distinct, InList
  <1>6. \A d : Member(d, R) <=> Member(d, P) /\ ~ InList(d, P[t])
    BY <1>4, <1>5 DEF Member
  <1> QED BY <1>1, <1>3, <1>4, <1>6

LEMMA ApartMembers ==
  ASSUME NEW P, NEW Q
  PROVE  Apart(P, Q) <=> \A d : ~ (Member(d, P) /\ Member(d, Q))
  BY DEF Apart, Member, InList

-----------------------------------------------------------------------------
(* The steps of start_accept and handle.                                   *)

SrvAt == {"none", "backlog", "handle", "reply", "waiting", "transfer", "closed"}
Asking == {"none", "backlog", "handle"}

(* Sockets are passed on to handle or dropped, and no package moves.       *)
LEMMA LooseStep ==
  ASSUME Inv, UNCHANGED <<client, up, down, offered>>, UNCHANGED <<datas, transfers>>, accepting' \in BOOLEAN,
         srv' \in [Client -> SrvAt],
         \A d \in Client : srv'[d] = srv[d] \/ (srv[d] \in Loose \ {"none"} /\ srv'[d] \in Loose),
         \A d \in Client : /\ srv'[d] \in Asking => srv[d] \in Asking
                           /\ srv'[d] = "reply" => srv[d] = "reply"
  PROVE  Inv'
  <1>1. TypeOK /\ OwnInv /\ (\A d \in Client : ClientInv(d)) /\ ModeInv /\ TopicInv
    BY DEF Inv, TalkInv
  <1>2. TypeOK'
    BY <1>1 DEF TypeOK, client, datas, SrvAt
  <1>3. OwnInv'
    <2>1. \A d \in Client : pc'[d] = "new" => srv'[d] = "none"
      BY <1>1 DEF OwnInv, client
    <2>2. \A d \in Client : srv'[d] = srv[d] \/ (srv[d] \in Loose /\ srv'[d] \in Loose)
      OBVIOUS
    <2> QED BY <1>1, <2>1, <2>2, LooseFrame
  <1>4. \A d : Same(d)
    BY DEF Same, client
  <1>5. \A d \in Client, m \in Mode : InMode(d, m)' => InMode(d, m)
    BY DEF InMode, InList, datas, Asking
  <1>6. \A d \in Client : ClientInv(d)'
    BY <1>1, <1>4, SameTalk
  <1>7. \A d \in Client, m \in Mode : InMode(d, m)' => Talk(d, m)'
    BY <1>1, <1>4, <1>5, SameTalk DEF ModeInv
  <1>8. TopicInv'
    BY <1>1 DEF TopicInv, InList, gone, Request, datas, client
  <1> QED BY <1>2, <1>3, <1>6, <1>7, <1>8 DEF Inv, TalkInv, ModeInv

LEMMA AcceptInv ==
  ASSUME Inv, NEW c \in Client, Accept(c)
  PROVE  Inv'
  <1>1. /\ UNCHANGED <<client, up, down, offered>> /\ UNCHANGED <<datas, transfers>>
        /\ srv[c] = "backlog" /\ srv \in [Client -> SrvAt] /\ accepting \in BOOLEAN
    BY DEF Accept, Inv, TypeOK, SrvAt
  <1>2. CASE srv' = [srv EXCEPT ![c] = "handle"] /\ accepting' = accepting
    <2>1. srv'[c] = "handle" /\ \A d \in Client \ {c} : srv'[d] = srv[d]
      BY <1>1, <1>2
    <2>2. srv' \in [Client -> SrvAt]
      BY <1>1, <1>2 DEF SrvAt
    <2>3. \A d \in Client : srv'[d] = srv[d] \/ (srv[d] \in Loose \ {"none"} /\ srv'[d] \in Loose)
      BY <1>1, <2>1 DEF Loose
    <2>4. \A d \in Client : /\ srv'[d] \in Asking => srv[d] \in Asking
                            /\ srv'[d] = "reply" => srv[d] = "reply"
      BY <1>1, <2>1 DEF Asking
    <2> QED BY <1>1, <1>2, <2>2, <2>3, <2>4, LooseStep
  <1>3. CASE accepting' = FALSE /\ srv' = [d \in Client |-> IF srv[d] = "backlog" THEN "closed" ELSE srv[d]]
    <2>1. \A d \in Client : srv'[d] = srv[d] \/ (srv[d] = "backlog" /\ srv'[d] = "closed")
      BY <1>3
    <2>2. srv' \in [Client -> SrvAt]
      BY <1>1, <1>3 DEF SrvAt
    <2>3. \A d \in Client : srv'[d] = srv[d] \/ (srv[d] \in Loose \ {"none"} /\ srv'[d] \in Loose)
      BY <2>1 DEF Loose
    <2>4. \A d \in Client : /\ srv'[d] \in Asking => srv[d] \in Asking
                            /\ srv'[d] = "reply" => srv[d] = "reply"
      BY <2>1 DEF Asking
    <2>5. accepting' \in BOOLEAN
      BY <1>3
    <2> QED BY <1>1, <2>2, <2>3, <2>4, <2>5, LooseStep
  <1> QED BY <1>2, <1>3 DEF Accept, Owned

(* A socket is dropped because its peer is gone.                           *)
LEMMA DropInv ==
  ASSUME Inv, NEW c \in Client, srv[c] \in {"handle", "reply"}, Owned(c, "closed"),
         UNCHANGED <<client, up, down, offered>>, UNCHANGED <<datas, transfers>>, UNCHANGED accepting
  PROVE  Inv'
  <1>1. srv \in [Client -> SrvAt] /\ accepting' \in BOOLEAN
    BY DEF Inv, TypeOK, SrvAt
  <1>2. srv'[c] = "closed" /\ \A d \in Client \ {c} : srv'[d] = srv[d]
    BY <1>1 DEF Owned
  <1>3. srv' \in [Client -> SrvAt]
    BY <1>1 DEF SrvAt, Owned
  <1>4. \A d \in Client : srv'[d] = srv[d] \/ (srv[d] \in Loose \ {"none"} /\ srv'[d] \in Loose)
    BY <1>2 DEF Loose
  <1>5. \A d \in Client : /\ srv'[d] \in Asking => srv[d] \in Asking
                          /\ srv'[d] = "reply" => srv[d] = "reply"
    BY <1>2 DEF Asking
  <1> QED BY <1>1, <1>3, <1>4, <1>5, LooseStep

(* A package for c, written by the server.                                 *)
LEMMA WriteFacts ==
  ASSUME TypeOK, NEW c \in Client, NEW pkg \in Package, Write(c, pkg)
  PROVE  /\ down' \in [Client -> Seq(Package)]
         /\ \A d \in Client \ {c} : down'[d] = down[d]
         /\ gone(c) => down'[c] = down[c]
         /\ ~ gone(c) => down'[c] = Append(down[c], pkg)
  BY Types DEF Write

LEMMA ReplyInv ==
  ASSUME Inv, NEW c \in Client, Reply(c)
  PROVE  Inv'
  <1>0. TypeOK /\ OwnInv /\ ClientInv(c) /\ srv[c] = "reply"
    BY DEF Inv, TalkInv, Reply
  <1>1. UNCHANGED <<client, up, offered>> /\ UNCHANGED <<datas, transfers>> /\ UNCHANGED accepting
    BY DEF Reply
  <1>2. CASE Owned(c, "closed") /\ UNCHANGED down
    BY <1>0, <1>1, <1>2, DropInv
  <1>3. CASE Write(c, Response) /\ Owned(c, "handle")
    <2>1. /\ srv'[c] = "handle" /\ \A d \in Client \ {c} : srv'[d] = srv[d]
          /\ srv' \in [Client -> SrvAt]
      BY <1>0, <1>3 DEF Owned, TypeOK, SrvAt
    <2>2. /\ down' \in [Client -> Seq(Package)]
          /\ \A d \in Client \ {c} : down'[d] = down[d]
          /\ gone(c) => down'[c] = down[c]
          /\ ~ gone(c) => down'[c] = Append(down[c], Response)
      BY <1>0, <1>3, WriteFacts, Packages
    <2>3. TypeOK'
      BY <1>0, <1>1, <2>1, <2>2 DEF TypeOK, client, datas, SrvAt
    <2>4. OwnInv'
      <3>1. \A d \in Client : srv'[d] = srv[d] \/ (srv[d] \in Loose /\ srv'[d] \in Loose)
        BY <1>0, <2>1 DEF Loose
      <3>2. \A d \in Client : pc'[d] = "new" => srv'[d] = "none"
        BY <1>0, <1>1, <2>1 DEF OwnInv, client
      <3> QED BY <1>0, <1>1, <3>1, <3>2, LooseFrame
    <2>5. \A d \in Client \ {c} : Same(d)
      BY <1>1, <2>2 DEF Same, client
    <2>6. \A d \in Client \ {c}, m \in Mode : InMode(d, m)' => InMode(d, m)
      BY <1>1, <2>1 DEF InMode, InList, datas
    <2>7. Replies(c)
      <3>1. InMode(c, "replies")
        BY <1>0 DEF InMode
      <3> QED BY <3>1 DEF Inv, TalkInv, ModeInv, Mode, Talk
    <2>8. /\ pc'[c] = pc[c] /\ todo'[c] = todo[c] /\ val'[c] = val[c] /\ up'[c] = up[c] /\ offered'[c] = offered[c]
          /\ Request(c)' = Request(c) /\ Op(c)' = Op(c) /\ (gone(c)' <=> gone(c))
      BY <1>1 DEF client, Request, Op, gone
    <2>9. gone(c) => Same(c)
      BY <2>2, <2>8 DEF Same
    <2>10. ~ gone(c) => pc[c] = "response" /\ down'[c] = <<Response>> /\ Op(c) \notin {"push", "pop"}
      BY <2>2, <2>7, One DEF Replies
    <2>11. ClientInv(c)'
      <3>1. CASE gone(c)
        BY <1>0, <2>9, <3>1, SameTalk
      <3>2. CASE ~ gone(c)
        BY <1>0, <2>8, <2>10, <3>2 DEF ClientInv, Inside
      <3> QED BY <3>1, <3>2
    <2>12. Asks(c)'
      <3>1. up'[c] = <<>>
        BY <2>7, <2>8 DEF Replies
      <3>2. CASE gone(c)
        BY <2>8, <3>1, <3>2 DEF Asks, AsksUp, gone
      <3>3. CASE ~ gone(c)
        BY <2>8, <2>10, <3>1, <3>3 DEF Asks, AsksUp
      <3> QED BY <3>2, <3>3
    <2>14. ~ Member(c, pushing_nodes) /\ ~ Member(c, poping_nodes) /\ ~ \E x \in transfers : c \in {x.push, x.pop}
      BY <1>0, OwnerParts DEF OwnInv, Attached, Waits, Member
    <2>15. \A m \in Mode : InMode(c, m)' => m = "asks"
      BY <1>1, <2>1, <2>14 DEF InMode, InList, datas, Member
    <2>16. Keeps(c) /\ \A m \in Mode : InMode(c, m)' => Talk(c, m)'
      BY <2>8, <2>11, <2>12, <2>15 DEF Keeps, Talk
    <2> QED BY <1>1, <2>3, <2>4, <2>5, <2>6, <2>16, Frame
  <1> QED BY <1>2, <1>3 DEF Reply

LEMMA ReqInjective ==
  \A a, b : Req(a) = Req(b) => a = b
  <1> SUFFICES ASSUME NEW a, NEW b, Req(a) = Req(b) PROVE a = b
    OBVIOUS
  <1>1. Req(a).call = a /\ Req(b).call = b
    BY DEF Req
  <1> QED BY <1>1

(* A request is read: what it is, and where its client is.                 *)
LEMMA HandleFacts ==
  ASSUME Inv, NEW c \in Client, srv[c] = "handle", up[c] # <<>>, NEW call, call = Head(up[c]).call,
         UNCHANGED <<client, down, offered>>, up' = [up EXCEPT ![c] = Tail(up[c])]
  PROVE  /\ Head(up[c]).type = "request" /\ call \in Call
         /\ up' \in [Client -> Seq(Package)]
         /\ \A d \in Client \ {c} : Same(d)
         /\ ClientInv(c)'
         /\ call.op = "push" => Pushes(c)' /\ offered'[c] = call
         /\ call.op = "pop" => Pops(c)' /\ (~ gone(c)' => Request(c)' = call)
         /\ call.op \in {"check", "close"} => Replies(c)'
  <1>0. TypeOK /\ ClientInv(c) /\ Asks(c)
    <2>1. InMode(c, "asks")
      BY DEF InMode
    <2> QED BY <2>1 DEF Inv, TalkInv, ModeInv, Mode, Talk
  <1>1. /\ up' \in [Client -> Seq(Package)] /\ up'[c] = Tail(up[c]) /\ \A d \in Client \ {c} : up'[d] = up[d]
    <2>1. up[c] \in Seq(Package) /\ Tail(up[c]) \in Seq(Package)
      BY <1>0, Types
    <2> QED BY <1>0, <2>1, Types
  <1>2. \A d \in Client \ {c} : Same(d)
    BY <1>1 DEF Same, client
  <1>3. /\ pc'[c] = pc[c] /\ todo'[c] = todo[c] /\ val'[c] = val[c] /\ down'[c] = down[c] /\ offered'[c] = offered[c]
        /\ Request(c)' = Request(c) /\ Op(c)' = Op(c) /\ (gone(c)' <=> gone(c))
    BY DEF client, Request, Op, gone
  <1>4. ClientInv(c)'
    BY <1>0, <1>3 DEF ClientInv
  <1>5. ASSUME NEW k \in Call, up[c] = <<Req(k)>>, k.op = "push" => offered[c] = k
        PROVE  /\ Head(up[c]).type = "request" /\ call \in Call
               /\ call.op = "push" => Pushes(c)' /\ offered'[c] = call
               /\ call.op = "pop" => Pops(c)' /\ (~ gone(c)' => Request(c)' = call)
               /\ call.op \in {"check", "close"} => Replies(c)'
    <2>1. Head(up[c]) = Req(k) /\ Tail(up[c]) = <<>> /\ up'[c] = <<>>
      BY <1>1, <1>5, One
    <2>2. call = k /\ Head(up[c]).type = "request" /\ (k.op = "push" => k \in PushCall)
      BY <2>1, Packages
    <2>3. \A j : up[c] = <<Req(j)>> => j = k
      BY <1>5, Injective, ReqInjective
    <2>4. \A a, b : up[c] # <<a, b>>
      BY <1>5, Injective
    <2>5. ~ gone(c) => pc[c] \in {"new", "idle"} \cup Inside
      BY <1>0, Types DEF gone
    <2>6. ASSUME ~ gone(c)
          PROVE  /\ Request(c) = k /\ down[c] = <<>>
                 /\ \/ pc[c] = "push_data" /\ k.op = "push"
                    \/ pc[c] = "pop_data" /\ k.op = "pop"
                    \/ pc[c] = "response" /\ k.op \notin {"push", "pop"}
      BY <1>0, <2>3, <2>4, <2>5, <2>6 DEF Asks, ClientInv, Inside, Op
    <2>7. k.op = "push" => Pushes(c)' /\ offered'[c] = k
      BY <1>3, <1>5, <2>1, <2>2, <2>6 DEF Pushes
    <2>8. k.op = "pop" => Pops(c)' /\ (~ gone(c)' => Request(c)' = k)
      BY <1>3, <2>1, <2>6 DEF Pops
    <2>9. k.op \in {"check", "close"} => Replies(c)'
      BY <1>3, <2>1, <2>6 DEF Replies, Op
    <2> QED BY <2>2, <2>7, <2>8, <2>9
  <1>6. ASSUME NEW k \in PushCall, up[c] = <<Req(k), Data(k.value)>>, offered[c] = k
        PROVE  /\ Head(up[c]).type = "request" /\ call \in Call /\ call.op = "push"
               /\ Pushes(c)' /\ offered'[c] = call
    <2>1. Head(up[c]) = Req(k) /\ up'[c] = <<Data(k.value)>> /\ up'[c] # <<>>
      BY <1>1, <1>6, One, Two
    <2>2. call = k /\ k \in Call /\ Head(up[c]).type = "request" /\ k.op = "push"
      BY <2>1, Packages
    <2>3. \A j, b : up[c] = <<Req(j), b>> => j = k
      BY <1>6, Injective, ReqInjective
    <2>4. \A a : up[c] # <<a>>
      BY <1>6, Injective
    <2>5. ~ gone(c) => pc[c] \in {"new", "idle"} \cup Inside
      BY <1>0, Types DEF gone
    <2>6. ~ gone(c) => Request(c) = k /\ down[c] = <<>> /\ pc[c] = "response"
      BY <1>0, <2>3, <2>4, <2>5 DEF Asks, Inside
    <2>7. Pushes(c)'
      BY <1>3, <1>6, <2>1, <2>6 DEF Pushes
    <2> QED BY <1>3, <1>6, <2>2, <2>7
  <1>7. AsksUp(c)
    BY <1>0 DEF Asks
  <1>8. CASE \E k \in Call : up[c] = <<Req(k)>> /\ (k.op = "push" => offered[c] = k)
    BY <1>1, <1>2, <1>4, <1>5, <1>8
  <1>9. CASE \E k \in PushCall : up[c] = <<Req(k), Data(k.value)>> /\ offered[c] = k
    BY <1>1, <1>2, <1>4, <1>6, <1>9
  <1> QED BY <1>7, <1>8, <1>9 DEF AsksUp

LEMMA WaitsParts ==
  ASSUME NEW d
  PROVE  /\ Waits(d) <=> Member(d, pushing_nodes) \/ Member(d, poping_nodes)
         /\ Waits(d)' <=> Member(d, pushing_nodes') \/ Member(d, poping_nodes')
  BY Zenon DEF Waits, Member

(* A socket in handle is nowhere else.                                     *)
LEMMA HandledAlone ==
  ASSUME OwnInv, NEW c \in Client, srv[c] \notin {"waiting", "transfer"}
  PROVE  /\ ~ Member(c, pushing_nodes) /\ ~ Member(c, poping_nodes)
         /\ ~ \E x \in transfers : c \in {x.push, x.pop}
  BY OwnerParts, WaitsParts DEF OwnInv, Attached

LEMMA ListTypes ==
  ASSUME TypeOK, OwnInv
  PROVE  /\ pushing_nodes \in Lists /\ poping_nodes \in Lists /\ topics \subseteq Topic
         /\ Distinct(pushing_nodes) /\ Distinct(poping_nodes)
         /\ \A d : ~ (Member(d, pushing_nodes) /\ Member(d, poping_nodes))
         /\ transfers \subseteq Transfer /\ srv \in [Client -> SrvAt]
         /\ \A t \in Topic \ topics : pushing_nodes[t] = <<>> /\ poping_nodes[t] = <<>>
  BY OwnerParts, ApartMembers DEF TypeOK, OwnInv, Lists, SrvAt

(* SocketsHaveOneOwner after a step, in terms of the members of the lists. *)
LEMMA OwnersAfter ==
  ASSUME \A d \in Client : srv'[d] = "waiting" <=> Member(d, pushing_nodes') \/ Member(d, poping_nodes'),
         \A d \in Client : srv'[d] = "transfer" <=> \E x \in transfers' : d \in {x.push, x.pop},
         Pairs(transfers'), Distinct(pushing_nodes'), Distinct(poping_nodes'),
         \A d : ~ (Member(d, pushing_nodes') /\ Member(d, poping_nodes'))
  PROVE  SocketsHaveOneOwner'
  <1>1. Attached'
    <2> SUFFICES ASSUME NEW d \in Client
                 PROVE  /\ (srv'[d] = "waiting") <=> Waits(d)'
                        /\ (srv'[d] = "transfer") <=> \E x \in transfers' : d \in {x.push, x.pop}
      BY DEF Attached
    <2> QED BY WaitsParts
  <1>2. Apart(pushing_nodes', poping_nodes')
    BY ApartMembers
  <1> QED BY <1>1, <1>2, OwnerParts

(* The modes and topics after a step, in terms of those before it.         *)
LEMMA TalkAfter ==
  ASSUME Inv, TypeOK', OwnInv', TopicInv', NEW S \in SUBSET Client,
         \A d \in Client \ S : Same(d),
         \A d \in S : ClientInv(d)',
         \A d \in Client \ S, m \in Mode : InMode(d, m)' => InMode(d, m),
         \A d \in S, m \in Mode : InMode(d, m)' => Talk(d, m)'
  PROVE  Inv'
  <1>1. (\A d \in Client : ClientInv(d)) /\ ModeInv
    BY DEF Inv, TalkInv
  <1>2. \A d \in Client : ClientInv(d)'
    BY <1>1, SameTalk
  <1>3. ModeInv'
    <2> SUFFICES ASSUME NEW d \in Client, NEW m \in Mode, InMode(d, m)' PROVE Talk(d, m)'
      BY DEF ModeInv
    <2>1. CASE d \in S
      BY <2>1
    <2>2. CASE d \notin S
      BY <1>1, <2>2, SameTalk DEF ModeInv
    <2> QED BY <2>1, <2>2
  <1> QED BY <1>2, <1>3 DEF Inv, TalkInv

LEMMA PushWaitsInv ==
  ASSUME Inv, NEW c \in Client, srv[c] = "handle", NEW t \in Topic, UNCHANGED <<client, down, offered, accepting>>,
         \A d \in Client \ {c} : Same(d), ClientInv(c)', Pushes(c)', offered'[c].topic = t,
         up' \in [Client -> Seq(Package)],
         poping_nodes[t] = <<>>, handle_push_request(c, t)
  PROVE  Inv'
  <1>0. TypeOK /\ OwnInv /\ TopicInv
    BY DEF Inv, TalkInv
  <1>1. /\ topics' = topics \cup {t} /\ pushing_nodes' = [pushing_nodes EXCEPT ![t] = Append(pushing_nodes[t], c)]
        /\ srv' = [srv EXCEPT ![c] = "waiting"] /\ UNCHANGED <<poping_nodes, transfers>>
    BY DEF handle_push_request, Owned
  <1>2. /\ ~ Member(c, pushing_nodes) /\ ~ Member(c, poping_nodes)
        /\ ~ \E x \in transfers : c \in {x.push, x.pop}
    BY <1>0, HandledAlone
  <1>3. /\ pushing_nodes' \in Lists /\ Distinct(pushing_nodes')
        /\ \A d : Member(d, pushing_nodes') <=> Member(d, pushing_nodes) \/ d = c
        /\ \A s \in Topic, d \in Client : InList(d, pushing_nodes'[s]) => InList(d, pushing_nodes[s]) \/ (d = c /\ s = t)
    <2>1. pushing_nodes \in Lists /\ Distinct(pushing_nodes)
      BY <1>0, ListTypes
    <2>2. pushing_nodes' = Added(pushing_nodes, t, c)
      BY <1>1 DEF Added
    <2> QED BY <1>2, <2>1, <2>2, AppendLists
  <1>4. /\ srv' \in [Client -> SrvAt] /\ srv'[c] = "waiting" /\ \A d \in Client \ {c} : srv'[d] = srv[d]
    BY <1>0, <1>1, ListTypes DEF SrvAt
  <1>5. \A s \in Topic \ {t} : pushing_nodes'[s] = pushing_nodes[s]
    BY <1>0, <1>1, ListTypes DEF Lists
  <1>6. TypeOK'
    <2>1. \A s \in Topic \ topics' : pushing_nodes'[s] = <<>> /\ poping_nodes'[s] = <<>>
      BY <1>0, <1>1, <1>5 DEF TypeOK
    <2> QED BY <1>0, <1>1, <1>3, <1>4, <2>1 DEF TypeOK, Lists, SrvAt, client
  <1>7. SocketsHaveOneOwner'
    <2>1. \A d \in Client : srv'[d] = "waiting" <=> Member(d, pushing_nodes') \/ Member(d, poping_nodes')
      BY <1>0, <1>1, <1>3, <1>4, OwnerParts, WaitsParts DEF OwnInv, Attached
    <2>2. \A d \in Client : srv'[d] = "transfer" <=> \E x \in transfers' : d \in {x.push, x.pop}
      BY <1>0, <1>1, <1>2, <1>4, OwnerParts DEF OwnInv, Attached
    <2>3. \A d : ~ (Member(d, pushing_nodes') /\ Member(d, poping_nodes'))
      BY <1>0, <1>1, <1>2, <1>3, ListTypes
    <2> QED BY <1>0, <1>1, <1>3, <2>1, <2>2, <2>3, OwnersAfter, OwnerParts DEF OwnInv
  <1>8. OwnInv'
    <2>1. NeverBothWaiting'
      BY <1>0, <1>1, <1>5 DEF OwnInv, NeverBothWaiting
    <2>2. \A d \in Client : pc'[d] = "new" => srv'[d] = "none"
      BY <1>0, <1>4 DEF OwnInv, client
    <2> QED BY <1>7, <2>1, <2>2 DEF OwnInv
  <1>9. TopicInv'
    <2>1. \A s \in Topic, d \in Client : InList(d, pushing_nodes'[s]) => offered'[d].topic = s
      BY <1>0, <1>3 DEF TopicInv
    <2> QED BY <1>0, <1>1, <2>1 DEF TopicInv, gone, Request, client, InList
  <1>10. \A d \in Client \ {c}, m \in Mode : InMode(d, m)' => InMode(d, m)
    BY <1>1, <1>3, <1>4 DEF InMode, Member
  <1>11. \A m \in Mode : InMode(c, m)' => m = "pushes"
    BY <1>1, <1>2, <1>4 DEF InMode, Member
  <1>12. \A m \in Mode : InMode(c, m)' => Talk(c, m)'
    BY <1>11 DEF Talk
  <1>13. {c} \in SUBSET Client /\ \A d \in {c} : d = c
    OBVIOUS
  <1> QED BY <1>6, <1>8, <1>9, <1>10, <1>12, <1>13, TalkAfter

LEMMA PopWaitsInv ==
  ASSUME Inv, NEW c \in Client, srv[c] = "handle", NEW t \in Topic, UNCHANGED <<client, down, offered, accepting>>,
         \A d \in Client \ {c} : Same(d), ClientInv(c)', Pops(c)', ~ gone(c)' => Request(c)'.topic = t,
         up' \in [Client -> Seq(Package)],
         pushing_nodes[t] = <<>>, handle_pop_request(c, t)
  PROVE  Inv'
  <1>0. TypeOK /\ OwnInv /\ TopicInv
    BY DEF Inv, TalkInv
  <1>1. /\ topics' = topics \cup {t} /\ poping_nodes' = [poping_nodes EXCEPT ![t] = Append(poping_nodes[t], c)]
        /\ srv' = [srv EXCEPT ![c] = "waiting"] /\ UNCHANGED <<pushing_nodes, transfers>>
    BY DEF handle_pop_request, Owned
  <1>2. /\ ~ Member(c, pushing_nodes) /\ ~ Member(c, poping_nodes)
        /\ ~ \E x \in transfers : c \in {x.push, x.pop}
    BY <1>0, HandledAlone
  <1>3. /\ poping_nodes' \in Lists /\ Distinct(poping_nodes')
        /\ \A d : Member(d, poping_nodes') <=> Member(d, poping_nodes) \/ d = c
        /\ \A s \in Topic, d \in Client : InList(d, poping_nodes'[s]) => InList(d, poping_nodes[s]) \/ (d = c /\ s = t)
    <2>1. poping_nodes \in Lists /\ Distinct(poping_nodes)
      BY <1>0, ListTypes
    <2>2. poping_nodes' = Added(poping_nodes, t, c)
      BY <1>1 DEF Added
    <2> QED BY <1>2, <2>1, <2>2, AppendLists
  <1>4. /\ srv' \in [Client -> SrvAt] /\ srv'[c] = "waiting" /\ \A d \in Client \ {c} : srv'[d] = srv[d]
    BY <1>0, <1>1, ListTypes DEF SrvAt
  <1>5. \A s \in Topic \ {t} : poping_nodes'[s] = poping_nodes[s]
    BY <1>0, <1>1, ListTypes DEF Lists
  <1>6. TypeOK'
    <2>1. \A s \in Topic \ topics' : pushing_nodes'[s] = <<>> /\ poping_nodes'[s] = <<>>
      BY <1>0, <1>1, <1>5 DEF TypeOK
    <2> QED BY <1>0, <1>1, <1>3, <1>4, <2>1 DEF TypeOK, Lists, SrvAt, client
  <1>7. SocketsHaveOneOwner'
    <2>1. \A d \in Client : srv'[d] = "waiting" <=> Member(d, pushing_nodes') \/ Member(d, poping_nodes')
      BY <1>0, <1>1, <1>3, <1>4, OwnerParts, WaitsParts DEF OwnInv, Attached
    <2>2. \A d \in Client : srv'[d] = "transfer" <=> \E x \in transfers' : d \in {x.push, x.pop}
      BY <1>0, <1>1, <1>2, <1>4, OwnerParts DEF OwnInv, Attached
    <2>3. \A d : ~ (Member(d, pushing_nodes') /\ Member(d, poping_nodes'))
      BY <1>0, <1>1, <1>2, <1>3, ListTypes
    <2> QED BY <1>0, <1>1, <1>3, <2>1, <2>2, <2>3, OwnersAfter, OwnerParts DEF OwnInv
  <1>8. OwnInv'
    <2>1. NeverBothWaiting'
      BY <1>0, <1>1, <1>5 DEF OwnInv, NeverBothWaiting
    <2>2. \A d \in Client : pc'[d] = "new" => srv'[d] = "none"
      BY <1>0, <1>4 DEF OwnInv, client
    <2> QED BY <1>7, <2>1, <2>2 DEF OwnInv
  <1>9. TopicInv'
    <2>0. \A d \in Client : Request(d)' = Request(d) /\ (gone(d)' <=> gone(d))
      BY DEF Request, gone, client
    <2>1. \A s \in Topic, d \in Client : InList(d, poping_nodes'[s]) /\ ~ gone(d)' => Request(d)'.topic = s
      BY <1>0, <1>3, <2>0 DEF TopicInv
    <2> QED BY <1>0, <1>1, <2>1 DEF TopicInv, gone, Request, client, InList
  <1>10. \A d \in Client \ {c}, m \in Mode : InMode(d, m)' => InMode(d, m)
    BY <1>1, <1>3, <1>4 DEF InMode, Member
  <1>11. \A m \in Mode : InMode(c, m)' => m = "pops"
    BY <1>1, <1>2, <1>4 DEF InMode, Member
  <1>12. \A m \in Mode : InMode(c, m)' => Talk(c, m)'
    BY <1>11 DEF Talk
  <1>13. {c} \in SUBSET Client /\ \A d \in {c} : d = c
    OBVIOUS
  <1> QED BY <1>6, <1>8, <1>9, <1>10, <1>12, <1>13, TalkAfter

(* Two sockets are given to a coroutine in transfer_data.                  *)
LEMMA SpawnInv ==
  ASSUME Inv, NEW p \in Client, NEW q \in Client, p # q, Spawn(p, q),
         \A x \in transfers : p \notin {x.push, x.pop} /\ q \notin {x.push, x.pop},
         UNCHANGED <<client, down, offered, accepting, topics>>, up' \in [Client -> Seq(Package)],
         pushing_nodes' \in Lists, poping_nodes' \in Lists,
         Distinct(pushing_nodes'), Distinct(poping_nodes'),
         \A d : Member(d, pushing_nodes') <=> Member(d, pushing_nodes) /\ d # p,
         \A d : Member(d, poping_nodes') <=> Member(d, poping_nodes) /\ d # q,
         ~ Member(q, pushing_nodes), ~ Member(p, poping_nodes),
         \A s \in Topic : /\ pushing_nodes[s] = <<>> => pushing_nodes'[s] = <<>>
                          /\ poping_nodes[s] = <<>> => poping_nodes'[s] = <<>>,
         \A s \in Topic : \A d : /\ InList(d, pushing_nodes'[s]) => InList(d, pushing_nodes[s])
                                 /\ InList(d, poping_nodes'[s]) => InList(d, poping_nodes[s]),
         \A d \in Client \ {p, q} : Same(d), ClientInv(p)', ClientInv(q)', Pushes(p)', Pops(q)',
         ~ gone(q)' => Request(q)'.topic = offered'[p].topic
  PROVE  Inv'
  <1>0. TypeOK /\ OwnInv /\ TopicInv
    BY DEF Inv, TalkInv
  <1>1. PICK new : new = [push |-> p, pop |-> q, value |-> Nil, at |-> "start"]
    OBVIOUS
  <1>2. /\ transfers' = transfers \cup {new} /\ new \in Transfer /\ new.push = p /\ new.pop = q /\ new.at = "start"
        /\ PushMode(new) = "pushes" /\ PopMode(new) = "pops"
    BY <1>1 DEF Spawn, Transfer, PushMode, PopMode
  <1>3. /\ srv' \in [Client -> SrvAt] /\ srv'[p] = "transfer" /\ srv'[q] = "transfer"
        /\ \A d \in Client \ {p, q} : srv'[d] = srv[d]
    BY <1>0, ListTypes DEF Spawn, SrvAt
  <1>4. TypeOK'
    <2>1. \A s \in Topic \ topics' : pushing_nodes'[s] = <<>> /\ poping_nodes'[s] = <<>>
      BY <1>0 DEF TypeOK
    <2>2. transfers' \subseteq Transfer
      BY <1>0, <1>2 DEF TypeOK
    <2> QED BY <1>0, <1>3, <2>1, <2>2 DEF TypeOK, Lists, SrvAt, client
  <1>5. SocketsHaveOneOwner'
    <2>1. \A d \in Client : srv'[d] = "waiting" <=> Member(d, pushing_nodes') \/ Member(d, poping_nodes')
      BY <1>0, <1>3, OwnerParts, WaitsParts DEF OwnInv, Attached
    <2>2. \A d \in Client : srv'[d] = "transfer" <=> \E x \in transfers' : d \in {x.push, x.pop}
      <3>1. \A d \in Client : srv[d] = "transfer" <=> \E x \in transfers : d \in {x.push, x.pop}
        BY <1>0, OwnerParts DEF OwnInv, Attached
      <3>2. \A d : (\E x \in transfers' : d \in {x.push, x.pop}) <=>
                       d \in {p, q} \/ \E x \in transfers : d \in {x.push, x.pop}
        BY <1>2
      <3> QED BY <1>3, <3>1, <3>2
    <2>3. Pairs(transfers')
      <3>1. Pairs(transfers)
        BY <1>0, OwnerParts DEF OwnInv
      <3>2. ASSUME NEW x \in transfers', NEW y \in transfers', {x.push, x.pop} \cap {y.push, y.pop} # {}
            PROVE  x = y
        <4>1. PICK d : d \in {x.push, x.pop} /\ d \in {y.push, y.pop}
          BY <3>2
        <4>2. CASE x = new /\ y # new
          BY <1>2, <4>1, <4>2
        <4>3. CASE x # new /\ y = new
          BY <1>2, <4>1, <4>3
        <4>4. CASE x # new /\ y # new
          BY <1>2, <3>1, <3>2, <4>4 DEF Pairs
        <4> QED BY <4>2, <4>3, <4>4
      <3>3. \A x \in transfers' : x.push # x.pop
        BY <1>2, <3>1 DEF Pairs
      <3> QED BY <3>2, <3>3 DEF Pairs
    <2>4. \A d : ~ (Member(d, pushing_nodes') /\ Member(d, poping_nodes'))
      BY <1>0, ListTypes
    <2> QED BY <2>1, <2>2, <2>3, <2>4, OwnersAfter
  <1>6. OwnInv'
    <2>1. NeverBothWaiting'
      BY <1>0 DEF OwnInv, NeverBothWaiting
    <2>2. pc'[p] # "new"
      BY DEF Pushes, gone
    <2>3. pc'[q] # "new"
      BY DEF Pops, gone
    <2>4. ASSUME NEW d \in Client, pc'[d] = "new" PROVE srv'[d] = "none"
      <3>1. d \in Client \ {p, q} /\ pc[d] = "new"
        BY <2>2, <2>3, <2>4 DEF client
      <3> QED BY <1>0, <1>3, <3>1 DEF OwnInv
    <2> QED BY <1>5, <2>1, <2>4 DEF OwnInv
  <1>7. TopicInv'
    <2>1. \A d \in Client : Request(d)' = Request(d) /\ (gone(d)' <=> gone(d)) /\ offered'[d] = offered[d]
      BY DEF Request, gone, client
    <2>2. \A s \in Topic, d \in Client : InList(d, pushing_nodes'[s]) => offered'[d].topic = s
      BY <1>0, <2>1 DEF TopicInv
    <2>3. ASSUME NEW s \in Topic, NEW d \in Client, InList(d, poping_nodes'[s]), ~ gone(d)'
          PROVE  Request(d)'.topic = s
      <3>1. InList(d, poping_nodes[s]) /\ ~ gone(d)
        BY <2>1, <2>3
      <3> QED BY <1>0, <2>1, <3>1 DEF TopicInv
    <2>4. ASSUME NEW x \in transfers', x.at \in {"start", "read", "write_data"}
          PROVE  /\ ~ gone(x.pop)' => Request(x.pop)'.topic = offered'[x.push].topic
                 /\ x.at = "write_data" => x.value = offered'[x.push].value
      <3>1. CASE x = new
        BY <1>2, <3>1
      <3>2. CASE x # new
        <4>1. x \in transfers /\ x.push \in Client /\ x.pop \in Client
          BY <1>0, <1>2, <3>2 DEF TypeOK, Transfer
        <4> QED BY <1>0, <2>1, <2>4, <4>1 DEF TopicInv
      <3> QED BY <3>1, <3>2
    <2> QED BY <2>2, <2>3, <2>4 DEF TopicInv
  <1>8. \A d \in Client \ {p, q}, m \in Mode : InMode(d, m)' => InMode(d, m)
    BY <1>2, <1>3 DEF InMode, Member
  <1>9. \A m \in Mode : InMode(p, m)' => m = "pushes"
    BY <1>2, <1>3 DEF InMode, Member
  <1>10. \A m \in Mode : InMode(q, m)' => m = "pops"
    BY <1>2, <1>3 DEF InMode, Member
  <1>11. \A d \in {p, q}, m \in Mode : InMode(d, m)' => Talk(d, m)'
    BY <1>9, <1>10 DEF Talk
  <1>12. {p, q} \in SUBSET Client
    OBVIOUS
  <1> QED BY <1>4, <1>6, <1>7, <1>8, <1>11, <1>12, TalkAfter

LEMMA PushMeetsInv ==
  ASSUME Inv, NEW c \in Client, srv[c] = "handle", NEW t \in Topic, UNCHANGED <<client, down, offered, accepting>>,
         \A d \in Client \ {c} : Same(d), ClientInv(c)', Pushes(c)', offered'[c].topic = t,
         up' \in [Client -> Seq(Package)],
         poping_nodes[t] # <<>>, handle_push_request(c, t)
  PROVE  Inv'
  <1>0. TypeOK /\ OwnInv /\ TopicInv /\ ModeInv /\ \A d \in Client : ClientInv(d)
    BY DEF Inv, TalkInv
  <1>1. /\ poping_nodes' = Shorter(poping_nodes, t) /\ Spawn(c, Back(poping_nodes[t]))
        /\ UNCHANGED <<topics, pushing_nodes>>
    BY DEF handle_push_request, Shorter
  <1>2. /\ ~ Member(c, pushing_nodes) /\ ~ Member(c, poping_nodes)
        /\ ~ \E x \in transfers : c \in {x.push, x.pop}
    BY <1>0, HandledAlone
  <1>3. PICK q : q = Back(poping_nodes[t])
    OBVIOUS
  <1>4. /\ q \in Client /\ InList(q, poping_nodes[t])
        /\ poping_nodes' \in Lists /\ Distinct(poping_nodes')
        /\ \A d : Member(d, poping_nodes') <=> Member(d, poping_nodes) /\ d # q
        /\ \A s \in Topic : \A d : InList(d, poping_nodes'[s]) => InList(d, poping_nodes[s])
    <2>1. poping_nodes \in Lists /\ Distinct(poping_nodes) /\ poping_nodes[t] # <<>>
      BY <1>0, ListTypes
    <2>2. PICK P, R : P = poping_nodes /\ R = poping_nodes'
      OBVIOUS
    <2>3. P \in Lists /\ t \in Topic /\ Distinct(P) /\ P[t] # <<>> /\ R = Shorter(P, t) /\ q = Back(P[t])
      BY <1>1, <1>3, <2>1, <2>2
    <2>4. /\ q \in Client /\ InList(q, P[t])
          /\ R \in Lists /\ Distinct(R)
          /\ \A d : Member(d, R) <=> Member(d, P) /\ d # q
          /\ \A s \in Topic : \A d : InList(d, R[s]) => InList(d, P[s])
      BY ONLY <2>3, PopLists
    <2> QED BY <2>2, <2>4
  <1>5. Member(q, poping_nodes) /\ q # c /\ ~ Member(q, pushing_nodes)
    <2>1. Member(q, poping_nodes)
      BY <1>4 DEF Member
    <2> QED BY <1>0, <1>2, <2>1, ListTypes
  <1>6. \A x \in transfers : q \notin {x.push, x.pop}
    <2>1. srv[q] = "waiting"
      BY <1>0, <1>4, <1>5, OwnerParts, WaitsParts DEF OwnInv, Attached
    <2> QED BY <1>0, <1>4, <2>1, OwnerParts DEF OwnInv, Attached
  <1>7. \A s \in Topic : poping_nodes[s] = <<>> => poping_nodes'[s] = <<>>
    <2>1. poping_nodes \in Lists
      BY <1>0, ListTypes
    <2> QED BY <1>1, <2>1 DEF Shorter, Lists
  <1>8. Talk(q, "pops") /\ ClientInv(q) /\ Same(q)
    <2>1. InMode(q, "pops")
      BY <1>4 DEF InMode
    <2>2. Talk(q, "pops")
      BY <1>0, <1>4, <2>1 DEF ModeInv, Mode
    <2> QED BY <1>0, <1>4, <1>5, <2>2
  <1>9. Pops(q)' /\ ClientInv(q)' /\ (gone(q)' <=> gone(q)) /\ Request(q)' = Request(q)
    <2>1. Talk(q, "pops")' /\ ClientInv(q)' /\ (gone(q)' <=> gone(q)) /\ Request(q)' = Request(q)
      BY <1>8, SameTalk
    <2> QED BY <2>1 DEF Talk
  <1>10. ~ gone(q)' => Request(q)'.topic = offered'[c].topic
    BY <1>0, <1>4, <1>9 DEF TopicInv
  <1>11. pushing_nodes' \in Lists /\ Distinct(pushing_nodes')
    BY <1>0, <1>1, ListTypes
  <1>12. \A d : Member(d, pushing_nodes') <=> Member(d, pushing_nodes) /\ d # c
    BY <1>1, <1>2
  <1>13. /\ \A s \in Topic : /\ pushing_nodes[s] = <<>> => pushing_nodes'[s] = <<>>
                             /\ poping_nodes[s] = <<>> => poping_nodes'[s] = <<>>
         /\ \A s \in Topic : \A d : /\ InList(d, pushing_nodes'[s]) => InList(d, pushing_nodes[s])
                                    /\ InList(d, poping_nodes'[s]) => InList(d, poping_nodes[s])
    BY <1>1, <1>4, <1>7
  <1>14. \A x \in transfers : c \notin {x.push, x.pop} /\ q \notin {x.push, x.pop}
    BY <1>2, <1>6
  <1>15. Spawn(c, q) /\ UNCHANGED <<client, down, offered, accepting, topics>> /\ \A d \in Client \ {c, q} : Same(d)
    BY <1>1, <1>3
  <1> QED BY <1>2, <1>4, <1>5, <1>9, <1>10, <1>11, <1>12, <1>13, <1>14, <1>15, SpawnInv

LEMMA PopMeetsInv ==
  ASSUME Inv, NEW c \in Client, srv[c] = "handle", NEW t \in Topic, UNCHANGED <<client, down, offered, accepting>>,
         \A d \in Client \ {c} : Same(d), ClientInv(c)', Pops(c)', ~ gone(c)' => Request(c)'.topic = t,
         up' \in [Client -> Seq(Package)],
         pushing_nodes[t] # <<>>, handle_pop_request(c, t)
  PROVE  Inv'
  <1>0. TypeOK /\ OwnInv /\ TopicInv /\ ModeInv /\ \A d \in Client : ClientInv(d)
    BY DEF Inv, TalkInv
  <1>1. /\ pushing_nodes' = Shorter(pushing_nodes, t) /\ Spawn(Back(pushing_nodes[t]), c)
        /\ UNCHANGED <<topics, poping_nodes>>
    BY DEF handle_pop_request, Shorter
  <1>2. /\ ~ Member(c, pushing_nodes) /\ ~ Member(c, poping_nodes)
        /\ ~ \E x \in transfers : c \in {x.push, x.pop}
    BY <1>0, HandledAlone
  <1>3. PICK p : p = Back(pushing_nodes[t])
    OBVIOUS
  <1>4. /\ p \in Client /\ InList(p, pushing_nodes[t])
        /\ pushing_nodes' \in Lists /\ Distinct(pushing_nodes')
        /\ \A d : Member(d, pushing_nodes') <=> Member(d, pushing_nodes) /\ d # p
        /\ \A s \in Topic : \A d : InList(d, pushing_nodes'[s]) => InList(d, pushing_nodes[s])
    <2>1. pushing_nodes \in Lists /\ Distinct(pushing_nodes) /\ pushing_nodes[t] # <<>>
      BY <1>0, ListTypes
    <2>2. PICK P, R : P = pushing_nodes /\ R = pushing_nodes'
      OBVIOUS
    <2>3. P \in Lists /\ t \in Topic /\ Distinct(P) /\ P[t] # <<>> /\ R = Shorter(P, t) /\ p = Back(P[t])
      BY <1>1, <1>3, <2>1, <2>2
    <2>4. /\ p \in Client /\ InList(p, P[t])
          /\ R \in Lists /\ Distinct(R)
          /\ \A d : Member(d, R) <=> Member(d, P) /\ d # p
          /\ \A s \in Topic : \A d : InList(d, R[s]) => InList(d, P[s])
      BY ONLY <2>3, PopLists
    <2> QED BY <2>2, <2>4
  <1>5. Member(p, pushing_nodes) /\ p # c /\ ~ Member(p, poping_nodes)
    <2>1. Member(p, pushing_nodes)
      BY <1>4 DEF Member
    <2> QED BY <1>0, <1>2, <2>1, ListTypes
  <1>6. \A x \in transfers : p \notin {x.push, x.pop}
    <2>1. srv[p] = "waiting"
      BY <1>0, <1>4, <1>5, OwnerParts, WaitsParts DEF OwnInv, Attached
    <2> QED BY <1>0, <1>4, <2>1, OwnerParts DEF OwnInv, Attached
  <1>7. \A s \in Topic : pushing_nodes[s] = <<>> => pushing_nodes'[s] = <<>>
    <2>1. pushing_nodes \in Lists
      BY <1>0, ListTypes
    <2> QED BY <1>1, <2>1 DEF Shorter, Lists
  <1>8. Talk(p, "pushes") /\ ClientInv(p) /\ Same(p)
    <2>1. InMode(p, "pushes")
      BY <1>4 DEF InMode
    <2>2. Talk(p, "pushes")
      BY <1>0, <1>4, <2>1 DEF ModeInv, Mode
    <2> QED BY <1>0, <1>4, <1>5, <2>2
  <1>9. Pushes(p)' /\ ClientInv(p)' /\ offered'[p] = offered[p]
    <2>2. Talk(p, "pushes")' /\ ClientInv(p)'
      BY <1>8, SameTalk
    <2> QED BY <1>8, <2>2 DEF Talk, Same
  <1>10. ~ gone(c)' => Request(c)'.topic = offered'[p].topic
    BY <1>0, <1>4, <1>9 DEF TopicInv
  <1>11. poping_nodes' \in Lists /\ Distinct(poping_nodes')
    BY <1>0, <1>1, ListTypes
  <1>12. \A d : Member(d, poping_nodes') <=> Member(d, poping_nodes) /\ d # c
    BY <1>1, <1>2
  <1>13. /\ \A s \in Topic : /\ pushing_nodes[s] = <<>> => pushing_nodes'[s] = <<>>
                             /\ poping_nodes[s] = <<>> => poping_nodes'[s] = <<>>
         /\ \A s \in Topic : \A d : /\ InList(d, pushing_nodes'[s]) => InList(d, pushing_nodes[s])
                                    /\ InList(d, poping_nodes'[s]) => InList(d, poping_nodes[s])
    BY <1>1, <1>4, <1>7
  <1>14. \A x \in transfers : p \notin {x.push, x.pop} /\ c \notin {x.push, x.pop}
    BY <1>2, <1>6
  <1>15. Spawn(p, c) /\ UNCHANGED <<client, down, offered, accepting, topics>> /\ \A d \in Client \ {p, c} : Same(d)
    BY <1>1, <1>3
  <1> QED BY <1>2, <1>4, <1>5, <1>9, <1>10, <1>11, <1>12, <1>13, <1>14, <1>15, SpawnInv

LEMMA CloseTopicInv ==
  ASSUME Inv, NEW c \in Client, srv[c] = "handle", NEW t \in Topic, UNCHANGED <<client, down, offered, accepting>>,
         \A d \in Client \ {c} : Same(d), ClientInv(c)', Replies(c)',
         up' \in [Client -> Seq(Package)],
         handle_close_topic_request(c, t)
  PROVE  Inv'
  <1>0. TypeOK /\ OwnInv /\ TopicInv
    BY DEF Inv, TalkInv
  <1>1. /\ pushing_nodes' = Cleared(pushing_nodes, t) /\ poping_nodes' = Cleared(poping_nodes, t)
        /\ topics' = topics \ {t} /\ transfers' = transfers
    BY DEF handle_close_topic_request, Cleared
  <1>2. /\ ~ Member(c, pushing_nodes) /\ ~ Member(c, poping_nodes)
        /\ ~ \E x \in transfers : c \in {x.push, x.pop}
    BY <1>0, HandledAlone
  <1>3. /\ pushing_nodes' \in Lists /\ Distinct(pushing_nodes')
        /\ \A d : Member(d, pushing_nodes') <=> Member(d, pushing_nodes) /\ ~ InList(d, pushing_nodes[t])
        /\ \A s \in Topic : \A d : InList(d, pushing_nodes'[s]) => InList(d, pushing_nodes[s])
    <2>1. PICK P, R : P = pushing_nodes /\ R = pushing_nodes'
      OBVIOUS
    <2>2. P \in Lists /\ t \in Topic /\ Distinct(P) /\ R = Cleared(P, t)
      BY <1>0, <1>1, <2>1, ListTypes
    <2>3. /\ R \in Lists /\ Distinct(R)
          /\ \A d : Member(d, R) <=> Member(d, P) /\ ~ InList(d, P[t])
          /\ \A s \in Topic : \A d : InList(d, R[s]) => InList(d, P[s])
      BY ONLY <2>2, ClearLists
    <2> QED BY <2>1, <2>3
  <1>4. /\ poping_nodes' \in Lists /\ Distinct(poping_nodes')
        /\ \A d : Member(d, poping_nodes') <=> Member(d, poping_nodes) /\ ~ InList(d, poping_nodes[t])
        /\ \A s \in Topic : \A d : InList(d, poping_nodes'[s]) => InList(d, poping_nodes[s])
    <2>1. PICK P, R : P = poping_nodes /\ R = poping_nodes'
      OBVIOUS
    <2>2. P \in Lists /\ t \in Topic /\ Distinct(P) /\ R = Cleared(P, t)
      BY <1>0, <1>1, <2>1, ListTypes
    <2>3. /\ R \in Lists /\ Distinct(R)
          /\ \A d : Member(d, R) <=> Member(d, P) /\ ~ InList(d, P[t])
          /\ \A s \in Topic : \A d : InList(d, R[s]) => InList(d, P[s])
      BY ONLY <2>2, ClearLists
    <2> QED BY <2>1, <2>3
  <1>5. \A s \in Topic : /\ pushing_nodes'[s] = <<>> \/ (s # t /\ pushing_nodes'[s] = pushing_nodes[s])
                         /\ poping_nodes'[s] = <<>> \/ (s # t /\ poping_nodes'[s] = poping_nodes[s])
                         /\ s = t => pushing_nodes'[s] = <<>> /\ poping_nodes'[s] = <<>>
    <2>1. pushing_nodes \in Lists /\ poping_nodes \in Lists
      BY <1>0, ListTypes
    <2> QED BY <1>1, <2>1 DEF Cleared, Lists
  <1>6. /\ srv' \in [Client -> SrvAt] /\ srv'[c] = "reply"
        /\ \A d \in Client \ {c} : IF InList(d, pushing_nodes[t]) \/ InList(d, poping_nodes[t])
                                   THEN srv'[d] = "closed" ELSE srv'[d] = srv[d]
    <2>1. srv \in [Client -> SrvAt]
      BY <1>0, ListTypes
    <2> QED BY <2>1 DEF handle_close_topic_request, SrvAt
  <1>7. \A d : InList(d, pushing_nodes[t]) => Member(d, pushing_nodes)
    BY DEF Member
  <1>8. \A d : InList(d, poping_nodes[t]) => Member(d, poping_nodes)
    BY DEF Member
  <1>9. TypeOK'
    <2>1. \A s \in Topic \ topics' : pushing_nodes'[s] = <<>> /\ poping_nodes'[s] = <<>>
      BY <1>0, <1>1, <1>5 DEF TypeOK
    <2> QED BY <1>0, <1>1, <1>3, <1>4, <1>6, <2>1 DEF TypeOK, Lists, SrvAt, client
  <1>10. SocketsHaveOneOwner'
    <2>0. Attached /\ \A d : ~ (Member(d, pushing_nodes) /\ Member(d, poping_nodes))
      BY <1>0, OwnerParts, ListTypes DEF OwnInv
    <2>1. ASSUME NEW d \in Client
          PROVE  /\ srv'[d] = "waiting" <=> Member(d, pushing_nodes') \/ Member(d, poping_nodes')
                 /\ srv'[d] = "transfer" <=> \E x \in transfers' : d \in {x.push, x.pop}
      <3>1. /\ srv[d] = "waiting" <=> Member(d, pushing_nodes) \/ Member(d, poping_nodes)
            /\ srv[d] = "transfer" <=> \E x \in transfers : d \in {x.push, x.pop}
        BY <2>0, WaitsParts DEF Attached
      <3>2. CASE d = c
        BY <1>1, <1>2, <1>3, <1>4, <1>6, <3>2
      <3>3. CASE d # c /\ (InList(d, pushing_nodes[t]) \/ InList(d, poping_nodes[t]))
        <4>1. srv[d] = "waiting" /\ srv'[d] = "closed"
          BY <1>6, <1>7, <1>8, <3>1, <3>3
        <4>2. ~ Member(d, pushing_nodes') /\ ~ Member(d, poping_nodes')
          BY <1>3, <1>4, <1>7, <1>8, <2>0, <3>3
        <4> QED BY <1>1, <3>1, <4>1, <4>2
      <3>4. CASE d # c /\ ~ InList(d, pushing_nodes[t]) /\ ~ InList(d, poping_nodes[t])
        BY <1>1, <1>3, <1>4, <1>6, <3>1, <3>4
      <3> QED BY <3>2, <3>3, <3>4
    <2>2. \A d : ~ (Member(d, pushing_nodes') /\ Member(d, poping_nodes'))
      BY <1>3, <1>4, <2>0
    <2>3. Pairs(transfers')
      BY <1>0, <1>1, OwnerParts DEF OwnInv
    <2> QED BY <1>3, <1>4, <2>1, <2>2, <2>3, OwnersAfter
  <1>11. OwnInv'
    <2>1. NeverBothWaiting'
      BY <1>0, <1>5 DEF OwnInv, NeverBothWaiting
    <2>2. ASSUME NEW d \in Client, pc'[d] = "new" PROVE srv'[d] = "none"
      <3>1. srv[d] = "none"
        BY <1>0, <2>2 DEF OwnInv, client
      <3>2. ~ Member(d, pushing_nodes) /\ ~ Member(d, poping_nodes) /\ d # c
        BY <1>0, <3>1, HandledAlone
      <3> QED BY <1>6, <1>7, <1>8, <3>1, <3>2
    <2> QED BY <1>10, <2>1, <2>2 DEF OwnInv
  <1>12. TopicInv'
    <2>1. \A d \in Client : Request(d)' = Request(d) /\ (gone(d)' <=> gone(d)) /\ offered'[d] = offered[d]
      BY DEF Request, gone, client
    <2>2. \A s \in Topic, d \in Client : InList(d, pushing_nodes'[s]) => offered'[d].topic = s
      BY <1>0, <1>3, <2>1 DEF TopicInv
    <2>3. ASSUME NEW s \in Topic, NEW d \in Client, InList(d, poping_nodes'[s]), ~ gone(d)'
          PROVE  Request(d)'.topic = s
      <3>1. InList(d, poping_nodes[s]) /\ ~ gone(d)
        BY <1>4, <2>1, <2>3
      <3> QED BY <1>0, <2>1, <3>1 DEF TopicInv
    <2>4. ASSUME NEW x \in transfers, x.at \in {"start", "read", "write_data"}
          PROVE  /\ ~ gone(x.pop)' => Request(x.pop)'.topic = offered'[x.push].topic
                 /\ x.at = "write_data" => x.value = offered'[x.push].value
      <3>1. x.push \in Client /\ x.pop \in Client
        BY <1>0 DEF TypeOK, Transfer
      <3> QED BY <1>0, <2>1, <2>4, <3>1 DEF TopicInv
    <2> QED BY <1>1, <2>2, <2>3, <2>4 DEF TopicInv
  <1>13. ASSUME NEW d \in Client \ {c}, NEW m \in Mode, InMode(d, m)' PROVE InMode(d, m)
    <2>1. srv'[d] \in Asking \cup {"reply"} => srv'[d] = srv[d]
      BY <1>6, <1>13 DEF Asking
    <2> QED BY <1>1, <1>3, <1>4, <1>13, <2>1 DEF InMode, Asking
  <1>14. \A m \in Mode : InMode(c, m)' => m = "replies"
    BY <1>1, <1>2, <1>3, <1>4, <1>6 DEF InMode, Member
  <1>15. \A m \in Mode : InMode(c, m)' => Talk(c, m)'
    BY <1>14 DEF Talk
  <1>16. {c} \in SUBSET Client /\ \A d \in {c} : d = c
    OBVIOUS
  <1> QED BY <1>9, <1>11, <1>12, <1>13, <1>15, <1>16, TalkAfter

LEMMA CheckTopicInv ==
  ASSUME Inv, NEW c \in Client, srv[c] = "handle", NEW t \in Topic, UNCHANGED <<client, down, offered, accepting>>,
         \A d \in Client \ {c} : Same(d), ClientInv(c)', Replies(c)',
         up' \in [Client -> Seq(Package)],
         handle_check_topic_exist(c, t)
  PROVE  Inv'
  <1>0. TypeOK /\ OwnInv
    BY DEF Inv
  <1>1. UNCHANGED <<datas, transfers>> /\ srv' = [srv EXCEPT ![c] = "reply"]
    BY DEF handle_check_topic_exist, Owned
  <1>2. /\ ~ Member(c, pushing_nodes) /\ ~ Member(c, poping_nodes)
        /\ ~ \E x \in transfers : c \in {x.push, x.pop}
    BY <1>0, HandledAlone
  <1>3. /\ srv' \in [Client -> SrvAt] /\ srv'[c] = "reply" /\ \A d \in Client \ {c} : srv'[d] = srv[d]
    BY <1>0, <1>1, ListTypes DEF SrvAt
  <1>4. TypeOK'
    BY <1>0, <1>1, <1>3 DEF TypeOK, client, datas, SrvAt
  <1>5. OwnInv'
    <2>1. \A d \in Client : srv'[d] = srv[d] \/ (srv[d] \in Loose /\ srv'[d] \in Loose)
      BY <1>3 DEF Loose
    <2>2. \A d \in Client : pc'[d] = "new" => srv'[d] = "none"
      BY <1>0, <1>3 DEF OwnInv, client
    <2> QED BY <1>0, <1>1, <2>1, <2>2, LooseFrame
  <1>6. \A d \in Client \ {c}, m \in Mode : InMode(d, m)' => InMode(d, m)
    BY <1>1, <1>3 DEF InMode, InList, datas
  <1>7. \A m \in Mode : InMode(c, m)' => m = "replies"
    BY <1>1, <1>2, <1>3 DEF InMode, Member, datas
  <1>8. \A m \in Mode : InMode(c, m)' => Talk(c, m)'
    BY <1>7 DEF Talk
  <1>9. Keeps(c)
    BY DEF Keeps, Request, gone, client
  <1> QED BY <1>1, <1>4, <1>5, <1>6, <1>8, <1>9, Frame

LEMMA HandleInv ==
  ASSUME Inv, NEW c \in Client, Handle(c)
  PROVE  Inv'
  <1>0. srv[c] = "handle" /\ UNCHANGED <<client, down, accepting, offered>>
    BY DEF Handle
  <1>1. CASE gone(c) /\ Owned(c, "closed") /\ UNCHANGED <<up, datas, transfers>>
    BY <1>0, <1>1, DropInv
  <1>2. CASE /\ up[c] # <<>> /\ up' = [up EXCEPT ![c] = Tail(@)]
             /\ LET call == Head(up[c]).call
                IN  CASE call.op = "push" -> handle_push_request(c, call.topic)
                      [] call.op = "pop" -> handle_pop_request(c, call.topic)
                      [] call.op = "close" -> handle_close_topic_request(c, call.topic)
                      [] call.op = "check" -> handle_check_topic_exist(c, call.topic)
    <2>1. PICK call : call = Head(up[c]).call
      OBVIOUS
    <2>2. /\ call \in Call
          /\ up' \in [Client -> Seq(Package)]
          /\ \A d \in Client \ {c} : Same(d)
          /\ ClientInv(c)'
          /\ call.op = "push" => Pushes(c)' /\ offered'[c] = call
          /\ call.op = "pop" => Pops(c)' /\ (~ gone(c)' => Request(c)' = call)
          /\ call.op \in {"check", "close"} => Replies(c)'
      BY <1>0, <1>2, <2>1, HandleFacts
    <2>3. PICK t \in Topic : t = call.topic
      BY <2>2, Packages
    <2>4. call.op \in {"push", "pop", "check", "close"}
      BY <2>2, Packages
    <2>5. /\ call.op = "push" => handle_push_request(c, t)
          /\ call.op = "pop" => handle_pop_request(c, t)
          /\ call.op = "close" => handle_close_topic_request(c, t)
          /\ call.op = "check" => handle_check_topic_exist(c, t)
      BY <1>2, <2>1, <2>3
    <2>6. CASE call.op = "push"
      <3>1. Pushes(c)' /\ offered'[c].topic = t /\ handle_push_request(c, t)
        BY <2>2, <2>3, <2>5, <2>6
      <3>2. CASE poping_nodes[t] = <<>>
        BY <1>0, <2>2, <3>1, <3>2, PushWaitsInv
      <3>3. CASE poping_nodes[t] # <<>>
        BY <1>0, <2>2, <3>1, <3>3, PushMeetsInv
      <3> QED BY <3>2, <3>3
    <2>7. CASE call.op = "pop"
      <3>1. Pops(c)' /\ (~ gone(c)' => Request(c)'.topic = t) /\ handle_pop_request(c, t)
        BY <2>2, <2>3, <2>5, <2>7
      <3>2. CASE pushing_nodes[t] = <<>>
        BY <1>0, <2>2, <3>1, <3>2, PopWaitsInv
      <3>3. CASE pushing_nodes[t] # <<>>
        BY <1>0, <2>2, <3>1, <3>3, PopMeetsInv
      <3> QED BY <3>2, <3>3
    <2>8. CASE call.op = "close"
      BY <1>0, <2>2, <2>5, <2>8, CloseTopicInv
    <2>9. CASE call.op = "check"
      BY <1>0, <2>2, <2>5, <2>9, CheckTopicInv
    <2> QED BY <2>4, <2>6, <2>7, <2>8, <2>9
  <1> QED BY <1>1, <1>2 DEF Handle

-----------------------------------------------------------------------------
(* The steps of transfer_data.                                             *)

Early == {"start", "read", "write_data"}

(* What a coroutine in transfer_data can rely on.                          *)
LEMMA TransferFacts ==
  ASSUME Inv, NEW x \in transfers
  PROVE  /\ x \in Transfer /\ x.push \in Client /\ x.pop \in Client /\ x.push # x.pop
         /\ \A d \in {x.push, x.pop} : /\ srv[d] = "transfer" /\ pc[d] # "new" /\ ClientInv(d)
                                       /\ ~ Member(d, pushing_nodes) /\ ~ Member(d, poping_nodes)
                                       /\ \A z \in transfers \ {x} : d \notin {z.push, z.pop}
         /\ Talk(x.push, PushMode(x)) /\ Talk(x.pop, PopMode(x))
  <1>0. TypeOK /\ OwnInv /\ ModeInv /\ \A d \in Client : ClientInv(d)
    BY DEF Inv, TalkInv
  <1>1. x \in Transfer /\ x.push \in Client /\ x.pop \in Client
    BY <1>0 DEF TypeOK, Transfer
  <1>2. Attached /\ Pairs(transfers)
    BY <1>0, OwnerParts DEF OwnInv
  <1>3. x.push # x.pop
    BY <1>2 DEF Pairs
  <1>4. ASSUME NEW d \in {x.push, x.pop}
        PROVE  /\ srv[d] = "transfer" /\ pc[d] # "new" /\ ClientInv(d)
               /\ ~ Member(d, pushing_nodes) /\ ~ Member(d, poping_nodes)
               /\ \A z \in transfers \ {x} : d \notin {z.push, z.pop}
    <2>1. d \in Client /\ srv[d] = "transfer"
      BY <1>1, <1>2 DEF Attached
    <2>2. pc[d] # "new"
      BY <1>0, <2>1 DEF OwnInv
    <2>3. ~ Member(d, pushing_nodes) /\ ~ Member(d, poping_nodes)
      BY <1>2, <2>1, WaitsParts DEF Attached
    <2>4. \A z \in transfers \ {x} : d \notin {z.push, z.pop}
      BY <1>2 DEF Pairs
    <2> QED BY <1>0, <2>1, <2>2, <2>3, <2>4
  <1>5. PushMode(x) \in Mode /\ PopMode(x) \in Mode
    BY DEF PushMode, PopMode, Mode
  <1>6. InMode(x.push, PushMode(x)) /\ InMode(x.pop, PopMode(x))
    BY DEF InMode
  <1>7. Talk(x.push, PushMode(x)) /\ Talk(x.pop, PopMode(x))
    BY <1>0, <1>1, <1>5, <1>6 DEF ModeInv
  <1> QED BY <1>1, <1>3, <1>4, <1>7

(* A coroutine goes from one place to the next.                            *)
LEMMA MoveInv ==
  ASSUME Inv, NEW x \in transfers, NEW y \in Transfer, y.push = x.push, y.pop = x.pop, Step(x, y),
         UNCHANGED <<client, srv, datas, accepting>>,
         up' \in [Client -> Seq(Package)], down' \in [Client -> Seq(Package)],
         offered' \in [Client -> PushCall \cup {Nil}],
         \A d \in Client \ {x.push, x.pop} : Same(d), ClientInv(x.push)', ClientInv(x.pop)',
         Talk(x.push, PushMode(y))', Talk(x.pop, PopMode(y))',
         y.at \in Early => x.at \in Early /\ offered'[x.push] = offered[x.push],
         y.at = "write_data" => y.value = offered'[x.push].value
  PROVE  Inv'
  <1>0. TypeOK /\ OwnInv /\ TopicInv
    BY DEF Inv, TalkInv
  <1>1. /\ x.push \in Client /\ x.pop \in Client /\ x.push # x.pop
        /\ \A d \in {x.push, x.pop} : /\ srv[d] = "transfer" /\ pc[d] # "new" /\ ClientInv(d)
                                      /\ ~ Member(d, pushing_nodes) /\ ~ Member(d, poping_nodes)
                                      /\ \A z \in transfers \ {x} : d \notin {z.push, z.pop}
    BY TransferFacts
  <1>2. /\ transfers' = (transfers \ {x}) \cup {y} /\ srv' = srv
        /\ pushing_nodes' = pushing_nodes /\ poping_nodes' = poping_nodes /\ topics' = topics
    BY DEF Step, datas
  <1>3. TypeOK'
    <2>1. transfers' \subseteq Transfer
      BY <1>0, <1>2 DEF TypeOK
    <2> QED BY <1>0, <1>2, <2>1 DEF TypeOK, client
  <1>4. SocketsHaveOneOwner'
    <2>0. Attached /\ Pairs(transfers) /\ Distinct(pushing_nodes) /\ Distinct(poping_nodes)
      BY <1>0, OwnerParts DEF OwnInv
    <2>1. \A d \in Client : srv'[d] = "waiting" <=> Member(d, pushing_nodes') \/ Member(d, poping_nodes')
      BY <1>2, <2>0, WaitsParts DEF Attached
    <2>2. \A d : (\E z \in transfers' : d \in {z.push, z.pop}) <=> \E z \in transfers : d \in {z.push, z.pop}
      BY <1>2
    <2>3. \A d \in Client : srv'[d] = "transfer" <=> \E z \in transfers' : d \in {z.push, z.pop}
      BY <1>2, <2>0, <2>2 DEF Attached
    <2>4. ASSUME NEW a \in transfers', NEW b \in transfers', {a.push, a.pop} \cap {b.push, b.pop} # {} PROVE a = b
      <3>1. PICK d : d \in {a.push, a.pop} /\ d \in {b.push, b.pop}
        BY <2>4
      <3>2. CASE a = y /\ b # y
        BY <1>1, <1>2, <3>1, <3>2
      <3>3. CASE a # y /\ b = y
        BY <1>1, <1>2, <3>1, <3>3
      <3>4. CASE a # y /\ b # y
        BY <1>2, <2>0, <2>4, <3>4 DEF Pairs
      <3> QED BY <3>2, <3>3, <3>4
    <2>5. \A z \in transfers' : z.push # z.pop
      BY <1>1, <1>2, <2>0 DEF Pairs
    <2>6. Pairs(transfers')
      BY <2>4, <2>5 DEF Pairs
    <2>7. \A d : ~ (Member(d, pushing_nodes') /\ Member(d, poping_nodes'))
      BY <1>0, <1>2, ListTypes
    <2> QED BY <1>2, <2>0, <2>1, <2>3, <2>6, <2>7, OwnersAfter
  <1>5. OwnInv'
    BY <1>0, <1>2, <1>4 DEF OwnInv, NeverBothWaiting, client
  <1>6. TopicInv'
    <2>1. \A d \in Client : Request(d)' = Request(d) /\ (gone(d)' <=> gone(d))
      BY DEF Request, gone, client
    <2>2. \A d \in Client \ {x.push, x.pop} : offered'[d] = offered[d]
      BY DEF Same
    <2>3. ASSUME NEW s \in Topic, NEW d \in Client, InList(d, pushing_nodes'[s]) PROVE offered'[d].topic = s
      <3>1. InList(d, pushing_nodes[s]) /\ Member(d, pushing_nodes)
        BY <1>2, <2>3 DEF Member
      <3>2. d \notin {x.push, x.pop}
        BY <1>1, <3>1
      <3> QED BY <1>0, <2>2, <3>1, <3>2 DEF TopicInv
    <2>4. ASSUME NEW s \in Topic, NEW d \in Client, InList(d, poping_nodes'[s]), ~ gone(d)'
          PROVE  Request(d)'.topic = s
      <3>1. InList(d, poping_nodes[s]) /\ ~ gone(d)
        BY <1>2, <2>1, <2>4
      <3> QED BY <1>0, <2>1, <3>1 DEF TopicInv
    <2>5. ASSUME NEW z \in transfers', z.at \in Early
          PROVE  /\ ~ gone(z.pop)' => Request(z.pop)'.topic = offered'[z.push].topic
                 /\ z.at = "write_data" => z.value = offered'[z.push].value
      <3>1. CASE z = y
        BY <1>0, <1>1, <2>1, <2>5, <3>1 DEF TopicInv, Early
      <3>2. CASE z # y
        <4>1. z \in transfers /\ z.push \in Client /\ z.pop \in Client
          BY <1>0, <1>2, <3>2 DEF TypeOK, Transfer
        <4>2. z.push \notin {x.push, x.pop}
          BY <1>1, <1>2, <3>2
        <4>3. offered'[z.push] = offered[z.push]
          BY <2>2, <4>1, <4>2
        <4> QED BY <1>0, <2>1, <2>5, <4>1, <4>3 DEF TopicInv, Early
      <3> QED BY <3>1, <3>2
    <2> QED BY <2>3, <2>4, <2>5 DEF TopicInv, Early
  <1>7. ASSUME NEW d \in Client \ {x.push, x.pop}, NEW m \in Mode, InMode(d, m)' PROVE InMode(d, m)
    BY <1>2, <1>7 DEF InMode
  <1>8. \A m \in Mode : InMode(x.push, m)' => m = PushMode(y)
    BY <1>1, <1>2 DEF InMode, Member
  <1>9. \A m \in Mode : InMode(x.pop, m)' => m = PopMode(y)
    BY <1>1, <1>2 DEF InMode, Member
  <1>10. \A d \in {x.push, x.pop}, m \in Mode : InMode(d, m)' => Talk(d, m)'
    BY <1>8, <1>9
  <1>11. {x.push, x.pop} \in SUBSET Client
    BY <1>1
  <1> QED BY <1>3, <1>5, <1>6, <1>7, <1>10, <1>11, TalkAfter

(* A coroutine ends.                                                       *)
LEMMA EndInv ==
  ASSUME Inv, NEW x \in transfers, transfers' = transfers \ {x}, NEW o \in {"handle", "closed"},
         srv' = [srv EXCEPT ![x.push] = o, ![x.pop] = o],
         UNCHANGED <<client, up, offered, datas, accepting>>,
         down' \in [Client -> Seq(Package)],
         \A d \in Client \ {x.push, x.pop} : Same(d), ClientInv(x.push)', ClientInv(x.pop)',
         o = "handle" => Asks(x.push)' /\ Asks(x.pop)'
  PROVE  Inv'
  <1>0. TypeOK /\ OwnInv /\ TopicInv
    BY DEF Inv, TalkInv
  <1>1. /\ x.push \in Client /\ x.pop \in Client /\ x.push # x.pop
        /\ \A d \in {x.push, x.pop} : /\ srv[d] = "transfer" /\ pc[d] # "new" /\ ClientInv(d)
                                      /\ ~ Member(d, pushing_nodes) /\ ~ Member(d, poping_nodes)
                                      /\ \A z \in transfers \ {x} : d \notin {z.push, z.pop}
    BY TransferFacts
  <1>2. pushing_nodes' = pushing_nodes /\ poping_nodes' = poping_nodes /\ topics' = topics
    BY DEF datas
  <1>3. /\ srv' \in [Client -> SrvAt] /\ srv'[x.push] = o /\ srv'[x.pop] = o
        /\ \A d \in Client \ {x.push, x.pop} : srv'[d] = srv[d]
    <2>1. srv \in [Client -> SrvAt]
      BY <1>0, ListTypes
    <2> QED BY <1>1, <2>1 DEF SrvAt
  <1>4. TypeOK'
    <2>1. transfers' \subseteq Transfer
      BY <1>0 DEF TypeOK
    <2> QED BY <1>0, <1>2, <1>3, <2>1 DEF TypeOK, client, SrvAt
  <1>5. SocketsHaveOneOwner'
    <2>0. Attached /\ Pairs(transfers) /\ Distinct(pushing_nodes) /\ Distinct(poping_nodes)
      BY <1>0, OwnerParts DEF OwnInv
    <2>1. \A d \in Client : srv'[d] = "waiting" <=> Member(d, pushing_nodes') \/ Member(d, poping_nodes')
      BY <1>1, <1>2, <1>3, <2>0, WaitsParts DEF Attached
    <2>2. \A d : (\E z \in transfers' : d \in {z.push, z.pop}) <=>
                     d \notin {x.push, x.pop} /\ \E z \in transfers : d \in {z.push, z.pop}
      BY <1>1
    <2>3. \A d \in Client : srv'[d] = "transfer" <=> \E z \in transfers' : d \in {z.push, z.pop}
      BY <1>3, <2>0, <2>2 DEF Attached
    <2>4. Pairs(transfers')
      BY <2>0 DEF Pairs
    <2>5. \A d : ~ (Member(d, pushing_nodes') /\ Member(d, poping_nodes'))
      BY <1>0, <1>2, ListTypes
    <2> QED BY <1>2, <2>0, <2>1, <2>3, <2>4, <2>5, OwnersAfter
  <1>6. OwnInv'
    <2>1. ASSUME NEW d \in Client, pc'[d] = "new" PROVE srv'[d] = "none"
      <3>1. pc[d] = "new"
        BY <2>1 DEF client
      <3>2. d \notin {x.push, x.pop}
        BY <1>1, <3>1
      <3> QED BY <1>0, <1>3, <3>1, <3>2 DEF OwnInv
    <2> QED BY <1>0, <1>2, <1>5, <2>1 DEF OwnInv, NeverBothWaiting
  <1>7. TopicInv'
    <2>1. \A d \in Client : Request(d)' = Request(d) /\ (gone(d)' <=> gone(d)) /\ offered'[d] = offered[d]
      BY DEF Request, gone, client
    <2>2. ASSUME NEW s \in Topic, NEW d \in Client, InList(d, poping_nodes'[s]), ~ gone(d)'
          PROVE  Request(d)'.topic = s
      <3>1. InList(d, poping_nodes[s]) /\ ~ gone(d)
        BY <1>2, <2>1, <2>2
      <3> QED BY <1>0, <2>1, <3>1 DEF TopicInv
    <2>3. \A s \in Topic, d \in Client : InList(d, pushing_nodes'[s]) => offered'[d].topic = s
      BY <1>0, <1>2, <2>1 DEF TopicInv
    <2>4. ASSUME NEW z \in transfers', z.at \in Early
          PROVE  /\ ~ gone(z.pop)' => Request(z.pop)'.topic = offered'[z.push].topic
                 /\ z.at = "write_data" => z.value = offered'[z.push].value
      <3>1. z \in transfers /\ z.push \in Client /\ z.pop \in Client
        BY <1>0 DEF TypeOK, Transfer
      <3> QED BY <1>0, <2>1, <2>4, <3>1 DEF TopicInv, Early
    <2> QED BY <2>2, <2>3, <2>4 DEF TopicInv, Early
  <1>8. ASSUME NEW d \in Client \ {x.push, x.pop}, NEW m \in Mode, InMode(d, m)' PROVE InMode(d, m)
    BY <1>2, <1>3, <1>8 DEF InMode
  <1>9. ASSUME NEW d \in {x.push, x.pop}, NEW m \in Mode, InMode(d, m)' PROVE m = "asks" /\ o = "handle"
    BY <1>1, <1>2, <1>3, <1>9 DEF InMode, Member
  <1>10. \A d \in {x.push, x.pop}, m \in Mode : InMode(d, m)' => Talk(d, m)'
    BY <1>9 DEF Talk
  <1>11. {x.push, x.pop} \in SUBSET Client
    BY <1>1
  <1> QED BY <1>4, <1>6, <1>7, <1>8, <1>10, <1>11, TalkAfter

LEMMA TransferStartInv ==
  ASSUME Inv, NEW x \in transfers, TransferStart(x), UNCHANGED <<datas, accepting>>
  PROVE  Inv'
  <1>1. PICK y : y = [x EXCEPT !.at = "read"]
    OBVIOUS
  <1>2. /\ x \in Transfer /\ x.push \in Client /\ x.pop \in Client
        /\ ClientInv(x.push) /\ ClientInv(x.pop) /\ Talk(x.push, PushMode(x)) /\ Talk(x.pop, PopMode(x))
    BY TransferFacts
  <1>3. /\ y \in Transfer /\ y.push = x.push /\ y.pop = x.pop /\ y.at = "read" /\ x.at = "start"
        /\ Step(x, y) /\ UNCHANGED <<client, up, down, srv, offered>>
    BY <1>1, <1>2 DEF TransferStart, Transfer
  <1>4. PushMode(y) = PushMode(x) /\ PopMode(y) = PopMode(x)
    BY <1>3 DEF PushMode, PopMode
  <1>5. \A d : Same(d)
    BY <1>3 DEF Same, client
  <1>6. ClientInv(x.push)' /\ ClientInv(x.pop)' /\ Talk(x.push, PushMode(y))' /\ Talk(x.pop, PopMode(y))'
    BY <1>2, <1>4, <1>5, SameTalk
  <1>7. /\ up' \in [Client -> Seq(Package)] /\ down' \in [Client -> Seq(Package)]
        /\ offered' \in [Client -> PushCall \cup {Nil}]
    BY <1>3, Types DEF Inv
  <1>8. y.at \in Early => x.at \in Early /\ offered'[x.push] = offered[x.push]
    BY <1>3 DEF Early
  <1>9. y.at # "write_data"
    BY <1>3
  <1> QED BY <1>3, <1>5, <1>6, <1>7, <1>8, <1>9, MoveInv

LEMMA TransferReadInv ==
  ASSUME Inv, NEW x \in transfers, TransferRead(x), UNCHANGED <<datas, accepting>>
  PROVE  Inv'
  <1>1. PICK y : y = [x EXCEPT !.at = "write_data", !.value = Head(up[x.push]).value]
    OBVIOUS
  <1>2. /\ x \in Transfer /\ x.push \in Client /\ x.pop \in Client /\ x.push # x.pop
        /\ ClientInv(x.push) /\ ClientInv(x.pop) /\ Talk(x.push, PushMode(x)) /\ Talk(x.pop, PopMode(x))
    BY TransferFacts
  <1>3. PICK p \in Client, q \in Client : p = x.push /\ q = x.pop /\ p # q
    BY <1>2
  <1>4. x.at = "read" /\ up[p] # <<>> /\ up' = [up EXCEPT ![p] = Tail(up[p])] /\ UNCHANGED <<client, down, srv, offered>>
    BY <1>3 DEF TransferRead
  <1>5. Pushes(p) /\ Talk(q, "pops") /\ ClientInv(p) /\ ClientInv(q)
    BY <1>2, <1>3, <1>4 DEF PushMode, PopMode, Talk
  <1>6. up[p] = <<Data(offered[p].value)>> /\ offered[p] \in PushCall
    BY <1>4, <1>5 DEF Pushes
  <1>7. Head(up[p]).value = offered[p].value /\ offered[p].value \in Value /\ Tail(up[p]) = <<>>
    BY <1>6, One, Packages
  <1>8. /\ y \in Transfer /\ y.push = p /\ y.pop = q /\ y.at = "write_data" /\ y.value = offered[p].value
        /\ Step(x, y)
    BY <1>1, <1>2, <1>3, <1>7 DEF TransferRead, Transfer
  <1>9. PushMode(y) = "given" /\ PopMode(y) = "pops"
    BY <1>8 DEF PushMode, PopMode
  <1>10. TypeOK
    BY DEF Inv
  <1>11. up' \in [Client -> Seq(Package)] /\ up'[p] = <<>> /\ \A d \in Client \ {p} : up'[d] = up[d]
    BY <1>4, <1>7, <1>10, Types
  <1>12. \A d \in Client \ {p} : Same(d)
    BY <1>4, <1>11 DEF Same, client
  <1>13. /\ pc'[p] = pc[p] /\ todo'[p] = todo[p] /\ val'[p] = val[p] /\ down'[p] = down[p] /\ offered'[p] = offered[p]
         /\ Request(p)' = Request(p) /\ Op(p)' = Op(p) /\ (gone(p)' <=> gone(p))
    BY <1>4 DEF client, Request, Op, gone
  <1>14. ClientInv(p)'
    BY <1>5, <1>13 DEF ClientInv
  <1>15. Given(p)'
    BY <1>4, <1>5, <1>11, <1>13 DEF Given, Pushes
  <1>16. ClientInv(q)' /\ Talk(q, "pops")'
    BY <1>3, <1>5, <1>12, SameTalk
  <1>17. Talk(p, "given")'
    BY <1>15 DEF Talk
  <1>18. y.at \in Early => x.at \in Early /\ offered'[p] = offered[p]
    BY <1>4, <1>13 DEF Early
  <1>19. down' \in [Client -> Seq(Package)] /\ offered' \in [Client -> PushCall \cup {Nil}]
    BY <1>4, <1>10, Types
  <1> QED BY <1>3, <1>4, <1>8, <1>9, <1>11, <1>12, <1>13, <1>14, <1>16, <1>17, <1>18, <1>19, MoveInv

LEMMA TransferWriteInv ==
  ASSUME Inv, NEW x \in transfers, TransferWrite(x), UNCHANGED <<datas, accepting>>
  PROVE  Inv'
  <1>1. PICK y : y = [x EXCEPT !.at = "respond_push"]
    OBVIOUS
  <1>2. /\ x \in Transfer /\ x.push \in Client /\ x.pop \in Client /\ x.push # x.pop
        /\ ClientInv(x.push) /\ ClientInv(x.pop) /\ Talk(x.push, PushMode(x)) /\ Talk(x.pop, PopMode(x))
    BY TransferFacts
  <1>3. PICK p \in Client, q \in Client, v \in {x.value} : p = x.push /\ q = x.pop /\ p # q /\ v = x.value
    BY <1>2
  <1>4. /\ x.at = "write_data" /\ Write(q, Data(v)) /\ offered' = [offered EXCEPT ![p] = Nil]
        /\ UNCHANGED <<client, up, srv>>
    BY <1>3 DEF TransferWrite, Data
  <1>5. Given(p) /\ Pops(q) /\ ClientInv(p) /\ ClientInv(q)
    BY <1>2, <1>3, <1>4 DEF PushMode, PopMode, Talk
  <1>6. /\ y \in Transfer /\ y.push = p /\ y.pop = q /\ y.at = "respond_push" /\ Step(x, y)
    BY <1>1, <1>2, <1>3 DEF TransferWrite, Transfer
  <1>7. PushMode(y) = "taken" /\ PopMode(y) = "popped"
    BY <1>6 DEF PushMode, PopMode
  <1>8. TypeOK
    BY DEF Inv
  <1>9. v = offered[p].value /\ offered[p] \in PushCall /\ v \in Value /\ offered[p].op = "push"
    <2>1. v = offered[p].value
      BY <1>3, <1>4 DEF Inv, TalkInv, TopicInv
    <2> QED BY <1>5, <2>1, Packages DEF Given
  <1>10. /\ offered' \in [Client -> PushCall \cup {Nil}] /\ offered'[p] = Nil
         /\ \A d \in Client \ {p} : offered'[d] = offered[d]
    BY <1>4, <1>8, Types
  <1>11. /\ down' \in [Client -> Seq(Package)] /\ \A d \in Client \ {q} : down'[d] = down[d]
         /\ gone(q) => down'[q] = down[q]
         /\ ~ gone(q) => down'[q] = Append(down[q], Data(v))
    BY <1>4, <1>8, <1>9, WriteFacts, Packages
  <1>12. \A d \in Client \ {p, q} : Same(d)
    BY <1>4, <1>10, <1>11 DEF Same, client
  <1>13. \A d \in {p, q} : /\ pc'[d] = pc[d] /\ todo'[d] = todo[d] /\ val'[d] = val[d] /\ up'[d] = up[d]
                           /\ Request(d)' = Request(d) /\ Op(d)' = Op(d) /\ (gone(d)' <=> gone(d))
    BY <1>4 DEF client, Request, Op, gone
  <1>14. down'[p] = down[p] /\ offered'[q] = offered[q]
    BY <1>3, <1>10, <1>11
  <1>15. ClientInv(p)'
    BY <1>5, <1>10, <1>13, <1>14 DEF ClientInv
  <1>16. Taken(p)'
    BY <1>5, <1>9, <1>10, <1>13, <1>14 DEF Taken, Given, Op
  <1>17. CASE gone(q)
    <2>1. Same(q)
      BY <1>11, <1>13, <1>14, <1>17 DEF Same
    <2>2. ClientInv(q)'
      BY <1>5, <2>1, SameTalk
    <2>3. Popped(q)'
      BY <1>5, <1>13, <1>17 DEF Popped, Pops
    <2>4. Talk(p, "taken")' /\ Talk(q, "popped")'
      BY <1>16, <2>3 DEF Talk
    <2>5. y.at \notin Early /\ y.at # "write_data"
      BY <1>6 DEF Early
    <2>6. up' \in [Client -> Seq(Package)]
      BY <1>4, <1>8, Types
    <2> QED BY <1>3, <1>4, <1>6, <1>7, <1>10, <1>11, <1>12, <1>15, <2>2, <2>4, <2>5, <2>6, MoveInv
  <1>18. CASE ~ gone(q)
    <2>1. pc[q] = "pop_data" /\ down'[q] = <<Data(v)>> /\ Len(down'[q]) = 1
      BY <1>5, <1>11, <1>18, One DEF Pops
    <2>2. ClientInv(q)'
      BY <1>5, <1>9, <1>13, <2>1 DEF ClientInv, Inside
    <2>3. Popped(q)'
      BY <1>5, <1>13, <2>1 DEF Popped, Pops
    <2>4. Talk(p, "taken")' /\ Talk(q, "popped")'
      BY <1>16, <2>3 DEF Talk
    <2>5. y.at \notin Early /\ y.at # "write_data"
      BY <1>6 DEF Early
    <2>6. up' \in [Client -> Seq(Package)]
      BY <1>4, <1>8, Types
    <2> QED BY <1>3, <1>4, <1>6, <1>7, <1>10, <1>11, <1>12, <1>15, <2>2, <2>4, <2>5, <2>6, MoveInv
  <1> QED BY <1>17, <1>18

LEMMA TransferRespondPushInv ==
  ASSUME Inv, NEW x \in transfers, TransferRespondPush(x), UNCHANGED <<datas, accepting>>
  PROVE  Inv'
  <1>1. PICK y : y = [x EXCEPT !.at = "respond_pop"]
    OBVIOUS
  <1>2. /\ x \in Transfer /\ x.push \in Client /\ x.pop \in Client /\ x.push # x.pop
        /\ ClientInv(x.push) /\ ClientInv(x.pop) /\ Talk(x.push, PushMode(x)) /\ Talk(x.pop, PopMode(x))
    BY TransferFacts
  <1>3. PICK p \in Client, q \in Client : p = x.push /\ q = x.pop /\ p # q
    BY <1>2
  <1>4. /\ x.at = "respond_push" /\ Write(p, Response) /\ UNCHANGED <<client, up, srv, offered>>
    BY <1>3 DEF TransferRespondPush
  <1>5. Taken(p) /\ Talk(q, "popped") /\ ClientInv(p) /\ ClientInv(q)
    BY <1>2, <1>3, <1>4 DEF PushMode, PopMode, Talk
  <1>6. y \in Transfer /\ y.push = p /\ y.pop = q /\ y.at = "respond_pop" /\ Step(x, y)
    BY <1>1, <1>2, <1>3 DEF TransferRespondPush, Transfer
  <1>7. PushMode(y) = "asks" /\ PopMode(y) = "popped"
    BY <1>6 DEF PushMode, PopMode
  <1>8. TypeOK
    BY DEF Inv
  <1>9. /\ down' \in [Client -> Seq(Package)] /\ \A d \in Client \ {p} : down'[d] = down[d]
        /\ gone(p) => down'[p] = down[p]
        /\ ~ gone(p) => down'[p] = Append(down[p], Response)
    BY <1>4, <1>8, WriteFacts, Packages
  <1>10. \A d \in Client \ {p} : Same(d)
    BY <1>4, <1>9 DEF Same, client
  <1>11. /\ pc'[p] = pc[p] /\ todo'[p] = todo[p] /\ val'[p] = val[p] /\ up'[p] = up[p] /\ offered'[p] = offered[p]
         /\ Request(p)' = Request(p) /\ Op(p)' = Op(p) /\ (gone(p)' <=> gone(p))
    BY <1>4 DEF client, Request, Op, gone
  <1>12. ~ gone(p) => pc[p] = "response" /\ down'[p] = <<Response>> /\ Op(p) = "push"
    BY <1>5, <1>9, One DEF Taken
  <1>13. ClientInv(p)'
    <2>1. CASE gone(p)
      <3>1. Same(p)
        BY <1>9, <1>11, <2>1 DEF Same
      <3> QED BY <1>5, <3>1, SameTalk
    <2>2. CASE ~ gone(p)
      BY <1>5, <1>11, <1>12, <2>2 DEF ClientInv, Inside, Taken
    <2> QED BY <2>1, <2>2
  <1>14. Asks(p)'
    <2>1. up'[p] = <<>>
      BY <1>5, <1>11 DEF Taken
    <2>2. CASE gone(p)
      BY <1>11, <2>1, <2>2 DEF Asks, AsksUp, gone
    <2>3. CASE ~ gone(p)
      BY <1>11, <1>12, <2>1, <2>3 DEF Asks, AsksUp
    <2> QED BY <2>2, <2>3
  <1>15. ClientInv(q)' /\ Talk(q, "popped")' /\ Talk(p, "asks")'
    <2>1. ClientInv(q)' /\ Talk(q, "popped")'
      BY <1>3, <1>5, <1>10, SameTalk
    <2> QED BY <1>14, <2>1 DEF Talk
  <1>16. y.at \notin Early /\ y.at # "write_data"
    BY <1>6 DEF Early
  <1>17. up' \in [Client -> Seq(Package)] /\ offered' \in [Client -> PushCall \cup {Nil}]
    BY <1>4, <1>8, Types
  <1> QED BY <1>3, <1>4, <1>6, <1>7, <1>9, <1>10, <1>13, <1>15, <1>16, <1>17, MoveInv

LEMMA TransferRespondPopInv ==
  ASSUME Inv, NEW x \in transfers, TransferRespondPop(x), UNCHANGED <<datas, accepting>>
  PROVE  Inv'
  <1>2. /\ x \in Transfer /\ x.push \in Client /\ x.pop \in Client /\ x.push # x.pop
        /\ ClientInv(x.push) /\ ClientInv(x.pop) /\ Talk(x.push, PushMode(x)) /\ Talk(x.pop, PopMode(x))
    BY TransferFacts
  <1>3. PICK p \in Client, q \in Client : p = x.push /\ q = x.pop /\ p # q
    BY <1>2
  <1>4. /\ x.at = "respond_pop" /\ Write(q, Response) /\ UNCHANGED <<client, up, offered>>
        /\ transfers' = transfers \ {x} /\ srv' = [srv EXCEPT ![p] = "handle", ![q] = "handle"]
    BY <1>3 DEF TransferRespondPop
  <1>5. Talk(p, "asks") /\ Popped(q) /\ ClientInv(p) /\ ClientInv(q)
    BY <1>2, <1>3, <1>4 DEF PushMode, PopMode, Talk
  <1>8. TypeOK
    BY DEF Inv
  <1>9. /\ down' \in [Client -> Seq(Package)] /\ \A d \in Client \ {q} : down'[d] = down[d]
        /\ gone(q) => down'[q] = down[q]
        /\ ~ gone(q) => down'[q] = Append(down[q], Response)
    BY <1>4, <1>8, WriteFacts, Packages
  <1>10. \A d \in Client \ {q} : Same(d)
    BY <1>4, <1>9 DEF Same, client
  <1>11. /\ pc'[q] = pc[q] /\ todo'[q] = todo[q] /\ val'[q] = val[q] /\ up'[q] = up[q] /\ offered'[q] = offered[q]
         /\ Request(q)' = Request(q) /\ Op(q)' = Op(q) /\ (gone(q)' <=> gone(q))
    BY <1>4 DEF client, Request, Op, gone
  <1>12. up'[q] = <<>>
    BY <1>5, <1>11 DEF Popped
  <1>13. ClientInv(q)' /\ Asks(q)'
    <2>1. CASE gone(q)
      <3>1. Same(q)
        BY <1>9, <1>11, <2>1 DEF Same
      <3>2. ClientInv(q)'
        BY <1>5, <3>1, SameTalk
      <3>3. Asks(q)'
        BY <1>11, <1>12, <2>1 DEF Asks, AsksUp, gone
      <3> QED BY <3>2, <3>3
    <2>2. CASE ~ gone(q) /\ pc[q] = "pop_data" /\ Len(down[q]) = 1
      <3>1. PICK v \in Value : down[q] = <<Data(v)>>
        <4>1. \A v : Len(<<Data(v), Response>>) = 2
          BY Two
        <4>2. Len(<<>>) = 0
          OBVIOUS
        <4> QED BY <1>5, <2>2, <4>1, <4>2 DEF ClientInv
      <3>2. down'[q] = <<Data(v), Response>> /\ Len(down'[q]) = 2 /\ down'[q] # <<>>
        <4>1. down'[q] = Append(<<Data(v)>>, Response)
          BY <1>9, <2>2, <3>1
        <4>2. /\ Append(<<Data(v)>>, Response) = <<Data(v), Response>>
              /\ Len(<<Data(v), Response>>) = 2 /\ <<Data(v), Response>> # <<>>
          BY Two, Zenon
        <4> QED BY <4>1, <4>2, Zenon
      <3>3. ClientInv(q)'
        <4>1. \E w \in Value : down'[q] \in {<<Data(w)>>, <<Data(w), Response>>}
          BY <3>2
        <4>2. pc'[q] = "pop_data"
          BY <1>11, <2>2
        <4> QED BY <1>5, <1>11, <4>1, <4>2 DEF ClientInv
      <3>4. Asks(q)'
        BY <1>11, <1>12, <2>2, <3>2 DEF Asks, AsksUp
      <3> QED BY <3>3, <3>4
    <2>3. CASE ~ gone(q) /\ pc[q] = "response" /\ down[q] = <<>> /\ Op(q) = "pop"
      <3>1. down'[q] = <<Response>>
        BY <1>9, <2>3, One
      <3>2. ClientInv(q)'
        BY <1>5, <1>11, <2>3, <3>1 DEF ClientInv, Inside
      <3>3. Asks(q)'
        BY <1>11, <1>12, <2>3, <3>1 DEF Asks, AsksUp
      <3> QED BY <3>2, <3>3
    <2> QED BY <1>5, <2>1, <2>2, <2>3 DEF Popped
  <1>14. ClientInv(p)' /\ Asks(p)'
    <2>1. ClientInv(p)' /\ Talk(p, "asks")'
      BY <1>3, <1>5, <1>10, SameTalk
    <2> QED BY <2>1 DEF Talk
  <1> QED BY <1>3, <1>4, <1>9, <1>10, <1>13, <1>14, EndInv

LEMMA TransferThrowsInv ==
  ASSUME Inv, NEW x \in transfers, TransferThrows(x), UNCHANGED <<datas, accepting>>
  PROVE  Inv'
  <1>1. x.push \in Client /\ x.pop \in Client /\ ClientInv(x.push) /\ ClientInv(x.pop)
    BY TransferFacts
  <1>2. /\ UNCHANGED <<client, up, down, offered>> /\ transfers' = transfers \ {x}
        /\ srv' = [srv EXCEPT ![x.push] = "closed", ![x.pop] = "closed"]
    BY DEF TransferThrows
  <1>3. \A d : Same(d)
    BY <1>2 DEF Same, client
  <1>4. ClientInv(x.push)' /\ ClientInv(x.pop)'
    BY <1>1, <1>3, SameTalk
  <1>5. down' \in [Client -> Seq(Package)]
    BY <1>2, Types DEF Inv
  <1> QED BY <1>2, <1>3, <1>4, <1>5, EndInv

LEMMA StopInv ==
  ASSUME Inv, Stop
  PROVE  Inv'
  <1>0. TypeOK /\ OwnInv
    BY DEF Inv
  <1>1. /\ accepting' = FALSE /\ topics' = {} /\ transfers' = {} /\ UNCHANGED <<client, up, down, offered>>
        /\ pushing_nodes' = [t \in Topic |-> <<>>] /\ poping_nodes' = [t \in Topic |-> <<>>]
    BY DEF Stop
  <1>2. /\ srv' \in [Client -> SrvAt]
        /\ \A c \in Client : (srv[c] = "none" /\ srv'[c] = "none") \/ srv'[c] = "closed"
        /\ \A c \in Client : srv[c] = "none" => srv'[c] = "none"
    BY DEF Stop, SrvAt
  <1>3. \A t \in Topic : /\ pushing_nodes'[t] = <<>> /\ poping_nodes'[t] = <<>>
                         /\ DOMAIN pushing_nodes'[t] = {} /\ DOMAIN poping_nodes'[t] = {}
    BY <1>1
  <1>4. pushing_nodes' \in Lists /\ poping_nodes' \in Lists
    <2>1. <<>> \in Seq(Client)
      OBVIOUS
    <2> QED BY <1>1, <2>1 DEF Lists
  <1>5. TypeOK'
    BY <1>0, <1>1, <1>2, <1>3, <1>4 DEF TypeOK, Lists, SrvAt, client
  <1>6. \A d : ~ Member(d, pushing_nodes') /\ ~ Member(d, poping_nodes')
    BY <1>3 DEF Member, InList
  <1>7. SocketsHaveOneOwner'
    <2>1. Distinct(pushing_nodes') /\ Distinct(poping_nodes') /\ Pairs(transfers')
      BY <1>1, <1>3 DEF Distinct, Pairs
    <2>2. \A d \in Client : srv'[d] # "waiting" /\ srv'[d] # "transfer"
      BY <1>2
    <2> QED BY <1>1, <1>6, <2>1, <2>2, OwnersAfter
  <1>8. OwnInv'
    <2>1. \A d \in Client : pc'[d] = "new" => srv'[d] = "none"
      BY <1>0, <1>1, <1>2 DEF OwnInv, client
    <2> QED BY <1>3, <1>7, <2>1 DEF OwnInv, NeverBothWaiting
  <1>9. TopicInv'
    BY <1>1, <1>3 DEF TopicInv, InList
  <1>10. \A d : Same(d)
    BY <1>1 DEF Same, client
  <1>11. \A d \in Client, m \in Mode : InMode(d, m)' => InMode(d, m)
    BY <1>1, <1>2, <1>6 DEF InMode, Member
  <1>12. {} \in SUBSET Client
    OBVIOUS
  <1> QED BY <1>5, <1>8, <1>9, <1>10, <1>11, <1>12, TalkAfter

-----------------------------------------------------------------------------
(* The theorems.                                                           *)

LEMMA NextInv ==
  ASSUME Inv, [Next]_vars
  PROVE  Inv'
  <1>1. CASE UNCHANGED vars
    <2>1. /\ UNCHANGED <<client, up, down, offered>> /\ UNCHANGED <<datas, transfers>>
          /\ srv' = srv /\ accepting' = accepting
      BY <1>1 DEF vars
    <2>2. srv' \in [Client -> SrvAt] /\ accepting' \in BOOLEAN
      BY <2>1 DEF Inv, TypeOK, SrvAt
    <2> QED BY <2>1, <2>2, LooseStep
  <1>2. ASSUME NEW c \in Client, ClientStep(c) PROVE Inv'
    BY <1>2, ConnectInv, WriteRequestInv, WriteDataInv, ReadDataInv, ReadResponseInv, CallThrowsInv
       DEF ClientStep
  <1>3. ASSUME NEW c \in Client, ConnectionStep(c) PROVE Inv'
    BY <1>3, AcceptInv, HandleInv, ReplyInv DEF ConnectionStep
  <1>4. ASSUME NEW x \in transfers, transfer_data(x) PROVE Inv'
    BY <1>4, TransferStartInv, TransferReadInv, TransferWriteInv, TransferRespondPushInv,
       TransferRespondPopInv, TransferThrowsInv DEF transfer_data
  <1> QED BY <1>1, <1>2, <1>3, <1>4, LeaveInv, StopInv DEF Next

(* Inv is an invariant of the switcher and its clients.                    *)
THEOREM Invariant == Spec => []Inv
  BY InitInv, NextInv, PTL DEF Spec

(* Every variable of the server and of the clients keeps its type; a list  *)
(* of datas_ holds sockets only while its topic is a key.                  *)
THEOREM TypeCorrect == Spec => []TypeOK
  <1>1. Inv => TypeOK
    BY DEF Inv
  <1> QED BY <1>1, Invariant, PTL

(* handle, the lists of datas_ and transfer_data never have one socket     *)
(* twice, and lose none: std::move is the only thing that passes it on.    *)
THEOREM OneOwner == Spec => []SocketsHaveOneOwner
  <1>1. Inv => SocketsHaveOneOwner
    BY DEF Inv, OwnInv
  <1> QED BY <1>1, Invariant, PTL

(* A push request and a pop request of one topic never both wait.          *)
THEOREM NeverBoth == Spec => []NeverBothWaiting
  <1>1. Inv => NeverBothWaiting
    BY DEF Inv, OwnInv
  <1> QED BY <1>1, Invariant, PTL

LEMMA InvAligned == Inv => StreamsAligned
  <1> SUFFICES ASSUME Inv PROVE StreamsAligned
    OBVIOUS
  <1>0. (\A c \in Client : ClientInv(c)) /\ ModeInv
    BY DEF Inv, TalkInv
  <1>1. ASSUME NEW c \in Client, srv[c] = "handle", up[c] # <<>> PROVE Head(up[c]).type = "request"
    <2>1. InMode(c, "asks")
      BY <1>1 DEF InMode
    <2>2. AsksUp(c)
      BY <1>0, <2>1 DEF ModeInv, Mode, Talk, Asks
    <2>3. ASSUME NEW k \in Call, up[c] = <<Req(k)>> PROVE Head(up[c]).type = "request"
      BY <2>3, One, Packages
    <2>4. ASSUME NEW k \in PushCall, up[c] = <<Req(k), Data(k.value)>> PROVE Head(up[c]).type = "request"
      BY <2>4, Two, Packages
    <2> QED BY <1>1, <2>2, <2>3, <2>4 DEF AsksUp
  <1>2. ASSUME NEW c \in Client, pc[c] = "pop_data", down[c] # <<>> PROVE Head(down[c]).type = "data"
    <2>1. PICK v \in Value : down[c] \in {<<Data(v)>>, <<Data(v), Response>>}
      BY <1>0, <1>2 DEF ClientInv
    <2>2. Head(down[c]) = Data(v)
      BY <2>1, One, Two
    <2> QED BY <2>2, Packages
  <1>3. ASSUME NEW c \in Client, pc[c] = "response", down[c] # <<>> PROVE Head(down[c]).type = "response"
    <2>1. down[c] = <<Response>>
      BY <1>0, <1>3 DEF ClientInv
    <2> QED BY <2>1, One, Packages
  <1>4. ASSUME NEW x \in transfers, x.at = "read", up[x.push] # <<>> PROVE Head(up[x.push]).type = "data"
    <2>1. Talk(x.push, PushMode(x))
      BY TransferFacts
    <2>2. Pushes(x.push)
      BY <1>4, <2>1 DEF Talk, PushMode
    <2>3. up[x.push] = <<Data(offered[x.push].value)>> /\ offered[x.push].value \in Value
      BY <1>4, <2>2, Packages DEF Pushes
    <2> QED BY <2>3, One, Packages
  <1> QED BY <1>1, <1>2, <1>3, <1>4 DEF StreamsAligned

(* read_package never meets a package of another type than the one its     *)
(* caller parses, whoever leaves or throws in the middle of an exchange.   *)
THEOREM Aligned == Spec => []StreamsAligned
  BY InvAligned, Invariant, PTL

-----------------------------------------------------------------------------
(* The switcher implements Rendezvous.                                     *)

HasOf(c) == IF pc[c] = "pop_data" /\ down[c] # <<>> THEN Head(down[c]).value ELSE val[c]
InCall == {c \in Client : pc[c] \in Inside}
Has == [c \in Client |-> HasOf(c)]

LEMMA InitRefines == Init => Meeting!Init
  <1> SUFFICES ASSUME Init PROVE Meeting!Init
    OBVIOUS
  <1>1. InCall = {} /\ Has = [c \in Client |-> Nil]
    BY DEF Init, InCall, Has, HasOf, Inside
  <1> QED BY <1>1 DEF Init, Meeting!Init, InCall, Has, HasOf

LEMMA Stutters ==
  ASSUME todo' = todo, offered' = offered,
         \A c \in Client : (pc'[c] \in Inside <=> pc[c] \in Inside) /\ HasOf(c)' = HasOf(c)
  PROVE  UNCHANGED Meeting!vars
  <1>1. InCall' = InCall
    BY DEF InCall
  <1>2. Has' = Has
    BY DEF Has
  <1> QED BY <1>1, <1>2 DEF Meeting!vars, InCall, Has, HasOf

(* Steps in which nothing of a client moves but the bytes it has sent.     *)
LEMMA ServerStutters ==
  ASSUME UNCHANGED <<client, down, offered>>
  PROVE  UNCHANGED Meeting!vars
  <1>1. todo' = todo /\ offered' = offered /\ pc' = pc /\ val' = val /\ down' = down
    BY DEF client
  <1>2. \A c : HasOf(c)' = HasOf(c)
    BY <1>1 DEF HasOf
  <1> QED BY <1>1, <1>2, Stutters

(* A client that is in a call, has returned or has ended.                  *)
LEMMA HasAfter ==
  ASSUME NEW c \in Client, NEW v, HasOf(c)' = v, \A d \in Client \ {c} : HasOf(d)' = HasOf(d)
  PROVE  Has' = [Has EXCEPT ![c] = v]
  BY DEF Has

LEMMA WriteRequestRefines ==
  ASSUME Inv, NEW c \in Client, WriteRequest(c)
  PROVE  Meeting!Begin(c)
  <1>0. TypeOK /\ ClientInv(c)
    BY DEF Inv, TalkInv
  <1>1. /\ pc[c] = "idle" /\ todo[c] # <<>> /\ UNCHANGED <<todo, val, down>>
        /\ offered' = IF Head(todo[c]).op = "push" THEN [offered EXCEPT ![c] = Head(todo[c])] ELSE offered
    BY DEF WriteRequest, Request
  <1>2. pc'[c] \in Inside /\ \A d \in Client \ {c} : pc'[d] = pc[d]
    BY <1>0, Types DEF WriteRequest, Goto, Inside
  <1>3. InCall' = InCall \cup {c} /\ c \notin InCall
    BY <1>1, <1>2 DEF InCall, Inside
  <1>4. down[c] = <<>>
    BY <1>0, <1>1 DEF ClientInv
  <1>5. \A d \in Client : HasOf(d)' = HasOf(d)
    BY <1>1, <1>2, <1>4 DEF HasOf
  <1>6. Has' = Has
    BY <1>5 DEF Has
  <1> QED BY <1>1, <1>3, <1>6 DEF Meeting!Begin, InCall, Has, HasOf

LEMMA ReadResponseRefines ==
  ASSUME Inv, NEW c \in Client, ReadResponse(c)
  PROVE  Meeting!Return(c)
  <1>0. TypeOK /\ ClientInv(c)
    BY DEF Inv, TalkInv
  <1>1. /\ pc[c] = "response" /\ down[c] # <<>> /\ down' = [down EXCEPT ![c] = Tail(@)]
        /\ todo' = [todo EXCEPT ![c] = Tail(@)] /\ val' = [val EXCEPT ![c] = Nil]
        /\ pc' = [pc EXCEPT ![c] = "idle"] /\ offered' = offered
    BY DEF ReadResponse, Goto
  <1>2. /\ pc'[c] = "idle" /\ val'[c] = Nil
        /\ \A d \in Client \ {c} : pc'[d] = pc[d] /\ val'[d] = val[d] /\ down'[d] = down[d]
    BY <1>0, <1>1, Types
  <1>3. InCall' = InCall \ {c} /\ c \in InCall
    BY <1>1, <1>2 DEF InCall, Inside
  <1>4. HasOf(c)' = Nil /\ \A d \in Client \ {c} : HasOf(d)' = HasOf(d)
    BY <1>2 DEF HasOf
  <1>5. Has' = [Has EXCEPT ![c] = Nil]
    BY <1>4, HasAfter
  <1>6. Has[c] = val[c]
    BY <1>1 DEF Has, HasOf
  <1>7. (Head(todo[c]).op = "push" => offered[c] = Nil) /\ (Head(todo[c]).op = "pop" => Has[c] # Nil)
    BY <1>0, <1>1, <1>6 DEF ClientInv, Op, Request
  <1> QED BY <1>1, <1>3, <1>5, <1>7 DEF Meeting!Return, InCall, Has, HasOf

LEMMA EndRefines ==
  ASSUME TypeOK, NEW c \in Client, Ended(c), offered' = offered
  PROVE  Meeting!End(c)
  <1>1. /\ pc'[c] = "ended" /\ val'[c] = Nil
        /\ \A d \in Client \ {c} : pc'[d] = pc[d] /\ val'[d] = val[d] /\ down'[d] = down[d]
    BY EndedTypes
  <1>2. todo' = [todo EXCEPT ![c] = <<>>]
    BY DEF Ended
  <1>3. InCall' = InCall \ {c}
    BY <1>1 DEF InCall, Inside
  <1>4. HasOf(c)' = Nil /\ \A d \in Client \ {c} : HasOf(d)' = HasOf(d)
    BY <1>1 DEF HasOf
  <1>5. Has' = [Has EXCEPT ![c] = Nil]
    BY <1>4, HasAfter
  <1> QED BY <1>2, <1>3, <1>5 DEF Meeting!End, InCall, Has, HasOf

LEMMA ClientRefines ==
  ASSUME Inv, NEW c \in Client, ClientStep(c) \/ Leave(c)
  PROVE  Meeting!Begin(c) \/ Meeting!Return(c) \/ Meeting!End(c) \/ UNCHANGED Meeting!vars
  <1>0. TypeOK /\ ClientInv(c)
    BY DEF Inv, TalkInv
  <1>1. CASE Ended(c) /\ offered' = offered
    BY <1>0, <1>1, EndRefines
  <1>2. CASE WriteRequest(c)
    BY <1>2, WriteRequestRefines
  <1>3. CASE ReadResponse(c)
    BY <1>3, ReadResponseRefines
  <1>4. CASE Connect(c) /\ accepting
    <2>1. pc[c] = "new" /\ pc' = [pc EXCEPT ![c] = "idle"] /\ UNCHANGED <<todo, val, down, offered>>
      BY <1>4 DEF Connect, Goto
    <2>2. pc'[c] = "idle" /\ \A d \in Client \ {c} : pc'[d] = pc[d]
      BY <1>0, <2>1, Types
    <2>3. \A d \in Client : (pc'[d] \in Inside <=> pc[d] \in Inside) /\ HasOf(d)' = HasOf(d)
      BY <2>1, <2>2 DEF HasOf, Inside
    <2> QED BY <2>1, <2>3, Stutters
  <1>5. CASE WriteData(c)
    <2>1. pc[c] = "push_data" /\ pc' = [pc EXCEPT ![c] = "response"] /\ UNCHANGED <<todo, val, down, offered>>
      BY <1>5 DEF WriteData, Goto
    <2>2. pc'[c] = "response" /\ \A d \in Client \ {c} : pc'[d] = pc[d]
      BY <1>0, <2>1, Types
    <2>3. \A d \in Client : (pc'[d] \in Inside <=> pc[d] \in Inside) /\ HasOf(d)' = HasOf(d)
      BY <2>1, <2>2 DEF HasOf, Inside
    <2> QED BY <2>1, <2>3, Stutters
  <1>6. CASE ReadData(c)
    <2>1. /\ pc[c] = "pop_data" /\ pc' = [pc EXCEPT ![c] = "response"] /\ UNCHANGED <<todo, offered>>
          /\ val' = [val EXCEPT ![c] = Head(down[c]).value] /\ down[c] # <<>>
          /\ down' = [down EXCEPT ![c] = Tail(@)]
      BY <1>6 DEF ReadData, Goto
    <2>2. /\ pc'[c] = "response" /\ val'[c] = Head(down[c]).value
          /\ \A d \in Client \ {c} : pc'[d] = pc[d] /\ val'[d] = val[d] /\ down'[d] = down[d]
      BY <1>0, <2>1, Types
    <2>3. \A d \in Client : (pc'[d] \in Inside <=> pc[d] \in Inside) /\ HasOf(d)' = HasOf(d)
      BY <2>1, <2>2 DEF HasOf, Inside
    <2> QED BY <2>1, <2>3, Stutters
  <1> QED BY <1>1, <1>2, <1>3, <1>4, <1>5, <1>6 DEF ClientStep, Leave, CallThrows, Connect

(* A response does not change what the Pop was given.                      *)
LEMMA ResponseStutters ==
  ASSUME TypeOK, NEW c \in Client, Write(c, Response), UNCHANGED <<client, offered>>,
         ~ gone(c) /\ pc[c] = "pop_data" => down[c] # <<>>
  PROVE  UNCHANGED Meeting!vars
  <1>1. /\ \A d \in Client \ {c} : down'[d] = down[d]
        /\ gone(c) => down'[c] = down[c]
        /\ ~ gone(c) => down'[c] = Append(down[c], Response)
    BY WriteFacts, Packages
  <1>2. todo' = todo /\ offered' = offered /\ pc' = pc /\ val' = val
    BY DEF client
  <1>3. HasOf(c)' = HasOf(c)
    <2>1. CASE gone(c) \/ pc[c] # "pop_data"
      BY <1>1, <1>2, <2>1 DEF HasOf, gone
    <2>2. CASE ~ gone(c) /\ pc[c] = "pop_data"
      <3>1. down[c] \in Seq(Package) /\ down[c] # <<>>
        BY <2>2, Types
      <3>2. down'[c] # <<>> /\ Head(down'[c]) = Head(down[c])
        BY <1>1, <2>2, <3>1, Packages
      <3> QED BY <1>2, <3>1, <3>2 DEF HasOf
    <2> QED BY <2>1, <2>2
  <1>4. \A d \in Client \ {c} : HasOf(d)' = HasOf(d)
    BY <1>1, <1>2 DEF HasOf
  <1> QED BY <1>2, <1>3, <1>4, Stutters

LEMMA ConnectionRefines ==
  ASSUME Inv, NEW c \in Client, ConnectionStep(c)
  PROVE  UNCHANGED Meeting!vars
  <1>1. CASE UNCHANGED <<client, down, offered>>
    BY <1>1, ServerStutters
  <1>2. CASE Reply(c) /\ Write(c, Response)
    <2>1. UNCHANGED <<client, offered>> /\ srv[c] = "reply" /\ TypeOK
      BY <1>2 DEF Reply, Inv
    <2>2. InMode(c, "replies")
      BY <2>1 DEF InMode
    <2>3. Replies(c)
      BY <2>2 DEF Inv, TalkInv, ModeInv, Mode, Talk
    <2>4. ~ gone(c) => pc[c] # "pop_data"
      BY <2>3 DEF Replies
    <2> QED BY <1>2, <2>1, <2>4, ResponseStutters
  <1> QED BY <1>1, <1>2 DEF ConnectionStep, Accept, Handle, Reply

LEMMA TransferWriteRefines ==
  ASSUME Inv, NEW x \in transfers, TransferWrite(x)
  PROVE  Meeting!Lose(x.push) \/ Meeting!Hand(x.push, x.pop)
  <1>1. /\ x.push \in Client /\ x.pop \in Client /\ x.push # x.pop
        /\ ClientInv(x.push) /\ ClientInv(x.pop) /\ Talk(x.push, PushMode(x)) /\ Talk(x.pop, PopMode(x))
    BY TransferFacts
  <1>2. PICK p \in Client, q \in Client, v \in {x.value} : p = x.push /\ q = x.pop /\ p # q /\ v = x.value
    BY <1>1
  <1>3. /\ x.at = "write_data" /\ Write(q, Data(v)) /\ offered' = [offered EXCEPT ![p] = Nil]
        /\ UNCHANGED client
    BY <1>2 DEF TransferWrite, Data
  <1>4. Given(p) /\ Pops(q) /\ ClientInv(q) /\ TypeOK
    BY <1>1, <1>2, <1>3 DEF PushMode, PopMode, Talk, Inv
  <1>5. /\ offered[p] \in PushCall /\ offered[p] # Nil /\ offered[p].value \in Value /\ v = offered[p].value
        /\ ~ gone(q) => Request(q).topic = offered[p].topic
    <2>1. v = offered[p].value /\ (~ gone(q) => Request(q).topic = offered[p].topic)
      BY <1>2, <1>3 DEF Inv, TalkInv, TopicInv
    <2> QED BY <1>4, <2>1, Packages, NilIsNoCall DEF Given
  <1>6. todo' = todo /\ pc' = pc /\ val' = val /\ InCall' = InCall
    BY <1>3 DEF client, InCall
  <1>7. /\ \A d \in Client \ {q} : down'[d] = down[d]
        /\ gone(q) => down'[q] = down[q]
        /\ ~ gone(q) => down'[q] = Append(down[q], Data(v))
    BY <1>3, <1>4, <1>5, WriteFacts, Packages
  <1>8. \A d \in Client \ {q} : HasOf(d)' = HasOf(d)
    BY <1>6, <1>7 DEF HasOf
  <1>9. CASE gone(q)
    <2>1. HasOf(q)' = HasOf(q)
      BY <1>6, <1>7, <1>9 DEF HasOf
    <2>2. Has' = Has
      BY <1>8, <2>1 DEF Has
    <2>3. q \in Client \ {p} /\ q \notin InCall /\ todo[q] = <<>>
      BY <1>2, <1>4, <1>9 DEF InCall, Inside, gone, ClientInv
    <2>4. Meeting!Lose(p)
      BY <1>3, <1>5, <1>6, <2>2, <2>3 DEF Meeting!Lose, InCall, Has, HasOf
    <2> QED BY <1>2, <2>4
  <1>10. CASE ~ gone(q)
    <2>1. pc[q] = "pop_data" /\ down[q] = <<>> /\ down'[q] = <<Data(v)>>
      BY <1>4, <1>7, <1>10, One DEF Pops
    <2>2. down'[q] # <<>> /\ Head(down'[q]).value = v
      BY <1>5, <2>1, One, Packages
    <2>3. HasOf(q)' = offered[p].value
      BY <1>5, <1>6, <2>1, <2>2 DEF HasOf
    <2>4. Has' = [Has EXCEPT ![q] = offered[p].value]
      BY <1>8, <2>3, HasAfter
    <2>5. q \in InCall /\ Has[q] = Nil
      BY <1>4, <2>1 DEF InCall, Inside, Has, HasOf, ClientInv
    <2>6. Head(todo[q]).op = "pop" /\ Head(todo[q]).topic = offered[p].topic
      BY <1>4, <1>5, <1>10, <2>1 DEF ClientInv, Op, Request
    <2>7. Meeting!Hand(p, q)
      BY <1>3, <1>5, <1>6, <2>4, <2>5, <2>6 DEF Meeting!Hand, InCall, Has, HasOf
    <2> QED BY <1>2, <2>7
  <1> QED BY <1>9, <1>10

LEMMA TransferRefines ==
  ASSUME Inv, NEW x \in transfers, transfer_data(x)
  PROVE  Meeting!Lose(x.push) \/ Meeting!Hand(x.push, x.pop) \/ UNCHANGED Meeting!vars
  <1>0. /\ TypeOK /\ x.push \in Client /\ x.pop \in Client
        /\ Talk(x.push, PushMode(x)) /\ Talk(x.pop, PopMode(x))
    BY TransferFacts DEF Inv
  <1>1. CASE UNCHANGED <<client, down, offered>>
    BY <1>1, ServerStutters
  <1>2. CASE TransferWrite(x)
    BY <1>2, TransferWriteRefines
  <1>3. CASE TransferRespondPush(x)
    <2>1. x.at = "respond_push" /\ Write(x.push, Response) /\ UNCHANGED <<client, offered>>
      BY <1>3 DEF TransferRespondPush
    <2>2. Taken(x.push)
      BY <1>0, <2>1 DEF PushMode, Talk
    <2>3. ~ gone(x.push) => pc[x.push] # "pop_data"
      BY <2>2 DEF Taken
    <2> QED BY <1>0, <2>1, <2>3, ResponseStutters
  <1>4. CASE TransferRespondPop(x)
    <2>1. x.at = "respond_pop" /\ Write(x.pop, Response) /\ UNCHANGED <<client, offered>>
      BY <1>4 DEF TransferRespondPop
    <2>2. Popped(x.pop)
      BY <1>0, <2>1 DEF PopMode, Talk
    <2>3. Len(<<>>) = 0
      OBVIOUS
    <2>4. ASSUME ~ gone(x.pop), pc[x.pop] = "pop_data" PROVE down[x.pop] # <<>>
      <3>1. Len(down[x.pop]) = 1
        BY <2>2, <2>4 DEF Popped
      <3>2. Len(down[x.pop]) # Len(<<>>)
        BY <2>3, <3>1
      <3> QED BY <3>2
    <2> QED BY <1>0, <2>1, <2>4, ResponseStutters
  <1> QED BY <1>1, <1>2, <1>3, <1>4 DEF transfer_data, TransferStart, TransferRead, TransferThrows

LEMMA NextRefines == Inv /\ [Next]_vars => [Meeting!Next]_(Meeting!vars)
  <1> SUFFICES ASSUME Inv, [Next]_vars PROVE Meeting!Next \/ UNCHANGED Meeting!vars
    OBVIOUS
  <1>1. CASE UNCHANGED vars
    <2>1. UNCHANGED <<client, down, offered>>
      BY <1>1 DEF vars
    <2> QED BY <2>1, ServerStutters
  <1>2. ASSUME NEW c \in Client, ClientStep(c) \/ Leave(c) PROVE Meeting!Next \/ UNCHANGED Meeting!vars
    BY <1>2, ClientRefines DEF Meeting!Next
  <1>3. ASSUME NEW c \in Client, ConnectionStep(c) PROVE UNCHANGED Meeting!vars
    BY <1>3, ConnectionRefines
  <1>4. ASSUME NEW x \in transfers, transfer_data(x) PROVE Meeting!Next \/ UNCHANGED Meeting!vars
    <2>1. x.push \in Client /\ x.pop \in Client
      BY TransferFacts
    <2> QED BY <1>4, <2>1, TransferRefines DEF Meeting!Next
  <1>5. CASE Stop
    <2>1. UNCHANGED <<client, down, offered>>
      BY <1>5 DEF Stop
    <2> QED BY <2>1, ServerStutters
  <1> QED BY <1>1, <1>2, <1>3, <1>4, <1>5 DEF Next

(* Every value goes from one Push to one Pop of the same topic, and a Push *)
(* returns only after its value was passed on: with the packages, the      *)
(* lists and the coroutines hidden, the switcher is a meeting point.       *)
THEOREM Refinement == Spec => ImplementsRendezvous
  <1>1. Spec => Meeting!Spec
    BY InitRefines, NextRefines, Invariant, PTL DEF Spec, Meeting!Spec
  <1> QED BY <1>1 DEF ImplementsRendezvous

=============================================================================
