----------------------------- MODULE LobbyProofs -----------------------------
(***************************************************************************)
(* Proofs about the game room: for any number of connections, holders of   *)
(* the host token, lost connections, clicks and chat messages.             *)
(*   - One host administrates the match, and colors are distinct.          *)
(*   - Everybody is about to show the server's list and setting, chat      *)
(*     messages name their senders, and all start with the same players.   *)
(*   - Accepting is paused by the host alone.                              *)
(***************************************************************************)
EXTENDS Lobby, Induction, FiniteSetTheorems, TLAPS

(***************************************************************************)
(* ColorsDistinct is not inductive: a host takes color 0 without looking.  *)
(* It may, because color 0 is then free: while there was a host, 0 was its *)
(* color and not the lowest free one; and without a host nobody joins.     *)
(* That a host keeps its color needs a fact about messages: who knows the  *)
(* token never sends Connect, and nobody else sends HostConnect.           *)
(***************************************************************************)
FromClient(c) ==
    [type : {IF c \in TokenHolders THEN "HostConnect" ELSE "Connect",
             "Chat", "StartGame", "Leave"}]
      \cup [type : {"SettingsUpdate", "ReadyUp"}, on : BOOLEAN]

MessagesOK ==
    /\ toServer = [c \in Clients |-> toServer[c]]
    /\ \A c \in Clients : toServer[c] \in Seq(FromClient(c))

TableOK == player \in [Clients -> Players]

HostsHoldToken == Hosts \subseteq TokenHolders

HostsHaveZero == \A c \in Hosts : player[c].color = 0

OnlyHostsHaveZero == \A c \in Joined : player[c].color = 0 => c \in Hosts

\* What the table of players satisfies, whatever is on its way.
TableInv ==
    /\ TableOK
    /\ HostsHoldToken
    /\ HostsHaveZero
    /\ OnlyHostsHaveZero
    /\ AtMostOneHost
    /\ ColorsDistinct

RoomInv == MessagesOK /\ TableInv

\* Color 0 is one of the colors, and the empty entry one of the entries.
LEMMA ColorZero == 0 \in Colors /\ NoPlayer \in Players /\ NewPlayer \in Players
<1>1. Cardinality(Clients) \in Nat
  BY FS_CardinalityType, LobbyAssumption
<1>2. 0 \in Colors
  BY <1>1 DEF Colors
<1> QED
  BY <1>2 DEF NoPlayer, NewPlayer, Players

\* What a client sends keeps the messages on their way well formed.
LEMMA Sending ==
    ASSUME NEW c \in Clients, MessagesOK, NEW m \in FromClient(c),
           toServer' = Send(toServer, c, <<m>>)
    PROVE  MessagesOK'
<1>1. \A d \in Clients : toServer'[d] = IF d = c THEN toServer[c] \o <<m>> ELSE toServer[d]
  BY DEF MessagesOK, Send
<1>2. toServer[c] \o <<m>> \in Seq(FromClient(c))
  BY DEF MessagesOK
<1>3. toServer' = [d \in Clients |-> toServer'[d]]
  BY DEF MessagesOK, Send
<1> QED
  BY <1>1, <1>2, <1>3 DEF MessagesOK, FromClient

\* Taking the first message away, or all of them, does so as well; the message
\* is one the client sends.
LEMMA Taking ==
    ASSUME NEW c \in Clients, MessagesOK, NEW type, Handle(c, type)
    PROVE  MessagesOK' /\ Head(toServer[c]) \in FromClient(c)
<1>1. \A d \in Clients : toServer'[d] = IF d = c THEN Tail(toServer[c]) ELSE toServer[d]
  BY DEF MessagesOK, Handle
<1>2. Tail(toServer[c]) \in Seq(FromClient(c)) /\ Head(toServer[c]) \in FromClient(c)
  BY DEF MessagesOK, Handle
<1>3. toServer' = [d \in Clients |-> toServer'[d]]
  BY DEF MessagesOK, Handle
<1> QED
  BY <1>1, <1>2, <1>3 DEF MessagesOK, FromClient

LEMMA Emptying ==
    ASSUME NEW c \in Clients, MessagesOK, toServer' = [toServer EXCEPT ![c] = <<>>]
    PROVE  MessagesOK'
BY DEF MessagesOK, FromClient

\* Every step keeps the messages well formed.
LEMMA MessagesStep == MessagesOK /\ [Next]_vars => MessagesOK'
<1> SUFFICES ASSUME MessagesOK, [Next]_vars PROVE MessagesOK'
  OBVIOUS
<1>1. CASE UNCHANGED vars
  BY <1>1 DEF vars, MessagesOK, FromClient
<1>2. ASSUME NEW c \in Clients, UNCHANGED toServer PROVE MessagesOK'
  BY <1>2 DEF MessagesOK, FromClient
<1>3. ASSUME NEW c \in Clients, Click(c) PROVE MessagesOK'
  <2>1. CASE Connect(c)
    <3> DEFINE m == Message(IF c \in TokenHolders THEN "HostConnect" ELSE "Connect")
    <3>1. m \in FromClient(c)
      BY DEF Message, FromClient
    <3>2. toServer' = Send(toServer, c, <<m>>)
      BY <2>1 DEF Connect
    <3> QED
      BY <3>1, <3>2, Sending
  <2>2. CASE ClickReady(c)
    <3>1. Update("ReadyUp", ~client[c].ready) \in FromClient(c)
      BY DEF Update, FromClient
    <3> QED
      BY <2>2, <3>1, Sending DEF ClickReady
  <2>3. CASE ClickAllow(c)
    <3>1. Update("SettingsUpdate", ~client[c].allow) \in FromClient(c)
      BY DEF Update, FromClient
    <3> QED
      BY <2>3, <3>1, Sending DEF ClickAllow
  <2>4. ASSUME NEW type \in {"Chat", "StartGame", "Leave"} PROVE Message(type) \in FromClient(c)
    BY DEF Message, FromClient
  <2>5. CASE SendChat(c)
    BY <2>4, <2>5, Sending DEF SendChat
  <2>6. CASE ClickStart(c)
    BY <2>4, <2>6, Sending DEF ClickStart
  <2>7. CASE ClickLeave(c)
    BY <2>4, <2>7, Sending DEF ClickLeave
  <2> QED
    BY <1>3, <2>1, <2>2, <2>3, <2>5, <2>6, <2>7 DEF Click
<1>4. ASSUME NEW c \in Clients, Break(c) \/ TimeOut(c) PROVE MessagesOK'
  BY <1>4, Emptying DEF Break, TimeOut
<1>5. ASSUME NEW c \in Clients, Receive(c) PROVE MessagesOK'
  <2>1. Update("SettingsUpdate", ~client[c].allow) \in FromClient(c)
    BY DEF Update, FromClient
  <2>2. \/ UNCHANGED toServer
        \/ toServer' = Send(toServer, c, <<Update("SettingsUpdate", ~client[c].allow)>>)
    BY <1>5 DEF Receive
  <2> QED
    BY <2>1, <2>2, <1>2, Sending
<1>6. ASSUME NEW c \in Clients, NoticeLoss(c) \/ Accept(c) PROVE MessagesOK'
  BY <1>6, <1>2 DEF NoticeLoss, Accept
<1>7. ASSUME NEW c \in Clients, Handler(c) PROVE MessagesOK'
  <2>1. PICK type : Handle(c, type)
    BY <1>7 DEF Handler, HandleHostConnect, HandleConnect, Reject, HandleSettingsUpdate,
                HandleReadyUp, HandleChat, HandleLeave, HandleStartGame
  <2> QED
    BY <2>1, Taking
<1> QED
  BY <1>1, <1>3, <1>4, <1>5, <1>6, <1>7 DEF Next

(***************************************************************************)
(* The table of players changes in the entry of one connection at a time.  *)
(***************************************************************************)
\* A connection that comes in, or goes, gets an entry that is neither.
LEMMA EntryReplaced ==
    ASSUME NEW c \in Clients, TableInv, NEW e \in {NoPlayer, NewPlayer},
           player' = [player EXCEPT ![c] = e]
    PROVE  TableInv'
<1>1. TableOK'
  BY ColorZero DEF TableInv, TableOK
<1>2. Hosts' = Hosts \ {c} /\ Joined' = Joined \ {c}
  BY DEF TableInv, TableOK, Hosts, Joined, IsJoined, NoPlayer, NewPlayer
<1>3. \A d \in Clients \ {c} : player'[d] = player[d]
  BY DEF TableInv, TableOK
<1>4. Joined \subseteq Clients /\ Hosts \subseteq Clients
  BY DEF Joined, Hosts
<1> QED
  BY <1>1, <1>2, <1>3, <1>4 DEF TableInv, HostsHoldToken, HostsHaveZero, OnlyHostsHaveZero,
     AtMostOneHost, ColorsDistinct

\* The host takes color 0, which is free because there is no other host.
LEMMA HostJoins ==
    ASSUME NEW c \in Clients, RoomInv, HandleHostConnect(c)
    PROVE  TableInv'
<1>1. Hosts = {}
  BY DEF HandleHostConnect, HasHost
<1>2. player' = [player EXCEPT ![c] = [player[c] EXCEPT !.state = "Joined", !.isHost = TRUE,
                                                       !.color = 0]]
  BY DEF HandleHostConnect
<1>3. c \in TokenHolders
  <2>1. Head(toServer[c]) \in FromClient(c) /\ Head(toServer[c]).type = "HostConnect"
    BY Taking DEF HandleHostConnect, RoomInv, Handle
  <2> QED
    BY <2>1 DEF FromClient
<1>4. player \in [Clients -> Players]
  BY DEF RoomInv, TableInv, TableOK
<1>5. TableOK'
  BY <1>2, <1>4, ColorZero DEF TableOK, Players
<1>6. /\ player'[c].state = "Joined" /\ player'[c].isHost /\ player'[c].color = 0
      /\ \A d \in Clients \ {c} : player'[d] = player[d]
  BY <1>2, <1>4 DEF Players
<1>7. Hosts' = {c} /\ Joined' = Joined \cup {c}
  BY <1>1, <1>6 DEF Hosts, Joined, IsJoined
<1>8. \A d \in Joined : player[d].color # 0
  BY <1>1 DEF RoomInv, TableInv, OnlyHostsHaveZero
<1> QED
  BY <1>3, <1>5, <1>6, <1>7, <1>8 DEF RoomInv, TableInv, HostsHoldToken, HostsHaveZero,
     OnlyHostsHaveZero, AtMostOneHost, ColorsDistinct, Joined

\* Somebody else takes the lowest free color, which is not 0 because of the host.
LEMMA PlayerJoins ==
    ASSUME NEW c \in Clients, RoomInv, HandleConnect(c)
    PROVE  TableInv'
<1>1. PICK h \in Hosts : TRUE
  BY DEF HandleConnect, HasHost
<1>2. PICK color \in Colors :
        /\ LowestFree(color)
        /\ player' = [player EXCEPT ![c] = [player[c] EXCEPT !.state = "Joined",
                                                             !.color = color]]
  BY DEF HandleConnect
<1>3. c \notin TokenHolders
  <2>1. Head(toServer[c]) \in FromClient(c) /\ Head(toServer[c]).type = "Connect"
    BY Taking DEF HandleConnect, RoomInv, Handle
  <2> QED
    BY <2>1 DEF FromClient
<1>4. c \notin Hosts
  BY <1>3 DEF RoomInv, TableInv, HostsHoldToken
<1>5. player \in [Clients -> Players]
  BY DEF RoomInv, TableInv, TableOK
<1>6. TableOK'
  BY <1>2, <1>5 DEF TableOK, Players
<1>7. /\ player'[c].state = "Joined" /\ player'[c].isHost = player[c].isHost
      /\ player'[c].color = color
      /\ \A d \in Clients \ {c} : player'[d] = player[d]
  BY <1>2, <1>5 DEF Players
<1>8. Hosts' = Hosts /\ Joined' = Joined \cup {c}
  BY <1>7 DEF Hosts, Joined, IsJoined
<1>9. \A d \in Joined : player[d].color # color
  BY <1>2 DEF LowestFree
<1>10. color # 0
  BY <1>1, <1>9 DEF RoomInv, TableInv, AtMostOneHost, HostsHaveZero
<1> QED
  BY <1>4, <1>6, <1>7, <1>8, <1>9, <1>10 DEF RoomInv, TableInv, HostsHoldToken,
     HostsHaveZero, OnlyHostsHaveZero, AtMostOneHost, ColorsDistinct, Joined, Hosts

\* A click on the ready box concerns neither hosts nor colors.
LEMMA PlayerReady ==
    ASSUME NEW c \in Clients, RoomInv, HandleReadyUp(c)
    PROVE  TableInv'
<1> DEFINE ready == Head(toServer[c]).on
<1>1. player' = [player EXCEPT ![c] = [player[c] EXCEPT !.ready = ready]]
  BY DEF HandleReadyUp
<1>2. ready \in BOOLEAN
  <2>1. Head(toServer[c]) \in FromClient(c) /\ Head(toServer[c]).type = "ReadyUp"
    BY Taking DEF HandleReadyUp, RoomInv, Handle
  <2> QED
    BY <2>1 DEF FromClient
<1>3. player \in [Clients -> Players]
  BY DEF RoomInv, TableInv, TableOK
<1> HIDE DEF ready
<1>4. TableOK'
  BY <1>1, <1>2, <1>3 DEF TableOK, Players
<1>5. \A d \in Clients : /\ player'[d].state = player[d].state
                         /\ player'[d].isHost = player[d].isHost
                         /\ player'[d].color = player[d].color
  BY <1>1, <1>3 DEF Players
<1>6. Hosts' = Hosts /\ Joined' = Joined
  BY <1>5 DEF Hosts, Joined, IsJoined
<1> QED
  BY <1>4, <1>5, <1>6 DEF RoomInv, TableInv, HostsHoldToken, HostsHaveZero,
     OnlyHostsHaveZero, AtMostOneHost, ColorsDistinct, Joined, Hosts

LEMMA TableStep == RoomInv /\ [Next]_vars => TableInv'
<1> SUFFICES ASSUME RoomInv, [Next]_vars PROVE TableInv'
  OBVIOUS
<1>1. ASSUME UNCHANGED player PROVE TableInv'
  BY <1>1 DEF RoomInv, TableInv, TableOK, HostsHoldToken, HostsHaveZero, OnlyHostsHaveZero,
     AtMostOneHost, ColorsDistinct, Joined, Hosts, IsJoined
<1>2. ASSUME NEW c \in Clients, Click(c) \/ Break(c) \/ Receive(c) \/ NoticeLoss(c)
      PROVE  TableInv'
  BY <1>1, <1>2 DEF Click, Connect, ClickReady, ClickAllow, SendChat, ClickStart, ClickLeave,
     Break, Receive, NoticeLoss, serverVars
<1>3. ASSUME NEW c \in Clients, Accept(c) \/ TimeOut(c) \/ Reject(c) \/ HandleLeave(c)
      PROVE  TableInv'
  BY <1>3, EntryReplaced DEF Accept, TimeOut, Reject, HandleLeave, RoomInv
<1>4. ASSUME NEW c \in Clients, HandleSettingsUpdate(c) \/ HandleChat(c) \/ HandleStartGame(c)
      PROVE  TableInv'
  BY <1>1, <1>4 DEF HandleSettingsUpdate, HandleChat, HandleStartGame
<1>5. ASSUME NEW c \in Clients, Handler(c) PROVE TableInv'
  BY <1>3, <1>4, <1>5, HostJoins, PlayerJoins, PlayerReady DEF Handler
<1>6. CASE UNCHANGED vars
  BY <1>1, <1>6 DEF vars
<1> QED
  BY <1>2, <1>3, <1>5, <1>6 DEF Next

LEMMA RoomInit == Init => RoomInv
<1> SUFFICES ASSUME Init PROVE RoomInv
  OBVIOUS
<1>1. MessagesOK
  BY DEF Init, MessagesOK
<1>2. TableOK /\ Hosts = {} /\ Joined = {}
  BY ColorZero DEF Init, TableOK, Hosts, Joined, IsJoined, NoPlayer
<1> QED
  BY <1>1, <1>2 DEF RoomInv, TableInv, HostsHoldToken, HostsHaveZero, OnlyHostsHaveZero,
     AtMostOneHost, ColorsDistinct

\* The invariant of the room holds in every state of every match setup.
THEOREM RoomInvariant == Spec => []RoomInv
<1>1. RoomInv /\ [Next]_vars => RoomInv'
  BY MessagesStep, TableStep DEF RoomInv
<1> QED
  BY RoomInit, <1>1, PTL DEF Spec

\* HandleHostConnect: at any time at most one connection is the host, and it is
\* a joined player, however many know the token and whoever is lost.
THEOREM OneHost == Spec => []AtMostOneHost
BY RoomInvariant, PTL DEF RoomInv, TableInv

\* HandleHostConnect and HandleConnect: no two players ever have the same color,
\* however many come and go.
THEOREM DistinctColors == Spec => []ColorsDistinct
BY RoomInvariant, PTL DEF RoomInv, TableInv

-----------------------------------------------------------------------------
(***************************************************************************)
(* What Kept keeps.                                                        *)
(***************************************************************************)
\* The function in the definition of Kept.
KeptUpTo(f, s, S, l) ==
    f = [i \in 0 .. l |-> IF i = 0 THEN <<>>
                          ELSE IF s[i] \in S THEN Append(f[i - 1], s[i]) ELSE f[i - 1]]

\* The function that Kept chooses exists.
LEMMA KeptUpToExists ==
    ASSUME NEW s, NEW S, NEW l \in Nat
    PROVE  \E f : KeptUpTo(f, s, S, l)
<1> DEFINE H(f, n) == IF n = 0 THEN <<>>
                      ELSE IF s[n] \in S THEN Append(f[n - 1], s[n]) ELSE f[n - 1]
           N == {m \in Nat : \E f : f = [n \in 0 .. m |-> H(f, n)]}
<1>1. 0 \in N
  <2> DEFINE f == [n \in 0 .. 0 |-> <<>>]
  <2>1. f = [n \in 0 .. 0 |-> H(f, n)]
    OBVIOUS
  <2> HIDE DEF f
  <2> QED
    BY <2>1
<1>2. ASSUME NEW m \in Nat, m \in N PROVE m + 1 \in N
  <2>1. PICK f : f = [n \in 0 .. m |-> H(f, n)]
    BY <1>2
  <2> DEFINE g == [n \in 0 .. m + 1 |-> H(f, n)]
  <2>2. \A n \in 0 .. m : g[n] = f[n]
    <3>1. \A n \in 0 .. m : n \in 0 .. m + 1
      OBVIOUS
    <3> HIDE DEF H
    <3> QED
      BY <3>1, <2>1
  <2>3. \A n \in 0 .. m + 1 : n # 0 => n - 1 \in 0 .. m
    OBVIOUS
  <2>4. \A n \in 0 .. m + 1 : H(f, n) = H(g, n)
    BY <2>2, <2>3
  <2>5. g = [n \in 0 .. m + 1 |-> H(g, n)]
    <3> HIDE DEF H
    <3> QED
      BY <2>4
  <2> HIDE DEF g, H
  <2> QED
    BY <2>5
<1> HIDE DEF N
<1>3. l \in N
  BY <1>1, <1>2, SetInduction
<1> QED
  BY <1>3 DEF N, KeptUpTo

\* Two such functions, for a sequence and a longer one, agree as far as both go.
LEMMA KeptUpToAlike ==
    ASSUME NEW s, NEW t, NEW S, NEW l \in Nat, NEW k \in Nat, l <= k,
           NEW f, KeptUpTo(f, s, S, l), NEW g, KeptUpTo(g, t, S, k),
           \A i \in 1 .. l : s[i] = t[i]
    PROVE  f[l] = g[l]
<1>1. \A i \in 0 .. l : f[i] = IF i = 0 THEN <<>>
                               ELSE IF s[i] \in S THEN Append(f[i - 1], s[i]) ELSE f[i - 1]
  BY DEF KeptUpTo
<1>2. \A i \in 0 .. k : g[i] = IF i = 0 THEN <<>>
                               ELSE IF t[i] \in S THEN Append(g[i - 1], t[i]) ELSE g[i - 1]
  BY DEF KeptUpTo
<1> DEFINE N == {i \in Nat : i <= l => f[i] = g[i]}
<1>3. 0 \in N
  BY <1>1, <1>2
<1>4. ASSUME NEW i \in Nat, i \in N PROVE i + 1 \in N
  <2>1. SUFFICES ASSUME i + 1 <= l PROVE f[i + 1] = g[i + 1]
    OBVIOUS
  <2>2. /\ i + 1 \in 0 .. l /\ i + 1 \in 0 .. k /\ i + 1 # 0 /\ (i + 1) - 1 = i
        /\ s[i + 1] = t[i + 1] /\ f[i] = g[i]
    BY <1>4, <2>1
  <2> QED
    BY <1>1, <1>2, <2>2
<1> HIDE DEF N
<1>5. l \in N
  BY <1>3, <1>4, SetInduction
<1> QED
  BY <1>5 DEF N

\* Kept has the last value of any such function.
LEMMA KeptIs ==
    ASSUME NEW s, NEW S, Len(s) \in Nat
    PROVE  \E f : KeptUpTo(f, s, S, Len(s)) /\ Kept(s, S) = f[Len(s)]
<1> DEFINE f == CHOOSE h : KeptUpTo(h, s, S, Len(s))
<1>1. KeptUpTo(f, s, S, Len(s))
  BY KeptUpToExists
<1>2. Kept(s, S) = f[Len(s)]
  BY DEF Kept, KeptUpTo
<1> HIDE DEF f
<1> QED
  BY <1>1, <1>2

\* Nothing is kept of the empty sequence.
LEMMA KeptOfNone == ASSUME NEW S PROVE Kept(<<>>, S) = <<>>
<1>1. PICK f : KeptUpTo(f, <<>>, S, 0) /\ Kept(<<>>, S) = f[0]
  BY KeptIs
<1> QED
  BY <1>1 DEF KeptUpTo

\* An element at the end is kept or not.
LEMMA KeptAppend ==
    ASSUME NEW T, NEW s \in Seq(T), NEW x \in T, NEW S
    PROVE  Kept(Append(s, x), S) = IF x \in S THEN Append(Kept(s, S), x) ELSE Kept(s, S)
<1> DEFINE l == Len(s)
           t == Append(s, x)
<1>1. l \in Nat /\ Len(t) = l + 1 /\ t[l + 1] = x /\ \A i \in 1 .. l : s[i] = t[i]
  OBVIOUS
<1> HIDE DEF l, t
<1>2. PICK f : KeptUpTo(f, s, S, l) /\ Kept(s, S) = f[l]
  BY <1>1, KeptIs DEF l
<1>3. PICK g : KeptUpTo(g, t, S, l + 1) /\ Kept(t, S) = g[l + 1]
  <2>1. Len(t) \in Nat
    BY <1>1
  <2> QED
    BY <1>1, <2>1, KeptIs
<1>4. f[l] = g[l]
  <2>1. l + 1 \in Nat /\ l <= l + 1
    BY <1>1
  <2> QED
    BY <1>1, <1>2, <1>3, <2>1, KeptUpToAlike
<1>5. l + 1 \in 0 .. l + 1 /\ l + 1 # 0 /\ (l + 1) - 1 = l
  BY <1>1
<1>6. g[l + 1] = IF t[l + 1] \in S THEN Append(g[l], t[l + 1]) ELSE g[l]
  BY <1>3, <1>5 DEF KeptUpTo
<1> QED
  BY <1>1, <1>2, <1>3, <1>4, <1>6 DEF t

\* A family with the empty sequence and with what is longer by one than a sequence of it
\* has all sequences.
LEMMA SequenceInduction ==
    ASSUME NEW T, NEW F, <<>> \in F,
           \A s \in Seq(T) : s \in F => \A x \in T : Append(s, x) \in F
    PROVE  Seq(T) \subseteq F
<1> DEFINE N == {n \in Nat : \A s \in Seq(T) : Len(s) = n => s \in F}
<1>1. 0 \in N
  <2>1. \A s \in Seq(T) : Len(s) = 0 => s = <<>>
    OBVIOUS
  <2> QED
    BY <2>1
<1>2. ASSUME NEW n \in Nat, n \in N PROVE n + 1 \in N
  <2>1. SUFFICES ASSUME NEW s \in Seq(T), Len(s) = n + 1 PROVE s \in F
    OBVIOUS
  <2> DEFINE r == SubSeq(s, 1, n)
  <2>2. r \in Seq(T) /\ Len(r) = n /\ s[n + 1] \in T
    BY <2>1
  <2>3. s = Append(r, s[n + 1])
    BY <2>1
  <2> HIDE DEF r
  <2>4. r \in F
    BY <1>2, <2>2
  <2> QED
    BY <2>2, <2>3, <2>4
<1> HIDE DEF N
<1>3. Nat \subseteq N
  BY <1>1, <1>2, SetInduction
<1>4. ASSUME NEW s \in Seq(T) PROVE s \in F
  <2>1. Len(s) \in Nat
    OBVIOUS
  <2> QED
    BY <1>3, <2>1 DEF N
<1> QED
  BY <1>4

\* What is kept are the elements that are in S.
LEMMA KeptElements ==
    ASSUME NEW T, NEW S, NEW s \in Seq(T)
    PROVE  /\ Kept(s, S) \in Seq(T)
           /\ \A x : (\E i \in DOMAIN Kept(s, S) : Kept(s, S)[i] = x)
                        <=> x \in S /\ \E i \in DOMAIN s : s[i] = x
<1> DEFINE Has(r, x) == \E i \in DOMAIN r : r[i] = x
           F == {r \in Seq(T) : /\ Kept(r, S) \in Seq(T)
                                 /\ \A x : Has(Kept(r, S), x) <=> x \in S /\ Has(r, x)}
<1>1. <<>> \in F
  <2>1. Kept(<<>>, S) = <<>> /\ <<>> \in Seq(T) /\ DOMAIN <<>> = {}
    BY KeptOfNone
  <2>2. \A x : ~Has(<<>>, x)
    BY <2>1
  <2> HIDE DEF Has
  <2> QED
    BY <2>1, <2>2
<1>2. ASSUME NEW r \in Seq(T), NEW y \in T
      PROVE  Append(r, y) \in Seq(T) /\ \A x : Has(Append(r, y), x) <=> Has(r, x) \/ x = y
  <2> DEFINE q == Append(r, y)
  <2>1. /\ DOMAIN q = 1 .. Len(r) + 1 /\ DOMAIN r = 1 .. Len(r) /\ Len(r) \in Nat
        /\ q[Len(r) + 1] = y /\ \A i \in 1 .. Len(r) : q[i] = r[i]
        /\ q \in Seq(T)
    OBVIOUS
  <2> HIDE DEF q
  <2>2. \A i : i \in 1 .. Len(r) + 1 <=> i \in 1 .. Len(r) \/ i = Len(r) + 1
    BY <2>1
  <2>3. q \in Seq(T) /\ \A x : Has(q, x) <=> Has(r, x) \/ x = y
    BY <2>1, <2>2
  <2> QED
    BY <2>3 DEF q
<1>3. ASSUME NEW r \in Seq(T), r \in F, NEW y \in T PROVE Append(r, y) \in F
  <2>1. Kept(Append(r, y), S) = IF y \in S THEN Append(Kept(r, S), y) ELSE Kept(r, S)
    BY KeptAppend
  <2>2. Kept(r, S) \in Seq(T) /\ \A x : Has(Kept(r, S), x) <=> x \in S /\ Has(r, x)
    BY <1>3
  <2>3. Append(r, y) \in Seq(T) /\ \A x : Has(Append(r, y), x) <=> Has(r, x) \/ x = y
    BY <1>2
  <2>4. /\ Append(Kept(r, S), y) \in Seq(T)
        /\ \A x : Has(Append(Kept(r, S), y), x) <=> Has(Kept(r, S), x) \/ x = y
    BY <1>2, <2>2
  <2> HIDE DEF Has
  <2> QED
    BY <2>1, <2>2, <2>3, <2>4
<1> HIDE DEF F
<1>4. s \in F
  BY <1>1, <1>3, SequenceInduction
<1> QED
  BY <1>4 DEF F

\* What is kept twice, and what sets that agree on the elements keep.
LEMMA KeptTwice ==
    ASSUME NEW T, NEW A, NEW B, NEW s \in Seq(T)
    PROVE  Kept(Kept(s, A), B) = Kept(s, A \cap B)
<1> DEFINE F == {r \in Seq(T) : Kept(Kept(r, A), B) = Kept(r, A \cap B)}
<1>1. <<>> \in F
  BY KeptOfNone
<1>2. ASSUME NEW r \in Seq(T), r \in F, NEW y \in T PROVE Append(r, y) \in F
  <2>1. Kept(r, A) \in Seq(T) /\ Append(r, y) \in Seq(T)
    BY KeptElements
  <2>2. /\ Kept(Append(r, y), A) = IF y \in A THEN Append(Kept(r, A), y) ELSE Kept(r, A)
        /\ Kept(Append(r, y), A \cap B) = IF y \in A \cap B THEN Append(Kept(r, A \cap B), y)
                                                            ELSE Kept(r, A \cap B)
        /\ Kept(Append(Kept(r, A), y), B) = IF y \in B THEN Append(Kept(Kept(r, A), B), y)
                                                       ELSE Kept(Kept(r, A), B)
    BY <2>1, KeptAppend
  <2>3. Kept(Kept(r, A), B) = Kept(r, A \cap B)
    BY <1>2
  <2>4. Kept(Kept(Append(r, y), A), B) = Kept(Append(r, y), A \cap B)
    <3>1. CASE y \in A /\ y \in B
      BY <2>2, <2>3, <3>1, Zenon
    <3>2. CASE y \notin A
      BY <2>2, <2>3, <3>2, Zenon
    <3>3. CASE y \in A /\ y \notin B
      BY <2>2, <2>3, <3>3, Zenon
    <3> QED
      BY <3>1, <3>2, <3>3
  <2> QED
    BY <2>1, <2>4
<1> HIDE DEF F
<1>3. s \in F
  BY <1>1, <1>2, SequenceInduction
<1> QED
  BY <1>3 DEF F

\* Only which of the elements are to be kept matters.
LEMMA KeptAlike ==
    ASSUME NEW T, NEW A, NEW B, NEW s \in Seq(T), A \cap T = B \cap T
    PROVE  Kept(s, A) = Kept(s, B)
<1> DEFINE F == {r \in Seq(T) : Kept(r, A) = Kept(r, B)}
<1>1. <<>> \in F
  BY KeptOfNone
<1>2. ASSUME NEW r \in Seq(T), r \in F, NEW y \in T PROVE Append(r, y) \in F
  <2>1. /\ Kept(Append(r, y), A) = IF y \in A THEN Append(Kept(r, A), y) ELSE Kept(r, A)
        /\ Kept(Append(r, y), B) = IF y \in B THEN Append(Kept(r, B), y) ELSE Kept(r, B)
    BY KeptAppend
  <2> QED
    BY <1>2, <2>1
<1> HIDE DEF F
<1>3. s \in F
  BY <1>1, <1>2, SequenceInduction
<1> QED
  BY <1>3 DEF F

-----------------------------------------------------------------------------
(***************************************************************************)
(* The other properties are about what a client will show once it has      *)
(* handled what is on its way to it.  The invariant says it of every       *)
(* message: the last list that is coming, or the list shown if none is, is *)
(* the server's; so is the last setting; a chat message is right for the   *)
(* list that comes last before it; and the start of the game is the last   *)
(* message of all, so that the list shown then is the one the game has.    *)
(* It needs to know who can write and read: a client that waits has sent   *)
(* only the message it came with, and has nothing to read.                 *)
(***************************************************************************)
\* What the dialogs show, and what the server tells them.
Entries == [id : Clients, color : Colors, ready : BOOLEAN]

Dialogs ==
    [status : {"away", "connecting", "lobby", "game", "gone"}, list : Seq(Entries),
     index : Nat, ready : BOOLEAN, allow : BOOLEAN, pressed : BOOLEAN, toggles : Nat,
     chats : Nat]

News ==
    [type : {"Welcome", "GameAborted", "StartGameBroadcast"}]
      \cup [type : {"SettingsUpdateBroadcast"}, on : BOOLEAN]
      \cup [type : {"PlayerList"}, list : Seq(Entries), index : Nat]
      \cup [type : {"ChatBroadcast"}, from : Clients, index : Nat]

\* The messages a connection asks to be let in with.
InvitationTypes == {"HostConnect", "Connect"}

\* The vector has exactly those that are in the match, and what is asked on the way in
\* comes before all else.
ConnectionsOK ==
    /\ order \in Seq(Clients)
    /\ \A c \in Clients : InMatch(c) <=> \E i \in DOMAIN order : order[i] = c
    /\ client \in [Clients -> Dialogs]
    /\ allow \in BOOLEAN /\ paused \in BOOLEAN
    /\ server \in {"setup", "started", "aborted"}

\* c may still ask to be let in, or is in the match.
Asking(c) == client[c].status \in {"away", "connecting"} \/ InMatch(c)

\* Where c is, by its dialog and by its entry, and what it may have sent by then.
EntryOK(c) ==
    /\ ~IsJoined(c) =>
         /\ Asking(c) => /\ Len(toServer[c]) <= 1
                         /\ \A i \in DOMAIN toServer[c] : toServer[c][i].type \in InvitationTypes
         /\ client[c].status \notin {"lobby", "game"}
         /\ ~player[c].ready
         /\ client[c].status # "gone" => toClient[c] = <<>>
    /\ IsJoined(c) =>
         /\ \A i \in DOMAIN toServer[c] : toServer[c][i].type \notin InvitationTypes
         /\ c \in TokenHolders => player[c].isHost
    /\ client[c].status = "away" => toServer[c] = <<>> /\ ~InMatch(c)
    /\ \A i \in DOMAIN toServer[c] : toServer[c][i].type = "Leave" => client[c].status = "gone"

EntriesOK == \A c \in Clients : EntryOK(c)

ArrivalInv == ConnectionsOK /\ EntriesOK

\* Somebody with the token may become the host, or is it.
HolderCanCome == \E c \in TokenHolders : Asking(c)

\* Before there is a host only the setting closes the room.
PausedBeforeHost == Hosts = {} /\ HolderCanCome /\ server = "setup" => (paused <=> ~allow)

PauseInv == PausedByHost /\ PausedBeforeHost

NewsOK == toClient \in [Clients -> Seq(News)]

\* No message of the type is in q.
NoneOf(q, type) == \A i \in DOMAIN q : q[i].type # type

\* m is the last message of its type in q.
LastOf(q, type, m) ==
    /\ m.type = type
    /\ \E i \in DOMAIN q : q[i] = m /\ \A j \in DOMAIN q : j > i => q[j].type # type

\* The list c will show, and its place in it, once it has handled what is on its way.
WillShow(c, list, index) ==
    \/ NoneOf(toClient[c], "PlayerList") /\ list = client[c].list /\ index = client[c].index
    \/ \E m \in News : LastOf(toClient[c], "PlayerList", m) /\ list = m.list /\ index = m.index

Placed(list, index, c) == index \in DOMAIN list /\ list[index].id = c

\* Everybody in the room is about to show the list of the server.
ListsComing ==
    server # "aborted" =>
      \A c \in Clients : Present(c) =>
        \E index \in Nat : /\ WillShow(c, Roster(order, player), index)
                           /\ Placed(Roster(order, player), index, c)

\* The start is the last thing a client hears, and by then it shows the list it is about.
StartComes ==
    \A c \in Clients :
       /\ client[c].status # "gone" =>
            \A i \in DOMAIN toClient[c] : toClient[c][i].type = "StartGameBroadcast" =>
              i = Len(toClient[c]) /\ server = "started"
       /\ client[c].status = "game" =>
            /\ server = "started" /\ client[c].list = Roster(order, player)
            /\ Placed(client[c].list, client[c].index, c)

\* The game got exactly the players of that list.
StartedWithRoster == server = "started" => inGame = Kept(order, Joined)

\* The setting c will show, and that it is the one of the server.
SettingComing(c, on) ==
    \/ NoneOf(toClient[c], "SettingsUpdateBroadcast") /\ on = client[c].allow
    \/ \E m \in News : LastOf(toClient[c], "SettingsUpdateBroadcast", m) /\ on = m.on

SettingsComing ==
    server = "setup" => \A c \in Clients \ Hosts : Present(c) => SettingComing(c, allow)

\* The index in the chat message m names its sender in list.
Attributed(list, m) == m.index \in DOMAIN list /\ list[m.index].id = m.from

\* The list shown when the i-th message of q is handled names its sender.
NamedAt(q, shown, i) ==
    \/ /\ \A j \in 1 .. i - 1 : q[j].type # "PlayerList"
       /\ Attributed(shown, q[i])
    \/ \E k \in 1 .. i - 1 :
         /\ q[k].type = "PlayerList"
         /\ \A j \in k + 1 .. i - 1 : q[j].type # "PlayerList"
         /\ Attributed(q[k].list, q[i])

\* And so for every chat message that is on its way.
ChatsComing ==
    \A c \in Clients : client[c].status # "gone" => \A i \in DOMAIN toClient[c] :
      toClient[c][i].type = "ChatBroadcast" => NamedAt(toClient[c], client[c].list, i)
\* The invariant of who is where, and of what is on its way in.
EntryInv == RoomInv /\ ArrivalInv /\ NewsOK

\* Who connects, joins, is ready or goes: each step changes one entry of the table.
LEMMA OrderStep ==
    ASSUME EntryInv, [Next]_vars
    PROVE  /\ order' \in Seq(Clients)
           /\ (\A c \in Clients : InMatch(c) <=> \E i \in DOMAIN order : order[i] = c)'
<1> DEFINE Has(r, x) == \E i \in DOMAIN r : r[i] = x
<1>1. /\ player \in [Clients -> Players] /\ order \in Seq(Clients)
      /\ \A c \in Clients : InMatch(c) <=> Has(order, c)
  BY DEF EntryInv, ArrivalInv, ConnectionsOK, RoomInv, TableInv, TableOK
<1> SUFFICES /\ order' \in Seq(Clients)
             /\ \A c \in Clients : player'[c].state # "None" <=> Has(order', c)
  BY DEF InMatch
<1>2. ASSUME order' = order, \A c \in Clients : player'[c].state # "None" <=> InMatch(c)
      PROVE  /\ order' \in Seq(Clients)
             /\ \A c \in Clients : player'[c].state # "None" <=> Has(order', c)
  BY <1>1, <1>2
<1>3. CASE UNCHANGED <<order, player>>
  BY <1>2, <1>3 DEF InMatch
<1>4. ASSUME NEW c \in Clients, Accept(c)
      PROVE  /\ order' \in Seq(Clients)
             /\ \A d \in Clients : player'[d].state # "None" <=> Has(order', d)
  <2>1. order' = Append(order, c) /\ player' = [player EXCEPT ![c] = NewPlayer]
    BY <1>4 DEF Accept
  <2>2. \A d \in Clients : player'[d].state # "None" <=> InMatch(d) \/ d = c
    BY <1>1, <2>1 DEF InMatch, NewPlayer, NoPlayer
  <2> DEFINE q == order'
  <2>3. /\ DOMAIN q = 1 .. Len(order) + 1 /\ DOMAIN order = 1 .. Len(order) /\ Len(order) \in Nat
        /\ q[Len(order) + 1] = c /\ \A i \in 1 .. Len(order) : q[i] = order[i]
        /\ q \in Seq(Clients)
    BY <1>1, <2>1
  <2> HIDE DEF q
  <2>4. \A i : i \in 1 .. Len(order) + 1 <=> i \in 1 .. Len(order) \/ i = Len(order) + 1
    BY <2>3
  <2>5. q \in Seq(Clients) /\ \A d : Has(q, d) <=> Has(order, d) \/ d = c
    BY <2>3, <2>4
  <2> QED
    BY <1>1, <2>2, <2>5 DEF q
<1>5. ASSUME NEW c \in Clients, Reject(c) \/ HandleLeave(c) \/ TimeOut(c)
      PROVE  /\ order' \in Seq(Clients)
             /\ \A d \in Clients : player'[d].state # "None" <=> Has(order', d)
  <2>1. order' = Kept(order, Clients \ {c}) /\ player' = [player EXCEPT ![c] = NoPlayer]
    BY <1>5 DEF Reject, HandleLeave, TimeOut, Without
  <2>2. \A d \in Clients : player'[d].state # "None" <=> InMatch(d) /\ d # c
    BY <1>1, <2>1 DEF InMatch, NoPlayer
  <2> DEFINE o == order
             S == Clients \ {c}
  <2>3. o \in Seq(Clients)
    BY <1>1
  <2> HIDE DEF o, S
  <2>4. Kept(o, S) \in Seq(Clients) /\ \A d : Has(Kept(o, S), d) <=> d \in S /\ Has(o, d)
    BY <2>3, KeptElements
  <2> QED
    BY <1>1, <2>1, <2>2, <2>4 DEF o, S
<1>6. ASSUME NEW c \in Clients, HandleHostConnect(c) \/ HandleConnect(c) \/ HandleReadyUp(c)
      PROVE  /\ order' \in Seq(Clients)
             /\ \A d \in Clients : player'[d].state # "None" <=> Has(order', d)
  <2>1. InMatch(c) /\ order' = order
    BY <1>6 DEF HandleHostConnect, HandleConnect, HandleReadyUp, Handle
  <2>2. \A d \in Clients : /\ d # c => player'[d] = player[d]
                           /\ d = c => player'[d].state \in {"Joined", player[c].state}
    BY <1>1, <1>6 DEF HandleHostConnect, HandleConnect, HandleReadyUp, Players
  <2> QED
    BY <1>2, <2>1, <2>2 DEF InMatch
<1>7. ASSUME NEW c \in Clients,
             Click(c) \/ Break(c) \/ Receive(c) \/ NoticeLoss(c) \/ HandleSettingsUpdate(c)
               \/ HandleChat(c) \/ HandleStartGame(c)
      PROVE  UNCHANGED <<order, player>>
  BY <1>7 DEF Click, Connect, ClickReady, ClickAllow, SendChat, ClickStart, ClickLeave, Break,
     Receive,
     NoticeLoss, HandleSettingsUpdate, HandleChat, HandleStartGame, serverVars
<1>8. CASE UNCHANGED vars
  BY <1>3, <1>8 DEF vars
<1> QED
  BY <1>3, <1>4, <1>5, <1>6, <1>7, <1>8 DEF Next, Handler

\* Everybody that is joined is in the list, at the place that it is told.
LEMMA RosterHas ==
    ASSUME NEW connections \in Seq(Clients), NEW table \in [Clients -> Players]
    PROVE  /\ Roster(connections, table) \in Seq(Entries)
           /\ \A c \in Clients :
                table[c].state = "Joined" /\ (\E i \in DOMAIN connections : connections[i] = c) =>
                  LET list == Roster(connections, table)
                  IN  Placed(list, IndexIn(list, c), c) /\ IndexIn(list, c) \in Nat
<1> DEFINE J == {c \in Clients : table[c].state = "Joined"}
           joined == Kept(connections, J)
           list == Roster(connections, table)
<1>1. /\ joined \in Seq(Clients)
      /\ \A x : (\E i \in DOMAIN joined : joined[i] = x)
                   <=> x \in J /\ \E i \in DOMAIN connections : connections[i] = x
  <2> HIDE DEF J
  <2> QED
    BY KeptElements
<1>2. list = [i \in DOMAIN joined |-> [id |-> joined[i], color |-> table[joined[i]].color,
                                       ready |-> table[joined[i]].ready]]
  BY DEF Roster
<1> HIDE DEF joined, list
<1>3. DOMAIN joined = 1 .. Len(joined) /\ Len(joined) \in Nat
      /\ \A i \in DOMAIN joined : joined[i] \in Clients
  BY <1>1
<1>4. \A i \in DOMAIN joined : list[i] \in Entries /\ list[i].id = joined[i]
  BY <1>2, <1>3 DEF Entries, Players
<1>5. list \in Seq(Entries) /\ DOMAIN list = DOMAIN joined
  BY <1>2, <1>3, <1>4
<1>6. ASSUME NEW c \in Clients, table[c].state = "Joined",
             \E i \in DOMAIN connections : connections[i] = c
      PROVE  Placed(list, IndexIn(list, c), c) /\ IndexIn(list, c) \in Nat
  <2>1. c \in J
    BY <1>6
  <2>2. \E i \in DOMAIN joined : joined[i] = c
    BY <1>1, <1>6, <2>1
  <2>3. \E i \in DOMAIN list : list[i].id = c
    BY <1>4, <1>5, <2>2
  <2>4. IndexIn(list, c) \in DOMAIN list /\ list[IndexIn(list, c)].id = c
    BY <2>3 DEF IndexIn
  <2> QED
    BY <1>3, <1>5, <2>4 DEF Placed
<1> QED
  BY <1>5, <1>6 DEF list

\* The news that everybody gets when the list changes.
LEMMA ListForEach ==
    ASSUME NEW connections \in Seq(Clients), NEW table \in [Clients -> Players],
           \A c \in Clients : table[c].state = "Joined"
                 => \E i \in DOMAIN connections : connections[i] = c
    PROVE  /\ ListFor(connections, table) \in [Clients -> Seq(News)]
           /\ \A c \in Clients :
                IF table[c].state = "Joined"
                  THEN \E m \in News : /\ ListFor(connections, table)[c] = <<m>>
                                            /\ m.type = "PlayerList"
                                       /\ m.list = Roster(connections, table)
                                       /\ Placed(m.list, m.index, c)
                  ELSE ListFor(connections, table)[c] = <<>>
<1> DEFINE list == Roster(connections, table)
<1>1. ListFor(connections, table) =
        [c \in Clients |-> IF table[c].state = "Joined" THEN <<PlayerList(list, c)>>
                           ELSE <<>>]
  BY DEF ListFor
<1>2. list \in Seq(Entries)
  BY RosterHas
<1>3. ASSUME NEW c \in Clients, table[c].state = "Joined"
      PROVE  /\ PlayerList(list, c) \in News /\ PlayerList(list, c).type = "PlayerList"
             /\ PlayerList(list, c).list = list /\ Placed(list, PlayerList(list, c).index, c)
  <2>1. Placed(list, IndexIn(list, c), c) /\ IndexIn(list, c) \in Nat
    BY <1>3, RosterHas
  <2> HIDE DEF list
  <2> QED
    BY <1>2, <2>1 DEF PlayerList, News
<1> HIDE DEF list
<1>4. \A c \in Clients : ListFor(connections, table)[c] =
        IF table[c].state = "Joined" THEN <<PlayerList(list, c)>> ELSE <<>>
  BY <1>1
<1>5. \A c \in Clients : ListFor(connections, table)[c] \in Seq(News)
  <2> SUFFICES ASSUME NEW c \in Clients PROVE ListFor(connections, table)[c] \in Seq(News)
    OBVIOUS
  <2> DEFINE m == PlayerList(list, c)
  <2>1. CASE table[c].state = "Joined"
    <3>1. m \in News /\ ListFor(connections, table)[c] = <<m>>
      BY <1>3, <1>4, <2>1
    <3> HIDE DEF m
    <3> QED
      BY <3>1
  <2>2. CASE table[c].state # "Joined"
    <3>1. ListFor(connections, table)[c] = <<>>
      BY <1>4, <2>2
    <3>2. <<>> \in Seq(News)
      OBVIOUS
    <3> QED
      BY <3>1, <3>2
  <2> QED
    BY <2>1, <2>2
<1>6. ListFor(connections, table) \in [Clients -> Seq(News)]
  BY <1>1, <1>5
<1> QED
  BY <1>3, <1>4, <1>6 DEF list

\* What a step of c leaves alone: the others, and what is on its way to those who wait.
OthersWait(c) ==
    \A d \in Clients \ {c} :
      /\ player'[d] = player[d] /\ client'[d].status = client[d].status
            /\ toServer'[d] = toServer[d]
      /\ ~IsJoined(d) /\ toClient[d] = <<>> => toClient'[d] = <<>>

\* If the one whose step it is stays in order, so does everybody.
LEMMA EntriesKept ==
    ASSUME EntriesOK, NEW c \in Clients, OthersWait(c), EntryOK(c)'
    PROVE  EntriesOK'
<1> SUFFICES ASSUME NEW d \in Clients, d # c PROVE EntryOK(d)'
  BY DEF EntriesOK
<1>1. EntryOK(d)
  BY DEF EntriesOK
<1> QED
  BY <1>1 DEF EntryOK, OthersWait, IsJoined, InMatch, Asking

\* Nothing is added to an empty stream without messages for it.
LEMMA NothingAdded ==
    ASSUME NEW msgs, NEW d \in Clients, msgs[d] = <<>>, toClient[d] = <<>>
    PROVE  Broadcast(msgs)[d] = <<>>
BY DEF Broadcast

\* Who is not joined gets no list.
LEMMA NoListFor ==
    ASSUME NEW connections, NEW table, NEW d \in Clients, table[d].state # "Joined"
    PROVE  ListFor(connections, table)[d] = <<>>
BY DEF ListFor

\* The facts about one client and its entry.
LEMMA EntryFacts ==
    ASSUME EntryInv, NEW c \in Clients
    PROVE  /\ player \in [Clients -> Players] /\ client \in [Clients -> Dialogs]
           /\ DOMAIN toServer = Clients /\ toServer[c] \in Seq(FromClient(c))
           /\ DOMAIN toClient = Clients /\ toClient[c] \in Seq(News)
           /\ EntryOK(c)
  BY DEF EntryInv, ArrivalInv, ConnectionsOK, RoomInv, TableInv, TableOK, MessagesOK, EntriesOK,
     NewsOK

\* A sequence and one more element.
LEMMA OneMore ==
    ASSUME NEW T, NEW q \in Seq(T), NEW m \in T
    PROVE  /\ q \o <<m>> \in Seq(T) /\ Len(q \o <<m>>) = Len(q) + 1 /\ Len(q) \in Nat
           /\ (q \o <<m>>)[Len(q) + 1] = m
           /\ \A i \in DOMAIN q : i \in DOMAIN (q \o <<m>>) /\ (q \o <<m>>)[i] = q[i]
           /\ \A i \in DOMAIN (q \o <<m>>) : \/ /\ i = Len(q) + 1
                                              /\ (q \o <<m>>)[i] = m
                                           \/ /\ i \in DOMAIN q
                                              /\ (q \o <<m>>)[i] = q[i]
<1> DEFINE r == q \o <<m>>
<1>1. /\ r \in Seq(T) /\ Len(r) = Len(q) + 1 /\ Len(q) \in Nat
      /\ DOMAIN r = 1 .. Len(q) + 1 /\ DOMAIN q = 1 .. Len(q)
      /\ r[Len(q) + 1] = m /\ \A i \in 1 .. Len(q) : r[i] = q[i]
  OBVIOUS
<1> HIDE DEF r
<1>2. \A i \in DOMAIN q : i \in DOMAIN r /\ r[i] = q[i]
  BY <1>1
<1>3. \A i \in DOMAIN r : i = Len(q) + 1 \/ i \in DOMAIN q
  BY <1>1
<1>4. ASSUME NEW i \in DOMAIN r
      PROVE  (i = Len(q) + 1 /\ r[i] = m) \/ (i \in DOMAIN q /\ r[i] = q[i])
  <2>1. CASE i \in DOMAIN q
    BY <1>2, <2>1
  <2>2. CASE i = Len(q) + 1
    <3>1. r[Len(q) + 1] = m
      BY <1>1
    <3> QED
      BY <2>2, <3>1
  <2> QED
    BY <1>3, <2>1, <2>2
<1> QED
  BY <1>1, <1>2, <1>4 DEF r

\* What a click changes.
LEMMA ClickEntry ==
    ASSUME EntryInv, NEW c \in Clients, Click(c) \/ Break(c) \/ Receive(c) \/ NoticeLoss(c)
    PROVE  EntriesOK'
<1>1. /\ player \in [Clients -> Players] /\ client \in [Clients -> Dialogs]
      /\ DOMAIN toServer = Clients /\ toServer[c] \in Seq(FromClient(c))
      /\ DOMAIN toClient = Clients /\ EntryOK(c)
  BY EntryFacts
<1>2. player' = player
  BY DEF Click, Connect, ClickReady, ClickAllow, SendChat, ClickStart, ClickLeave, Break, Receive,
     NoticeLoss, serverVars
<1>3. \A d \in Clients \ {c} : /\ client'[d] = client[d] /\ toServer'[d] = toServer[d]
                               /\ toClient'[d] = toClient[d]
  BY <1>1 DEF Click, Connect, ClickReady, ClickAllow, SendChat, ClickStart, ClickLeave, Break,
     Receive,
     NoticeLoss, Send
<1>4. OthersWait(c)
  BY <1>2, <1>3 DEF OthersWait
<1>5. IsJoined(c)' = IsJoined(c) /\ InMatch(c)' = InMatch(c)
  BY <1>2 DEF IsJoined, InMatch
<1>6. ASSUME NEW m \in FromClient(c), toServer'[c] = toServer[c] \o <<m>>
      PROVE  /\ Len(toServer'[c]) = Len(toServer[c]) + 1 /\ Len(toServer[c]) \in Nat
             /\ \A i \in DOMAIN toServer'[c] :
                  \/ toServer'[c][i] = m
                  \/ i \in DOMAIN toServer[c] /\ toServer'[c][i] = toServer[c][i]
  BY <1>1, <1>6, OneMore
<1>7. CASE Connect(c)
  <2> DEFINE m == Message(IF c \in TokenHolders THEN "HostConnect" ELSE "Connect")
  <2>1. m \in FromClient(c) /\ m.type \in InvitationTypes
    BY DEF Message, FromClient, InvitationTypes
  <2>2. toServer'[c] = toServer[c] \o <<m>> /\ toClient' = toClient
    BY <1>1, <1>7 DEF Connect, Send
  <2>3. client[c].status = "away" /\ client'[c].status = "connecting"
    BY <1>1, <1>7 DEF Connect, Dialogs
  <2> HIDE DEF m
  <2>4. toServer[c] = <<>> /\ ~InMatch(c) /\ ~IsJoined(c)
    BY <1>1, <2>3 DEF EntryOK, InMatch, IsJoined
  <2>5. toServer'[c] = <<m>>
    BY <2>2, <2>4
  <2>6. EntryOK(c)'
    BY <1>1, <1>2, <1>5, <2>1, <2>2, <2>3, <2>4, <2>5 DEF EntryOK, InvitationTypes
  <2> QED
    BY <1>1, <1>4, <2>6, EntriesKept DEF EntryInv, ArrivalInv
<1>8. ASSUME NEW m \in FromClient(c), m.type \notin InvitationTypes, client[c].status = "lobby",
             (client'[c].status = "lobby" /\ m.type # "Leave") \/ client'[c].status = "gone",
             toServer'[c] = toServer[c] \o <<m>>
      PROVE  EntriesOK'
  <2>1. IsJoined(c)
    BY <1>1, <1>8 DEF EntryOK
  <2>2. EntryOK(c)'
    BY <1>1, <1>2, <1>5, <1>6, <1>8, <2>1 DEF EntryOK
  <2> QED
    BY <1>1, <1>4, <2>2, EntriesKept DEF EntryInv, ArrivalInv
<1>9. CASE ClickReady(c) \/ ClickAllow(c) \/ SendChat(c) \/ ClickStart(c) \/ ClickLeave(c)
  <2>1. \E m \in FromClient(c) :
          /\ m.type \notin InvitationTypes
          /\ (client'[c].status = "lobby" /\ m.type # "Leave") \/ client'[c].status = "gone"
          /\ toServer'[c] = toServer[c] \o <<m>>
    <3>1. CASE ClickReady(c)
      <4> DEFINE m == Update("ReadyUp", ~client[c].ready)
      <4>1. m \in FromClient(c) /\ m.type = "ReadyUp"
        BY DEF Update, FromClient
      <4>2. toServer'[c] = toServer[c] \o <<m>> /\ client'[c].status = "lobby"
        BY <1>1, <3>1 DEF ClickReady, InLobby, Send, Dialogs
      <4> HIDE DEF m
      <4> QED
        BY <4>1, <4>2 DEF InvitationTypes
    <3>2. CASE ClickAllow(c)
      <4> DEFINE m == Update("SettingsUpdate", ~client[c].allow)
      <4>1. m \in FromClient(c) /\ m.type = "SettingsUpdate"
        BY DEF Update, FromClient
      <4>2. toServer'[c] = toServer[c] \o <<m>> /\ client'[c].status = "lobby"
        BY <1>1, <3>2 DEF ClickAllow, InLobby, Send, Dialogs
      <4> HIDE DEF m
      <4> QED
        BY <4>1, <4>2 DEF InvitationTypes
    <3>3. ASSUME NEW t \in {"Chat", "StartGame", "Leave"}
          PROVE  Message(t) \in FromClient(c) /\ Message(t).type = t
      BY DEF Message, FromClient
    <3>4. CASE SendChat(c)
      <4> DEFINE m == Message("Chat")
      <4>1. m \in FromClient(c) /\ m.type = "Chat"
        BY <3>3
      <4>2. toServer'[c] = toServer[c] \o <<m>> /\ client'[c].status = "lobby"
        BY <1>1, <3>4 DEF SendChat, InLobby, Send, Dialogs
      <4> HIDE DEF m
      <4> QED
        BY <4>1, <4>2 DEF InvitationTypes
    <3>5. CASE ClickStart(c)
      <4> DEFINE m == Message("StartGame")
      <4>1. m \in FromClient(c) /\ m.type = "StartGame"
        BY <3>3
      <4>2. toServer'[c] = toServer[c] \o <<m>> /\ client'[c].status = "lobby"
        BY <1>1, <3>5 DEF ClickStart, InLobby, Send, Dialogs
      <4> HIDE DEF m
      <4> QED
        BY <4>1, <4>2 DEF InvitationTypes
    <3>6. CASE ClickLeave(c)
      <4> DEFINE m == Message("Leave")
      <4>1. m \in FromClient(c) /\ m.type = "Leave"
        BY <3>3
      <4>2. toServer'[c] = toServer[c] \o <<m>> /\ client'[c].status = "gone"
        BY <1>1, <3>6 DEF ClickLeave, InLobby, Send, Dialogs
      <4> HIDE DEF m
      <4> QED
        BY <4>1, <4>2 DEF InvitationTypes
    <3> QED
      BY <1>9, <3>1, <3>2, <3>4, <3>5, <3>6
  <2>2. client[c].status = "lobby"
    BY <1>9 DEF ClickReady, ClickAllow, SendChat, ClickStart, ClickLeave, InLobby
  <2> QED
    BY <1>8, <2>1, <2>2
<1>10. CASE Break(c)
  <2>1. client'[c].status = "gone" /\ toServer'[c] = <<>> /\ toClient'[c] = <<>>
    BY <1>1, <1>10 DEF Break, Dialogs
  <2>2. EntryOK(c)'
    BY <1>1, <1>2, <1>5, <2>1 DEF EntryOK
  <2> QED
    BY <1>1, <1>4, <2>2, EntriesKept DEF EntryInv, ArrivalInv
<1>11. CASE NoticeLoss(c)
  <2>1. client'[c].status = "gone" /\ toServer'[c] = toServer[c]
        /\ client[c].status \in {"connecting", "lobby"}
    BY <1>1, <1>11 DEF NoticeLoss, Dialogs
  <2>2. EntryOK(c)'
    BY <1>1, <1>2, <1>5, <2>1 DEF EntryOK, Asking
  <2> QED
    BY <1>1, <1>4, <2>2, EntriesKept DEF EntryInv, ArrivalInv
<1>12. CASE Receive(c)
  <2>1. client[c].status \in {"connecting", "lobby"} /\ toClient[c] # <<>>
    BY <1>12 DEF Receive
  <2>2. IsJoined(c)
    BY <1>1, <2>1 DEF EntryOK
  <2>3. client'[c].status \in {"connecting", "lobby", "gone", "game"}
    <3>1. Head(toClient[c]) \in News
      BY <2>1, EntryFacts
    <3>2. Head(toClient[c]).type \in {"Welcome", "SettingsUpdateBroadcast", "PlayerList",
            "ChatBroadcast", "GameAborted", "StartGameBroadcast"}
      BY <3>1 DEF News
    <3> QED
      BY <1>1, <1>12, <2>1, <3>2 DEF Receive, Dialogs
  <2> DEFINE m == Update("SettingsUpdate", ~client[c].allow)
  <2>4. m \in FromClient(c) /\ m.type = "SettingsUpdate"
    BY DEF Update, FromClient
  <2>5. toServer'[c] = toServer[c] \/ toServer'[c] = toServer[c] \o <<m>>
    BY <1>1, <1>12 DEF Receive, Send
  <2> HIDE DEF m
  <2>6. \A i \in DOMAIN toServer'[c] :
                  \/ toServer'[c][i] = m
                  \/ i \in DOMAIN toServer[c] /\ toServer'[c][i] = toServer[c][i]
    BY <1>6, <2>4, <2>5
  <2>7. EntryOK(c)'
    BY <1>1, <1>2, <1>5, <2>1, <2>2, <2>3, <2>4, <2>6 DEF EntryOK, InvitationTypes
  <2> QED
    BY <1>1, <1>4, <2>7, EntriesKept DEF EntryInv, ArrivalInv
<1> QED
  BY <1>7, <1>9, <1>10, <1>11, <1>12 DEF Click

\* What taking a message leaves.
LEMMA TakenEntry ==
    ASSUME EntryInv, NEW c \in Clients, NEW type, Handle(c, type)
    PROVE  /\ toServer[c] # <<>> /\ Head(toServer[c]) \in FromClient(c)
                /\ Head(toServer[c]).type = type
           /\ toServer'[c] \in Seq(FromClient(c)) /\ Len(toServer'[c]) = Len(toServer[c]) - 1
           /\ \A i \in DOMAIN toServer'[c] :
                \E j \in DOMAIN toServer[c] : toServer'[c][i] = toServer[c][j]
           /\ 1 \in DOMAIN toServer[c] /\ toServer[c][1].type = type
           /\ \A d \in Clients \ {c} : toServer'[d] = toServer[d]
           /\ InMatch(c) /\ Asking(c) /\ server = "setup"
<1>1. /\ DOMAIN toServer = Clients /\ toServer[c] \in Seq(FromClient(c))
  BY EntryFacts
<1>2. toServer[c] # <<>> /\ Head(toServer[c]).type = type
      /\ toServer' = [toServer EXCEPT ![c] = Tail(@)]
      /\ InMatch(c) /\ server = "setup"
  BY DEF Handle
<1> DEFINE q == toServer[c]
           r == toServer'[c]
<1>3. r = Tail(q) /\ q \in Seq(FromClient(c)) /\ q # <<>>
  BY <1>1, <1>2
<1> HIDE DEF q, r
<1>4. /\ Head(q) \in FromClient(c) /\ Head(q) = q[1] /\ 1 \in DOMAIN q
      /\ r \in Seq(FromClient(c)) /\ Len(r) = Len(q) - 1 /\ Len(q) \in Nat
      /\ DOMAIN r = 1 .. Len(q) - 1 /\ DOMAIN q = 1 .. Len(q)
      /\ \A i \in 1 .. Len(q) - 1 : r[i] = q[i + 1]
  BY <1>3
<1>5. \A i \in DOMAIN r : i + 1 \in DOMAIN q /\ r[i] = q[i + 1]
  BY <1>4
<1>6. \A d \in Clients \ {c} : toServer'[d] = toServer[d]
  BY <1>1, <1>2
<1> QED
  BY <1>2, <1>4, <1>5, <1>6 DEF q, r, Asking

\* A message that lets nobody in is from a joined player.
LEMMA SenderJoined ==
    ASSUME EntryInv, NEW c \in Clients, NEW type, Handle(c, type)
    PROVE  IsJoined(c) <=> type \notin InvitationTypes
<1>1. EntryOK(c)
  BY EntryFacts
<1> QED
  BY <1>1, TakenEntry DEF EntryOK

\* The others in a handler that only writes to joined players.
LEMMA OthersInHandler ==
    ASSUME EntryInv, NEW c \in Clients, NEW type, Handle(c, type),
           \A d \in Clients \ {c} : player'[d] = player[d] /\ client'[d].status = client[d].status,
           NEW msgs, toClient' = Broadcast(msgs) \/ toClient' = toClient,
           \A d \in Clients \ {c} : ~IsJoined(d) => msgs[d] = <<>>
    PROVE  OthersWait(c)
  BY TakenEntry, NothingAdded DEF OthersWait

\* The same, from the whole invariant.
LEMMA EntriesKeptHandler ==
    ASSUME EntryInv, NEW c \in Clients, OthersWait(c), EntryOK(c)'
    PROVE  EntriesOK'
  BY EntriesKept DEF EntryInv, ArrivalInv

\* Who joins has sent nothing but the message it came with.
LEMMA JoinEntry ==
    ASSUME EntryInv, NEW c \in Clients, HandleHostConnect(c) \/ HandleConnect(c)
    PROVE  EntriesOK'
<1>1. /\ player \in [Clients -> Players] /\ client \in [Clients -> Dialogs] /\ EntryOK(c)
  BY EntryFacts
<1>2. PICK type \in InvitationTypes :
        Handle(c, type) /\ (type = "HostConnect" <=> HandleHostConnect(c))
  BY DEF HandleHostConnect, HandleConnect, InvitationTypes, Handle
<1>3. ~IsJoined(c)
  BY <1>2, SenderJoined
<1>4. Len(toServer[c]) <= 1 /\ toServer'[c] \in Seq(FromClient(c))
      /\ Len(toServer'[c]) = Len(toServer[c]) - 1 /\ Len(toServer[c]) \in Nat
      /\ client[c].status # "away"
  <2>1. toServer[c] \in Seq(FromClient(c))
    BY EntryFacts
  <2> QED
    BY <1>1, <1>2, <1>3, <2>1, TakenEntry DEF EntryOK
<1>5. DOMAIN toServer'[c] = {}
  BY <1>4
<1>6. client' = client /\ \A d \in Clients \ {c} : player'[d] = player[d]
  BY <1>1 DEF HandleHostConnect, HandleConnect
<1>7. IsJoined(c)' /\ (c \in TokenHolders => player'[c].isHost)
  <2>1. CASE HandleHostConnect(c)
    BY <1>1, <2>1 DEF HandleHostConnect, IsJoined, Players
  <2>2. CASE HandleConnect(c)
    <3>1. Handle(c, "Connect")
      BY <2>2 DEF HandleConnect
    <3>2. c \notin TokenHolders
      <4> DEFINE m == Head(toServer[c])
      <4>1. m \in FromClient(c) /\ m.type = "Connect"
        BY <3>1, TakenEntry
      <4> HIDE DEF m
      <4> QED
        BY <4>1 DEF FromClient
    <3>3. PICK color \in Colors :
                 player' = [player EXCEPT ![c] = [player[c] EXCEPT !.state = "Joined",
                       !.color = color]]
      BY <2>2 DEF HandleConnect
    <3> QED
      BY <1>1, <3>2, <3>3 DEF IsJoined, Players
  <2> QED
    BY <2>1, <2>2
<1> DEFINE lists == ListFor(order, player')
           msgs == [d \in Clients |->
             (IF d = c THEN <<Message("Welcome"), Update("SettingsUpdateBroadcast", allow)>>
                       ELSE <<>>) \o lists[d]]
<1>8. toClient' = Broadcast(msgs)
  BY DEF HandleHostConnect, HandleConnect, WelcomeAndJoin
<1>9. ASSUME NEW d \in Clients \ {c}, ~IsJoined(d) PROVE msgs[d] = <<>>
  <2>1. player'[d].state # "Joined"
    BY <1>6, <1>9 DEF IsJoined
  <2>2. lists[d] = <<>>
    BY <2>1 DEF ListFor
  <2> HIDE DEF lists
  <2> QED
    BY <2>2
<1> HIDE DEF msgs
<1>10. OthersWait(c)
  BY <1>2, <1>6, <1>8, <1>9, OthersInHandler
<1>11. EntryOK(c)'
  BY <1>4, <1>5, <1>6, <1>7 DEF EntryOK
<1> QED
  BY <1>10, <1>11, EntriesKeptHandler

\* Who goes: its entry is empty, and its client is gone.
LEMMA GoneEntry ==
    ASSUME EntryInv, NEW c \in Clients, Reject(c) \/ HandleLeave(c) \/ TimeOut(c)
    PROVE  EntriesOK'
<1>1. /\ player \in [Clients -> Players] /\ client \in [Clients -> Dialogs] /\ EntryOK(c)
      /\ DOMAIN toServer = Clients /\ DOMAIN toClient = Clients
            /\ toServer[c] \in Seq(FromClient(c))
  BY EntryFacts
<1>2. player' = [player EXCEPT ![c] = NoPlayer]
  BY DEF Reject, HandleLeave, TimeOut
<1>3. client'[c].status = "gone" /\ \A d \in Clients \ {c} : client'[d] = client[d]
  <2>1. CASE Reject(c) \/ TimeOut(c)
    BY <1>1, <2>1 DEF Reject, TimeOut, Dialogs
  <2>2. CASE HandleLeave(c)
    <3>1. Handle(c, "Leave") /\ client' = client
      BY <2>2 DEF HandleLeave
    <3>2. client[c].status = "gone"
      BY <1>1, <3>1, TakenEntry DEF EntryOK
    <3> QED
      BY <3>1, <3>2
  <2> QED
    BY <2>1, <2>2
<1>4. /\ ~IsJoined(c)' /\ ~InMatch(c)' /\ ~player'[c].ready
      /\ \A d \in Clients \ {c} : player'[d] = player[d]
  BY <1>1, <1>2 DEF NoPlayer, IsJoined, InMatch
<1>5. EntryOK(c)'
  BY <1>3, <1>4 DEF EntryOK, Asking
<1>6. OthersWait(c)
  <2>1. CASE Reject(c)
    <3>1. PICK type : Handle(c, type)
      BY <2>1 DEF Reject
    <3>2. toClient' = toClient
      BY <2>1 DEF Reject
    <3> QED
      BY <1>3, <1>4, <3>1, <3>2, TakenEntry DEF OthersWait
  <2>2. CASE HandleLeave(c)
    <3> DEFINE lists == ListFor(order', player')
               msgs == [d \in Clients |->
                 IF ~IsJoined(d) \/ d = c THEN <<>>
                 ELSE IF player[c].isHost THEN <<Message("GameAborted")>> ELSE lists[d]]
    <3>1. Handle(c, "Leave") /\ toClient' = Broadcast(msgs)
      BY <2>2 DEF HandleLeave
    <3>2. \A d \in Clients \ {c} : ~IsJoined(d) => msgs[d] = <<>>
      OBVIOUS
    <3> HIDE DEF msgs
    <3> QED
      BY <1>3, <1>4, <3>1, <3>2, OthersInHandler
  <2>3. CASE TimeOut(c)
    <3> DEFINE lists == ListFor(order', player')
    <3>1. toClient' = [d \in Clients |-> IF d = c THEN <<>>
                                       ELSE IF IsJoined(c) /\ IsJoined(d)
                                         THEN toClient[d] \o lists[d]
                                       ELSE toClient[d]]
      BY <2>3 DEF TimeOut
    <3> HIDE DEF lists
    <3>2. \A d \in Clients \ {c} : toServer'[d] = toServer[d]
      BY <1>1, <2>3 DEF TimeOut
    <3>3. \A d \in Clients \ {c} : ~IsJoined(d) => toClient'[d] = toClient[d]
      BY <3>1
    <3> QED
      BY <1>3, <1>4, <3>2, <3>3 DEF OthersWait
  <2> QED
    BY <2>1, <2>2, <2>3
<1> QED
  BY <1>5, <1>6, EntriesKeptHandler

\* Who is accepted waits, and has sent at most that message.
LEMMA AcceptEntry ==
    ASSUME EntryInv, NEW c \in Clients, Accept(c)
    PROVE  EntriesOK'
<1>1. player \in [Clients -> Players] /\ EntryOK(c)
  BY EntryFacts
<1>2. /\ player' = [player EXCEPT ![c] = NewPlayer] /\ UNCHANGED <<client, toServer, toClient>>
      /\ client[c].status = "connecting" /\ ~InMatch(c)
  BY DEF Accept
<1>3. /\ ~IsJoined(c)' /\ ~player'[c].ready /\ ~IsJoined(c)
      /\ \A d \in Clients \ {c} : player'[d] = player[d]
  BY <1>1, <1>2 DEF NewPlayer, NoPlayer, IsJoined, InMatch
<1>4. OthersWait(c)
  BY <1>2, <1>3 DEF OthersWait
<1>5. EntryOK(c)'
  BY <1>1, <1>2, <1>3 DEF EntryOK, Asking
<1> QED
  BY <1>4, <1>5, EntriesKeptHandler

\* The handlers for joined players.
LEMMA JoinedEntry ==
    ASSUME EntryInv, NEW c \in Clients, HandleSettingsUpdate(c) \/ HandleReadyUp(c) \/ HandleChat(c)
    PROVE  EntriesOK'
<1>1. /\ player \in [Clients -> Players] /\ EntryOK(c)
  BY EntryFacts
<1>2. PICK type : Handle(c, type) /\ type \notin InvitationTypes
  BY DEF HandleSettingsUpdate, HandleReadyUp, HandleChat, InvitationTypes
<1>3. IsJoined(c)
  BY <1>2, SenderJoined
<1>4. /\ client' = client /\ \A d \in Clients \ {c} : player'[d] = player[d]
      /\ player'[c].state = player[c].state /\ player'[c].isHost = player[c].isHost
  BY <1>1 DEF HandleSettingsUpdate, HandleReadyUp, HandleChat, Players
<1>5. EntryOK(c)'
  BY <1>1, <1>2, <1>3, <1>4, TakenEntry DEF EntryOK, IsJoined, InMatch
<1>6. \E msgs : /\ toClient' = Broadcast(msgs)
                /\ \A d \in Clients \ {c} : ~IsJoined(d) => msgs[d] = <<>>
  <2>1. CASE HandleSettingsUpdate(c)
    <3> DEFINE msgs == [d \in Clients |->
                 IF IsJoined(d) /\ ~player[d].isHost
                   THEN <<Update("SettingsUpdateBroadcast", allow')>> ELSE <<>>]
    <3>1. toClient' = Broadcast(msgs)
      BY <2>1 DEF HandleSettingsUpdate
    <3>2. \A d \in Clients \ {c} : ~IsJoined(d) => msgs[d] = <<>>
      OBVIOUS
    <3> HIDE DEF msgs
    <3> QED
      BY <3>1, <3>2
  <2>2. CASE HandleReadyUp(c)
    <3> DEFINE msgs == ListFor(order, player')
    <3>1. toClient' = Broadcast(msgs)
      BY <2>2 DEF HandleReadyUp
    <3>2. \A d \in Clients \ {c} : ~IsJoined(d) => msgs[d] = <<>>
      BY <1>4 DEF ListFor, IsJoined
    <3> HIDE DEF msgs
    <3> QED
      BY <3>1, <3>2
  <2>3. CASE HandleChat(c)
    <3> DEFINE msgs == [d \in Clients |->
                 IF IsJoined(d) THEN <<Chat(c, IndexIn(Roster(order, player), c))>> ELSE <<>>]
    <3>1. toClient' = Broadcast(msgs)
      BY <2>3 DEF HandleChat
    <3>2. \A d \in Clients \ {c} : ~IsJoined(d) => msgs[d] = <<>>
      OBVIOUS
    <3> HIDE DEF msgs
    <3> QED
      BY <3>1, <3>2
  <2> QED
    BY <2>1, <2>2, <2>3
<1>7. PICK msgs : /\ toClient' = Broadcast(msgs)
                  /\ \A d \in Clients \ {c} : ~IsJoined(d) => msgs[d] = <<>>
  BY <1>6
<1>8. OthersWait(c)
  BY <1>2, <1>4, <1>7, OthersInHandler
<1> QED
  BY <1>5, <1>8, EntriesKeptHandler

\* The start of the game: who has not joined is gone.
LEMMA StartEntry ==
    ASSUME EntryInv, NEW c \in Clients, HandleStartGame(c)
    PROVE  EntriesOK'
<1>1. Handle(c, "StartGame") /\ player' = player
  BY DEF HandleStartGame
<1>2. ASSUME NEW d \in Clients PROVE EntryOK(d)'
  <2>1. EntryOK(d) /\ client \in [Clients -> Dialogs] /\ DOMAIN toServer = Clients
    BY EntryFacts
  <2>2. \A i \in DOMAIN toServer'[d] :
          \E j \in DOMAIN toServer[d] : toServer'[d][i] = toServer[d][j]
    BY <1>1, TakenEntry
  <2>3. client' = [x \in Clients |-> IF IsJoined(x) \/ client[x].status = "away" THEN client[x]
                                    ELSE [client[x] EXCEPT !.status = "gone"]]
    BY DEF HandleStartGame
  <2>4. IsJoined(d)' = IsJoined(d) /\ InMatch(d)' = InMatch(d)
    BY <1>1 DEF IsJoined, InMatch
  <2>5. CASE IsJoined(d)
    <3>1. client'[d] = client[d] /\ client[d].status # "away"
      BY <2>1, <2>3, <2>5 DEF EntryOK, IsJoined, InMatch
    <3> QED
      BY <2>1, <2>2, <2>4, <2>5, <3>1, <1>1 DEF EntryOK
  <2>6. CASE ~IsJoined(d) /\ client[d].status = "away"
    <3>1. client'[d] = client[d] /\ toServer[d] = <<>> /\ d # c
      BY <2>1, <2>3, <2>6, <1>1, TakenEntry DEF EntryOK
    <3>2. toServer'[d] = toServer[d]
      BY <3>1, <1>1, TakenEntry
    <3>3. toClient[d] = <<>>
      BY <2>1, <2>6 DEF EntryOK
    <3> DEFINE msgs == [x \in Clients |->
                 IF IsJoined(x) THEN <<Message("StartGameBroadcast")>> ELSE <<>>]
    <3>4. toClient' = Broadcast(msgs) /\ msgs[d] = <<>>
      BY <2>6 DEF HandleStartGame
    <3> HIDE DEF msgs
    <3>5. toClient'[d] = <<>>
      BY <3>3, <3>4, NothingAdded
    <3> QED
      BY <2>1, <2>4, <2>6, <3>1, <3>2, <3>5, <1>1 DEF EntryOK, Asking
  <2>7. CASE ~IsJoined(d) /\ client[d].status # "away"
    <3>1. client'[d].status = "gone"
      BY <2>1, <2>3, <2>7 DEF Dialogs
    <3>2. toServer'[d] = toServer[d]
      <4>1. IsJoined(c)
        BY <1>1, SenderJoined DEF InvitationTypes
      <4> QED
        BY <2>7, <4>1, <1>1, TakenEntry
    <3>3. InMatch(d)' => Asking(d)
      BY <2>4 DEF Asking
    <3> QED
      BY <2>1, <2>4, <2>7, <3>1, <3>2, <3>3, <1>1 DEF EntryOK, Asking
  <2> QED
    BY <2>5, <2>6, <2>7
<1> QED
  BY <1>2 DEF EntriesOK

\* Every step keeps everybody in order.
LEMMA EntriesStep == EntryInv /\ [Next]_vars => EntriesOK'
<1> SUFFICES ASSUME EntryInv, [Next]_vars PROVE EntriesOK'
  OBVIOUS
<1>1. CASE UNCHANGED vars
  BY <1>1 DEF vars, EntryInv, ArrivalInv, EntriesOK, EntryOK, IsJoined, InMatch, Asking
<1>2. CASE Next
  BY <1>2, ClickEntry, JoinEntry, GoneEntry, AcceptEntry, JoinedEntry, StartEntry DEF Next, Handler
<1> QED
  BY <1>1, <1>2

\* A broadcast of messages leaves streams of messages.
LEMMA BroadcastType ==
    ASSUME EntryInv, NEW msgs \in [Clients -> Seq(News)]
    PROVE  Broadcast(msgs) \in [Clients -> Seq(News)]
<1>1. \A d \in Clients : toClient[d] \in Seq(News) /\ msgs[d] \in Seq(News)
  BY DEF EntryInv, NewsOK
<1>2. \A d \in Clients : toClient[d] \o msgs[d] \in Seq(News)
  BY <1>1
<1>3. <<>> \in Seq(News)
  OBVIOUS
<1> QED
  BY <1>2, <1>3 DEF Broadcast

\* The messages without contents, and those with one.
LEMMA NewsTypes ==
    /\ \A type \in {"Welcome", "GameAborted", "StartGameBroadcast"} :
         Message(type) \in News /\ Message(type).type = type
    /\ \A on \in BOOLEAN : /\ Update("SettingsUpdateBroadcast", on) \in News
                           /\ Update("SettingsUpdateBroadcast", on).type = "SettingsUpdateBroadcast"
                           /\ Update("SettingsUpdateBroadcast", on).on = on
    /\ \A c \in Clients, i \in Nat : /\ Chat(c, i) \in News /\ Chat(c, i).type = "ChatBroadcast"
                                     /\ Chat(c, i).from = c /\ Chat(c, i).index = i
    /\ <<>> \in Seq(News)
    /\ \A m \in News : <<m>> \in Seq(News)
<1>1. \A type \in {"Welcome", "GameAborted", "StartGameBroadcast"} :
         Message(type) \in News /\ Message(type).type = type
  BY DEF Message, News
<1>2. \A on \in BOOLEAN : /\ Update("SettingsUpdateBroadcast", on) \in News
                           /\ Update("SettingsUpdateBroadcast", on).type = "SettingsUpdateBroadcast"
                           /\ Update("SettingsUpdateBroadcast", on).on = on
  BY DEF Update, News
<1>3. \A c \in Clients, i \in Nat : /\ Chat(c, i) \in News /\ Chat(c, i).type = "ChatBroadcast"
                                     /\ Chat(c, i).from = c /\ Chat(c, i).index = i
  BY DEF Chat, News
<1>4. <<>> \in Seq(News) /\ \A m \in News : <<m>> \in Seq(News)
  OBVIOUS
<1> QED
  BY <1>1, <1>2, <1>3, <1>4

\* Who is joined is in the vector, before and after a step.
LEMMA JoinedInOrder ==
    ASSUME EntryInv
    PROVE  /\ order \in Seq(Clients) /\ player \in [Clients -> Players]
           /\ \A c \in Clients : player[c].state = "Joined" => \E i \in DOMAIN order : order[i] = c
BY DEF EntryInv, ArrivalInv, ConnectionsOK, RoomInv, TableInv, TableOK, InMatch

\* The same after a step.
LEMMA JoinedInOrderNext ==
    ASSUME EntryInv, [Next]_vars
    PROVE  /\ order' \in Seq(Clients) /\ player' \in [Clients -> Players]
           /\ \A c \in Clients : player'[c].state = "Joined"
                 => \E i \in DOMAIN order' : order'[i] = c
<1>1. player' \in [Clients -> Players]
  BY TableStep DEF EntryInv, TableInv, TableOK
<1>2. /\ order' \in Seq(Clients)
      /\ (\A c \in Clients : InMatch(c) <=> \E i \in DOMAIN order : order[i] = c)'
  BY OrderStep
<1>3. /\ order' \in Seq(Clients)
      /\ \A c \in Clients : player'[c].state # "None" <=> \E i \in DOMAIN order' : order'[i] = c
  BY <1>2 DEF InMatch
<1> QED
  BY <1>1, <1>3

\* The lists of the state after a step.
LEMMA NextLists ==
    ASSUME EntryInv, [Next]_vars
    PROVE  /\ ListFor(order', player') \in [Clients -> Seq(News)]
           /\ \A c \in Clients :
                IF player'[c].state = "Joined"
                  THEN \E m \in News : /\ ListFor(order', player')[c] = <<m>>
                                            /\ m.type = "PlayerList"
                                       /\ m.list = Roster(order', player')
                                       /\ Placed(m.list, m.index, c)
                  ELSE ListFor(order', player')[c] = <<>>
<1> DEFINE o == order'
           p == player'
<1>1. /\ o \in Seq(Clients) /\ p \in [Clients -> Players]
      /\ \A c \in Clients : p[c].state = "Joined" => \E i \in DOMAIN o : o[i] = c
  BY JoinedInOrderNext
<1> HIDE DEF o, p
<1>2. /\ ListFor(o, p) \in [Clients -> Seq(News)]
      /\ \A c \in Clients :
                IF p[c].state = "Joined"
                  THEN \E m \in News : /\ ListFor(o, p)[c] = <<m>> /\ m.type = "PlayerList"
                                       /\ m.list = Roster(o, p)
                                       /\ Placed(m.list, m.index, c)
                  ELSE ListFor(o, p)[c] = <<>>
  BY <1>1, ListForEach
<1> QED
  BY <1>2 DEF o, p

\* What the handlers write.
LEMMA WelcomeMessages ==
    ASSUME EntryInv, [Next]_vars, NEW c \in Clients, HandleHostConnect(c) \/ HandleConnect(c)
    PROVE  LET lists == ListFor(order', player')
               msgs == [d \in Clients |->
                 (IF d = c THEN <<Message("Welcome"), Update("SettingsUpdateBroadcast", allow)>>
                           ELSE <<>>) \o lists[d]]
           IN  toClient' = Broadcast(msgs) /\ msgs \in [Clients -> Seq(News)]
<1> DEFINE lists == ListFor(order', player')
           w == <<Message("Welcome"), Update("SettingsUpdateBroadcast", allow)>>
           msgs == [d \in Clients |-> (IF d = c THEN w ELSE <<>>) \o lists[d]]
<1>1. toClient' = Broadcast(msgs)
  BY DEF HandleHostConnect, HandleConnect, WelcomeAndJoin
<1>2. allow \in BOOLEAN
  BY DEF EntryInv, ArrivalInv, ConnectionsOK
<1>3. w \in Seq(News)
  BY <1>2, NewsTypes
<1>4. \A d \in Clients : lists[d] \in Seq(News)
  BY NextLists
<1>5. <<>> \in Seq(News)
  OBVIOUS
<1> HIDE DEF lists, w
<1>6. ASSUME NEW d \in Clients PROVE (IF d = c THEN w ELSE <<>>) \o lists[d] \in Seq(News)
  <2>1. (IF d = c THEN w ELSE <<>>) \in Seq(News)
    BY <1>3, <1>5
  <2> DEFINE q == IF d = c THEN w ELSE <<>>
  <2> HIDE DEF q
  <2>2. q \o lists[d] \in Seq(News)
    BY <1>4, <2>1 DEF q
  <2> QED
    BY <2>2 DEF q
<1>7. msgs \in [Clients -> Seq(News)]
  BY <1>6
<1> QED
  BY <1>1, <1>7 DEF lists, w

\* HandleSettingsUpdate writes the new setting to all but the host.
LEMMA SettingsMessages ==
    ASSUME EntryInv, NEW c \in Clients, HandleSettingsUpdate(c)
    PROVE  /\ allow' \in BOOLEAN /\ allow' = Head(toServer[c]).on
           /\ LET msgs == [d \in Clients |->
                    IF IsJoined(d) /\ ~player[d].isHost
                      THEN <<Update("SettingsUpdateBroadcast", allow')>> ELSE <<>>]
              IN  toClient' = Broadcast(msgs) /\ msgs \in [Clients -> Seq(News)]
<1>1. Head(toServer[c]) \in FromClient(c) /\ Head(toServer[c]).type = "SettingsUpdate"
  BY TakenEntry DEF HandleSettingsUpdate
<1> DEFINE m == Head(toServer[c])
<1>2. m.on \in BOOLEAN
  <2> HIDE DEF m
  <2> QED
    BY <1>1 DEF m, FromClient
<1>3. allow' = m.on
  BY DEF HandleSettingsUpdate
<1> DEFINE on == allow'
           u == Update("SettingsUpdateBroadcast", on)
<1>4. u \in News
  BY <1>2, <1>3, NewsTypes
<1> DEFINE msgs == [d \in Clients |-> IF IsJoined(d) /\ ~player[d].isHost THEN <<u>> ELSE <<>>]
<1>5. toClient' = Broadcast(msgs)
  BY DEF HandleSettingsUpdate
<1> HIDE DEF u
<1>6. msgs \in [Clients -> Seq(News)]
  BY <1>4, NewsTypes
<1> QED
  BY <1>2, <1>3, <1>5, <1>6 DEF u

\* HandleChat writes the same message to everybody; it names its sender.
LEMMA ChatMessages ==
    ASSUME EntryInv, NEW c \in Clients, HandleChat(c)
    PROVE  LET list == Roster(order, player)
               m == Chat(c, IndexIn(list, c))
               msgs == [d \in Clients |-> IF IsJoined(d) THEN <<m>> ELSE <<>>]
           IN  /\ toClient' = Broadcast(msgs) /\ msgs \in [Clients -> Seq(News)]
               /\ m \in News /\ m.type = "ChatBroadcast"
               /\ Attributed(list, m)
<1> DEFINE list == Roster(order, player)
           i == IndexIn(list, c)
           m == Chat(c, i)
           msgs == [d \in Clients |-> IF IsJoined(d) THEN <<m>> ELSE <<>>]
<1>1. IsJoined(c)
  BY SenderJoined DEF HandleChat, InvitationTypes
<1>2. Placed(list, i, c) /\ i \in Nat
  BY <1>1, RosterHas, JoinedInOrder DEF IsJoined
<1>3. toClient' = Broadcast(msgs)
  BY DEF HandleChat
<1> HIDE DEF i, list
<1>4. m \in News /\ m.type = "ChatBroadcast" /\ m.from = c /\ m.index = i
  BY <1>2, NewsTypes
<1> HIDE DEF m
<1>5. msgs \in [Clients -> Seq(News)]
  BY <1>4, NewsTypes
<1> QED
  BY <1>2, <1>3, <1>4, <1>5 DEF m, i, list, Attributed, Placed

\* Every step leaves streams of messages.
LEMMA NewsStep ==
    ASSUME EntryInv, [Next]_vars
    PROVE  NewsOK'
<1>1. toClient \in [Clients -> Seq(News)]
  BY DEF EntryInv, NewsOK
<1> SUFFICES toClient' \in [Clients -> Seq(News)]
  BY DEF NewsOK
<1>2. CASE UNCHANGED toClient
  BY <1>1, <1>2
<1>3. ASSUME NEW c \in Clients, Break(c) \/ ClickLeave(c) PROVE toClient' \in [Clients -> Seq(News)]
  BY <1>1, <1>3, NewsTypes DEF Break, ClickLeave
<1>4. ASSUME NEW c \in Clients, Receive(c) PROVE toClient' \in [Clients -> Seq(News)]
  <2>1. toClient' = [toClient EXCEPT ![c] = Tail(@)] /\ toClient[c] # <<>>
        /\ toClient[c] \in Seq(News)
    BY <1>1, <1>4 DEF Receive
  <2> DEFINE q == toClient[c]
  <2> HIDE DEF q
  <2>2. Tail(q) \in Seq(News)
    BY <2>1 DEF q
  <2> QED
    BY <1>1, <2>1, <2>2 DEF q
<1>5. ASSUME NEW c \in Clients, HandleHostConnect(c) \/ HandleConnect(c)
      PROVE  toClient' \in [Clients -> Seq(News)]
  BY <1>5, WelcomeMessages, BroadcastType
<1>6. ASSUME NEW c \in Clients, HandleSettingsUpdate(c) PROVE toClient' \in [Clients -> Seq(News)]
  BY <1>6, SettingsMessages, BroadcastType
<1>7. ASSUME NEW c \in Clients, HandleReadyUp(c) PROVE toClient' \in [Clients -> Seq(News)]
  <2>1. toClient' = Broadcast(ListFor(order', player'))
    BY <1>7 DEF HandleReadyUp
  <2> QED
    BY <2>1, NextLists, BroadcastType
<1>8. ASSUME NEW c \in Clients, HandleChat(c) PROVE toClient' \in [Clients -> Seq(News)]
  BY <1>8, ChatMessages, BroadcastType
<1>9. ASSUME NEW c \in Clients, HandleLeave(c) PROVE toClient' \in [Clients -> Seq(News)]
  <2> DEFINE lists == ListFor(order', player')
             a == <<Message("GameAborted")>>
             msgs == [d \in Clients |-> IF ~IsJoined(d) \/ d = c THEN <<>>
                                        ELSE IF player[c].isHost THEN a ELSE lists[d]]
  <2>1. toClient' = Broadcast(msgs)
    BY <1>9 DEF HandleLeave
  <2>2. lists \in [Clients -> Seq(News)] /\ a \in Seq(News) /\ <<>> \in Seq(News)
    BY NextLists, NewsTypes
  <2> HIDE DEF lists, a
  <2>3. msgs \in [Clients -> Seq(News)]
    BY <2>2
  <2> QED
    BY <2>1, <2>3, BroadcastType
<1>10. ASSUME NEW c \in Clients, HandleStartGame(c) PROVE toClient' \in [Clients -> Seq(News)]
  <2> DEFINE a == <<Message("StartGameBroadcast")>>
             msgs == [d \in Clients |-> IF IsJoined(d) THEN a ELSE <<>>]
  <2>1. toClient' = Broadcast(msgs)
    BY <1>10 DEF HandleStartGame
  <2>2. a \in Seq(News) /\ <<>> \in Seq(News)
    BY NewsTypes
  <2> HIDE DEF a
  <2>3. msgs \in [Clients -> Seq(News)]
    BY <2>2
  <2> QED
    BY <2>1, <2>3, BroadcastType
<1>11. ASSUME NEW c \in Clients, TimeOut(c) PROVE toClient' \in [Clients -> Seq(News)]
  <2> DEFINE lists == ListFor(order', player')
  <2>1. toClient' = [d \in Clients |-> IF d = c THEN <<>>
                                       ELSE IF IsJoined(c) /\ IsJoined(d)
                                         THEN toClient[d] \o lists[d]
                                       ELSE toClient[d]]
    BY <1>11 DEF TimeOut
  <2>2. \A d \in Clients : lists[d] \in Seq(News)
    BY NextLists
  <2> HIDE DEF lists
  <2>3. \A d \in Clients : toClient[d] \o lists[d] \in Seq(News)
    BY <1>1, <2>2
  <2> QED
    BY <1>1, <2>1, <2>3, NewsTypes
<1>12. ASSUME NEW c \in Clients,
             Connect(c) \/ ClickReady(c) \/ ClickAllow(c) \/ SendChat(c) \/ ClickStart(c)
               \/ NoticeLoss(c) \/ Accept(c) \/ Reject(c)
      PROVE  UNCHANGED toClient
  BY <1>12 DEF Connect, ClickReady, ClickAllow, SendChat, ClickStart, NoticeLoss, Accept, Reject
<1>13. CASE UNCHANGED vars
  BY <1>2, <1>13 DEF vars
<1> QED
  BY <1>2, <1>3, <1>4, <1>5, <1>6, <1>7, <1>8, <1>9, <1>10, <1>11, <1>12, <1>13 DEF Next,
     Handler, Click

\* Every step leaves dialogs.
LEMMA ClientStep ==
    ASSUME EntryInv, [Next]_vars
    PROVE  client' \in [Clients -> Dialogs]
<1>1. client \in [Clients -> Dialogs]
  BY DEF EntryInv, ArrivalInv, ConnectionsOK
<1>2. CASE UNCHANGED client
  BY <1>1, <1>2
<1>3. ASSUME NEW c \in Clients,
             Click(c) \/ Break(c) \/ NoticeLoss(c) \/ Reject(c) \/ TimeOut(c)
      PROVE  client' \in [Clients -> Dialogs]
  <2>1. CASE Connect(c) \/ ClickLeave(c) \/ Break(c) \/ NoticeLoss(c) \/ Reject(c) \/ TimeOut(c)
    <3>1. PICK s \in {"connecting", "gone"} :
                 client' = [client EXCEPT ![c] = [client[c] EXCEPT !.status = s]]
      BY <2>1 DEF Connect, ClickLeave, Break, NoticeLoss, Reject, TimeOut
    <3>2. [client[c] EXCEPT !.status = s] \in Dialogs
      BY <1>1 DEF Dialogs
    <3> QED
      BY <1>1, <3>1, <3>2
  <2> DEFINE d == client[c]
  <2>6. d \in Dialogs
    BY <1>1
  <2>8. /\ d.ready \in BOOLEAN /\ d.allow \in BOOLEAN /\ d.toggles \in Nat /\ d.chats \in Nat
        /\ d.toggles + 1 \in Nat /\ d.chats + 1 \in Nat
    <3> HIDE DEF d
    <3> QED
      BY <2>6 DEF Dialogs
  <2>9. ASSUME NEW r \in BOOLEAN, NEW a \in BOOLEAN, NEW n \in Nat, NEW k \in Nat
        PROVE  /\ [d EXCEPT !.ready = r, !.toggles = n] \in Dialogs
               /\ [d EXCEPT !.allow = a, !.toggles = n] \in Dialogs
               /\ [d EXCEPT !.chats = k] \in Dialogs
    <3> HIDE DEF d
    <3> QED
      BY <2>6 DEF Dialogs
  <2>2. CASE ClickReady(c)
    <3>1. client' = [client EXCEPT ![c] = [d EXCEPT !.ready = ~d.ready, !.toggles = d.toggles + 1]]
      BY <2>2 DEF ClickReady
    <3>2. [d EXCEPT !.ready = ~d.ready, !.toggles = d.toggles + 1] \in Dialogs
      <4> DEFINE r == ~d.ready
                 n == d.toggles + 1
      <4>1. r \in BOOLEAN /\ n \in Nat
        BY <2>8
      <4> HIDE DEF r, n, d
      <4>2. [d EXCEPT !.ready = r, !.toggles = n] \in Dialogs
        BY <4>1, <2>8, <2>9
      <4> QED
        BY <4>2 DEF r, n
    <3> QED
      BY <1>1, <3>1, <3>2
  <2>3. CASE ClickAllow(c)
    <3>1. client' = [client EXCEPT ![c] = [d EXCEPT !.allow = ~d.allow, !.toggles = d.toggles + 1]]
      BY <2>3 DEF ClickAllow
    <3>2. [d EXCEPT !.allow = ~d.allow, !.toggles = d.toggles + 1] \in Dialogs
      <4> DEFINE r == ~d.allow
                 n == d.toggles + 1
      <4>1. r \in BOOLEAN /\ n \in Nat
        BY <2>8
      <4> HIDE DEF r, n, d
      <4>2. [d EXCEPT !.allow = r, !.toggles = n] \in Dialogs
        BY <4>1, <2>8, <2>9
      <4> QED
        BY <4>2 DEF r, n
    <3> QED
      BY <1>1, <3>1, <3>2
  <2>4. CASE SendChat(c)
    <3>1. client' = [client EXCEPT ![c] = [d EXCEPT !.chats = d.chats + 1]]
      BY <2>4 DEF SendChat
    <3>2. [d EXCEPT !.chats = d.chats + 1] \in Dialogs
      <4> DEFINE n == d.chats + 1
      <4>1. n \in Nat
        BY <2>8
      <4> HIDE DEF n, d
      <4>2. [d EXCEPT !.chats = n] \in Dialogs
        BY <4>1, <2>8, <2>9
      <4> QED
        BY <4>2 DEF n
    <3> QED
      BY <1>1, <3>1, <3>2
  <2>5. CASE ClickStart(c)
    <3>1. client' = [client EXCEPT ![c] = [client[c] EXCEPT !.pressed = TRUE]]
      BY <2>5 DEF ClickStart
    <3>2. [client[c] EXCEPT !.pressed = TRUE] \in Dialogs
      BY <1>1 DEF Dialogs
    <3> QED
      BY <1>1, <3>1, <3>2
  <2> QED
    BY <1>3, <2>1, <2>2, <2>3, <2>4, <2>5 DEF Click
<1>4. ASSUME NEW c \in Clients, HandleStartGame(c) PROVE client' \in [Clients -> Dialogs]
  BY <1>1, <1>4 DEF HandleStartGame, Dialogs
<1>5. ASSUME NEW c \in Clients, Receive(c) PROVE client' \in [Clients -> Dialogs]
  <2> DEFINE m == Head(toClient[c])
  <2>1. m \in News
    BY <1>5, EntryFacts DEF Receive
  <2>2. client' = [client EXCEPT ![c] =
                CASE m.type = "Welcome"                 -> [client[c] EXCEPT !.status = "lobby"]
                  [] m.type = "SettingsUpdateBroadcast" -> [client[c] EXCEPT !.allow = m.on]
                  [] m.type = "PlayerList" -> [client[c] EXCEPT !.list = m.list, !.index = m.index]
                  [] m.type = "ChatBroadcast"           -> client[c]
                  [] m.type = "GameAborted"             -> [client[c] EXCEPT !.status = "gone"]
                  [] m.type = "StartGameBroadcast"      -> [client[c] EXCEPT !.status = "game"]]
    BY <1>5 DEF Receive
  <2> HIDE DEF m
  <2>3. /\ m.type \in {"Welcome", "SettingsUpdateBroadcast", "PlayerList", "ChatBroadcast",
                       "GameAborted", "StartGameBroadcast"}
        /\ m.type = "SettingsUpdateBroadcast" => m.on \in BOOLEAN
        /\ m.type = "PlayerList" => m.list \in Seq(Entries) /\ m.index \in Nat
    BY <2>1 DEF News
  <2>4. client'[c] \in Dialogs
    BY <1>1, <2>2, <2>3 DEF Dialogs
  <2> QED
    BY <1>1, <2>2, <2>4
<1>6. ASSUME NEW c \in Clients,
             Accept(c) \/ HandleHostConnect(c) \/ HandleConnect(c) \/ HandleSettingsUpdate(c)
               \/ HandleReadyUp(c) \/ HandleChat(c) \/ HandleLeave(c)
      PROVE  UNCHANGED client
  BY <1>6 DEF Accept, HandleHostConnect, HandleConnect, HandleSettingsUpdate, HandleReadyUp,
     HandleChat, HandleLeave
<1>7. CASE UNCHANGED vars
  BY <1>2, <1>7 DEF vars
<1> QED
  BY <1>2, <1>3, <1>4, <1>5, <1>6, <1>7 DEF Next, Handler

\* Every step leaves a setting, a pause and a phase.
LEMMA SettingsStep ==
    ASSUME EntryInv, [Next]_vars
    PROVE  allow' \in BOOLEAN /\ paused' \in BOOLEAN /\ server' \in {"setup", "started", "aborted"}
<1>1. allow \in BOOLEAN /\ paused \in BOOLEAN /\ server \in {"setup", "started", "aborted"}
  BY DEF EntryInv, ArrivalInv, ConnectionsOK
<1>2. ASSUME NEW c \in Clients, HandleSettingsUpdate(c)
      PROVE  allow' \in BOOLEAN /\ paused' \in BOOLEAN /\ server' = server
  <2>1. allow' \in BOOLEAN
    BY <1>2, SettingsMessages
  <2> QED
    BY <1>2, <2>1 DEF HandleSettingsUpdate
<1>3. ASSUME NEW c \in Clients, HandleReadyUp(c)
      PROVE  allow' = allow /\ paused' \in BOOLEAN /\ server' = server
  <2>1. Head(toServer[c]) \in FromClient(c) /\ Head(toServer[c]).type = "ReadyUp"
    BY <1>3, TakenEntry DEF HandleReadyUp
  <2> DEFINE m == Head(toServer[c])
  <2>2. m.on \in BOOLEAN
    <3> HIDE DEF m
    <3> QED
      BY <2>1 DEF m, FromClient
  <2> QED
    BY <1>1, <1>3, <2>2 DEF HandleReadyUp
<1>4. ASSUME NEW c \in Clients, HandleLeave(c) \/ HandleStartGame(c)
      PROVE  allow' = allow /\ paused' = paused /\ server' \in {"setup", "started", "aborted"}
  BY <1>1, <1>4 DEF HandleLeave, HandleStartGame
<1>5. ASSUME NEW c \in Clients,
             Click(c) \/ Break(c) \/ Receive(c) \/ NoticeLoss(c) \/ Accept(c)
               \/ HandleHostConnect(c)
               \/ HandleConnect(c) \/ Reject(c) \/ HandleChat(c) \/ TimeOut(c)
      PROVE  UNCHANGED <<allow, paused, server>>
  BY <1>5 DEF Click, Connect, ClickReady, ClickAllow, SendChat, ClickStart, ClickLeave, Break,
     Receive,
     NoticeLoss, Accept, HandleHostConnect, HandleConnect, Reject, HandleChat, TimeOut, serverVars
<1>6. CASE UNCHANGED vars
  BY <1>1, <1>6 DEF vars
<1> QED
  BY <1>1, <1>2, <1>3, <1>4, <1>5, <1>6 DEF Next, Handler

\* The invariant of who is where, and of what is on its way in, is inductive.
LEMMA EntryStep == EntryInv /\ [Next]_vars => EntryInv'
<1> SUFFICES ASSUME EntryInv, [Next]_vars PROVE EntryInv'
  OBVIOUS
<1>1. RoomInv'
  BY MessagesStep, TableStep DEF EntryInv, RoomInv
<1>2. ConnectionsOK'
  BY OrderStep, ClientStep, SettingsStep DEF ConnectionsOK
<1> QED
  BY <1>1, <1>2, EntriesStep, NewsStep DEF EntryInv, ArrivalInv

\* There is no message of any type in the empty stream.
LEMMA NoneOfNothing == ASSUME NEW type PROVE NoneOf(<<>>, type)
BY DEF NoneOf

\* A message alone.
LEMMA OneMessage ==
    ASSUME NEW m \in News, NEW type
    PROVE  /\ <<m>> \in Seq(News) /\ Len(<<m>>) = 1 /\ DOMAIN <<m>> = {1} /\ <<m>>[1] = m
           /\ m.type # type => NoneOf(<<m>>, type)
           /\ m.type = type => LastOf(<<m>>, type, m)
<1> DEFINE q == <<m>>
<1>1. q \in Seq(News) /\ Len(q) = 1 /\ DOMAIN q = {1} /\ q[1] = m
  OBVIOUS
<1> HIDE DEF q
<1>2. m.type # type => NoneOf(q, type)
  BY <1>1 DEF NoneOf
<1>3. m.type = type => LastOf(q, type, m)
  BY <1>1 DEF LastOf
<1> QED
  BY <1>1, <1>2, <1>3 DEF q

\* What a stream has when more is written to it.
LEMMA Concatenated ==
    ASSUME NEW q \in Seq(News), NEW r \in Seq(News)
    PROVE  /\ q \o r \in Seq(News) /\ Len(q) \in Nat /\ Len(r) \in Nat
           /\ DOMAIN q = 1 .. Len(q) /\ DOMAIN r = 1 .. Len(r)
           /\ DOMAIN (q \o r) = 1 .. Len(q) + Len(r)
           /\ \A i \in 1 .. Len(q) : (q \o r)[i] = q[i]
           /\ \A i \in 1 .. Len(r) : (q \o r)[Len(q) + i] = r[i]
           /\ \A i \in 1 .. Len(q) + Len(r) :
                i \in 1 .. Len(q) \/ \E j \in 1 .. Len(r) : i = Len(q) + j
<1>1. /\ q \o r \in Seq(News) /\ Len(q) \in Nat /\ Len(r) \in Nat
      /\ DOMAIN q = 1 .. Len(q) /\ DOMAIN r = 1 .. Len(r)
      /\ DOMAIN (q \o r) = 1 .. Len(q) + Len(r)
      /\ \A i \in 1 .. Len(q) : (q \o r)[i] = q[i]
      /\ \A i \in 1 .. Len(r) : (q \o r)[Len(q) + i] = r[i]
  OBVIOUS
<1> DEFINE k == Len(q)
           l == Len(r)
<1>2. k \in Nat /\ l \in Nat
  BY <1>1
<1> HIDE DEF k, l
<1>3. ASSUME NEW i \in 1 .. k + l PROVE i \in 1 .. k \/ \E j \in 1 .. l : i = k + j
  <2>1. CASE i <= k
    BY <1>2, <2>1
  <2>2. CASE i > k
    <3>1. i - k \in 1 .. l /\ i = k + (i - k)
      BY <1>2, <2>2
    <3> QED
      BY <3>1
  <2> QED
    BY <1>2, <2>1, <2>2
<1> QED
  BY <1>1, <1>3 DEF k, l

\* A message after two others.
LEMMA ThreeMessages ==
    ASSUME NEW a \in News, NEW b \in News, NEW m \in News, NEW type
    PROVE  /\ <<a, b>> \o <<m>> \in Seq(News)
           /\ a.type # type /\ b.type # type /\ m.type # type => NoneOf(<<a, b>> \o <<m>>, type)
           /\ m.type = type => LastOf(<<a, b>> \o <<m>>, type, m)
           /\ b.type = type /\ m.type # type => LastOf(<<a, b>> \o <<m>>, type, b)
<1> DEFINE q == <<a, b>> \o <<m>>
<1> DEFINE w == <<a, b>>
           v == <<m>>
<1>1. /\ w \in Seq(News) /\ v \in Seq(News) /\ Len(w) = 2 /\ Len(v) = 1
      /\ w[1] = a /\ w[2] = b /\ v[1] = m
  OBVIOUS
<1> HIDE DEF w, v
<1>8. /\ w \o v \in Seq(News) /\ DOMAIN (w \o v) = 1 .. Len(w) + Len(v)
      /\ \A i \in 1 .. Len(w) : (w \o v)[i] = w[i]
      /\ \A i \in 1 .. Len(v) : (w \o v)[Len(w) + i] = v[i]
  BY <1>1, Concatenated
<1>2. q \in Seq(News) /\ DOMAIN q = 1 .. 3 /\ q[1] = a /\ q[2] = b /\ q[3] = m
  <2>1. q = w \o v
    BY DEF w, v
  <2> HIDE DEF q
  <2>2. 1 \in 1 .. Len(w) /\ 2 \in 1 .. Len(w) /\ 1 \in 1 .. Len(v) /\ Len(w) + 1 = 3
    BY <1>1
  <2> QED
    BY <1>1, <1>8, <2>1, <2>2
<1> HIDE DEF q
<1>3. \A i \in DOMAIN q : i = 1 \/ i = 2 \/ i = 3
  BY <1>2
<1>4. 2 \in DOMAIN q /\ 3 \in DOMAIN q
  BY <1>2
<1>5. a.type # type /\ b.type # type /\ m.type # type => NoneOf(q, type)
  BY <1>2, <1>3 DEF NoneOf
<1>6. m.type = type => LastOf(q, type, m)
  BY <1>2, <1>3, <1>4 DEF LastOf
<1>7. b.type = type /\ m.type # type => LastOf(q, type, b)
  BY <1>2, <1>3, <1>4 DEF LastOf
<1> QED
  BY <1>2, <1>5, <1>6, <1>7 DEF q

\* Nothing of the type is written: the last one stays the last one.
LEMMA AppendedWithout ==
    ASSUME NEW q \in Seq(News), NEW r \in Seq(News), NEW type, NoneOf(r, type)
    PROVE  /\ NoneOf(q, type) => NoneOf(q \o r, type)
           /\ \A m : LastOf(q, type, m) => LastOf(q \o r, type, m)
<1> DEFINE p == q \o r
           k == Len(q)
           l == Len(r)
<1>1. /\ k \in Nat /\ l \in Nat /\ DOMAIN q = 1 .. k /\ DOMAIN r = 1 .. l /\ DOMAIN p = 1 .. k + l
      /\ \A i \in 1 .. k : p[i] = q[i]
      /\ \A i \in 1 .. l : p[k + i] = r[i]
      /\ \A i \in 1 .. k + l : i \in 1 .. k \/ \E j \in 1 .. l : i = k + j
  BY Concatenated
<1> HIDE DEF p, k, l
<1>2. \A i \in 1 .. l : p[k + i].type # type
  BY <1>1 DEF NoneOf
<1>3. \A i \in DOMAIN p : i \in DOMAIN q \/ p[i].type # type
  BY <1>1, <1>2
<1>4. NoneOf(q, type) => NoneOf(p, type)
  BY <1>1, <1>3 DEF NoneOf
<1>5. ASSUME NEW m, LastOf(q, type, m) PROVE LastOf(p, type, m)
  <2>1. m.type = type
    BY <1>5 DEF LastOf
  <2>2. PICK i \in DOMAIN q : q[i] = m /\ \A j \in DOMAIN q : j > i => q[j].type # type
    BY <1>5 DEF LastOf
  <2>3. i \in DOMAIN p /\ p[i] = m
    BY <1>1, <2>2
  <2>4. \A j \in DOMAIN p : j > i => p[j].type # type
    BY <1>1, <1>3, <2>2
  <2> QED
    BY <2>1, <2>3, <2>4 DEF LastOf
<1> QED
  BY <1>4, <1>5 DEF p

\* The last one of what is written is the last one.
LEMMA AppendedWith ==
    ASSUME NEW q \in Seq(News), NEW r \in Seq(News), NEW type, NEW m, LastOf(r, type, m)
    PROVE  LastOf(q \o r, type, m)
<1> DEFINE p == q \o r
           k == Len(q)
           l == Len(r)
<1>1. /\ k \in Nat /\ l \in Nat /\ DOMAIN q = 1 .. k /\ DOMAIN r = 1 .. l /\ DOMAIN p = 1 .. k + l
      /\ \A i \in 1 .. l : p[k + i] = r[i]
      /\ \A i \in 1 .. k + l : i \in 1 .. k \/ \E j \in 1 .. l : i = k + j
  BY Concatenated
<1> HIDE DEF p, k, l
<1>2. PICK i \in DOMAIN r : r[i] = m /\ \A j \in DOMAIN r : j > i => r[j].type # type
  BY DEF LastOf
<1>3. k + i \in DOMAIN p /\ p[k + i] = m
  BY <1>1, <1>2
<1>4. ASSUME NEW j \in DOMAIN p, j > k + i PROVE p[j].type # type
  <2>1. j \notin 1 .. k
    BY <1>1, <1>2, <1>4
  <2>2. PICK n \in 1 .. l : j = k + n
    BY <1>1, <2>1
  <2>3. n > i
    BY <1>1, <1>2, <1>4, <2>2
  <2> QED
    BY <1>1, <1>2, <2>2, <2>3
<1> QED
  BY <1>3, <1>4 DEF LastOf, p

\* What a stream has when its first message is taken.
LEMMA FirstTaken ==
    ASSUME NEW q \in Seq(News), q # <<>>
    PROVE  /\ Tail(q) \in Seq(News) /\ Len(q) \in Nat \ {0} /\ Len(Tail(q)) = Len(q) - 1
           /\ DOMAIN q = 1 .. Len(q) /\ DOMAIN Tail(q) = 1 .. Len(q) - 1
           /\ \A i \in 1 .. Len(q) - 1 : Tail(q)[i] = q[i + 1]
           /\ 1 \in DOMAIN q /\ q[1] = Head(q) /\ Head(q) \in News
           /\ \A i \in DOMAIN q : i # 1 => i - 1 \in DOMAIN Tail(q) /\ Tail(q)[i - 1] = q[i]
<1> DEFINE r == Tail(q)
           l == Len(q)
<1>1. /\ r \in Seq(News) /\ l \in Nat \ {0} /\ Len(r) = l - 1
      /\ DOMAIN q = 1 .. l /\ DOMAIN r = 1 .. l - 1
      /\ \A i \in 1 .. l - 1 : r[i] = q[i + 1]
      /\ q[1] = Head(q) /\ Head(q) \in News
  OBVIOUS
<1> HIDE DEF r, l
<1>2. 1 \in DOMAIN q
  BY <1>1
<1>3. ASSUME NEW i \in DOMAIN q, i # 1 PROVE i - 1 \in DOMAIN r /\ r[i - 1] = q[i]
  <2> DEFINE j == i - 1
  <2>1. j \in 1 .. l - 1 /\ j + 1 = i
    BY <1>1, <1>3
  <2> HIDE DEF j
  <2>2. j \in DOMAIN r /\ r[j] = q[j + 1]
    BY <1>1, <2>1
  <2> QED
    BY <2>1, <2>2 DEF j
<1> QED
  BY <1>1, <1>2, <1>3 DEF r, l

\* A message of another type is taken.
LEMMA OtherTaken ==
    ASSUME NEW q \in Seq(News), q # <<>>, NEW type, Head(q).type # type
    PROVE  /\ NoneOf(q, type) => NoneOf(Tail(q), type)
           /\ \A m : LastOf(q, type, m) => LastOf(Tail(q), type, m)
<1> DEFINE r == Tail(q)
           l == Len(q)
<1>1. /\ l \in Nat \ {0} /\ DOMAIN q = 1 .. l /\ DOMAIN r = 1 .. l - 1
      /\ \A i \in 1 .. l - 1 : r[i] = q[i + 1]
      /\ q[1] = Head(q)
      /\ \A i \in DOMAIN q : i # 1 => i - 1 \in DOMAIN r /\ r[i - 1] = q[i]
  BY FirstTaken
<1> HIDE DEF r, l
<1>2. \A i \in DOMAIN r : i + 1 \in DOMAIN q /\ r[i] = q[i + 1]
  BY <1>1
<1>3. NoneOf(q, type) => NoneOf(r, type)
  BY <1>2 DEF NoneOf
<1>4. ASSUME NEW m, LastOf(q, type, m) PROVE LastOf(r, type, m)
  <2>1. m.type = type
    BY <1>4 DEF LastOf
  <2>2. PICK i \in DOMAIN q : q[i] = m /\ \A j \in DOMAIN q : j > i => q[j].type # type
    BY <1>4 DEF LastOf
  <2>3. i # 1
    BY <1>1, <2>1, <2>2
  <2>4. i - 1 \in DOMAIN r /\ r[i - 1] = m
    BY <1>1, <2>2, <2>3
  <2>5. ASSUME NEW j \in DOMAIN r, j > i - 1 PROVE r[j].type # type
    <3>1. j + 1 \in DOMAIN q /\ j + 1 > i
      BY <1>1, <2>5, <2>2, <1>2
    <3> QED
      BY <1>2, <2>2, <3>1
  <2> QED
    BY <2>1, <2>4, <2>5 DEF LastOf
<1> QED
  BY <1>3, <1>4 DEF r

\* A message of the type is taken: it was the last one, or the last one is still there.
LEMMA SameTaken ==
    ASSUME NEW q \in Seq(News), q # <<>>, NEW type, NEW m, LastOf(q, type, m)
    PROVE  (NoneOf(Tail(q), type) /\ m = Head(q)) \/ LastOf(Tail(q), type, m)
<1> DEFINE r == Tail(q)
           l == Len(q)
<1>1. /\ l \in Nat \ {0} /\ DOMAIN q = 1 .. l /\ DOMAIN r = 1 .. l - 1
      /\ \A i \in 1 .. l - 1 : r[i] = q[i + 1]
      /\ q[1] = Head(q)
      /\ \A i \in DOMAIN q : i # 1 => i - 1 \in DOMAIN r /\ r[i - 1] = q[i]
  BY FirstTaken
<1> HIDE DEF r, l
<1>2. \A i \in DOMAIN r : i + 1 \in DOMAIN q /\ r[i] = q[i + 1]
  BY <1>1
<1>3. m.type = type
  BY DEF LastOf
<1>4. PICK i \in DOMAIN q : q[i] = m /\ \A j \in DOMAIN q : j > i => q[j].type # type
  BY DEF LastOf
<1>5. ASSUME NEW j \in DOMAIN r, j > i - 1 PROVE r[j].type # type
  <2>1. j + 1 \in DOMAIN q /\ j + 1 > i
    BY <1>1, <1>2, <1>4, <1>5
  <2> QED
    BY <1>2, <1>4, <2>1
<1>6. CASE i = 1
  <2>1. \A j \in DOMAIN r : j > i - 1
    BY <1>1, <1>6
  <2>2. NoneOf(r, type)
    BY <1>5, <2>1 DEF NoneOf
  <2> QED
    BY <1>1, <1>4, <1>6, <2>2 DEF r
<1>7. CASE i # 1
  <2>1. i - 1 \in DOMAIN r /\ r[i - 1] = m
    BY <1>1, <1>4, <1>7
  <2> QED
    BY <1>3, <1>5, <2>1 DEF LastOf, r
<1> QED
  BY <1>6, <1>7
\* The list of the players only depends on who of them is where in the vector, and on
\* their colors and boxes.
SameRoster == Roster(order', player') = Roster(order, player)

\* The list is the same if the same players are in the same order and look alike.
LEMMA RosterSame ==
    ASSUME NEW o, NEW p, NEW o2, NEW p2, NEW J,
           J = {c \in Clients : p[c].state = "Joined"},
           J = {c \in Clients : p2[c].state = "Joined"},
           \A c \in J : p2[c] = p[c],
           Kept(o2, J) = Kept(o, J), Kept(o, J) \in Seq(J)
    PROVE  Roster(o2, p2) = Roster(o, p)
<1> DEFINE joined == Kept(o, J)
<1>1. Roster(o, p) = [i \in DOMAIN joined |-> [id |-> joined[i], color |-> p[joined[i]].color,
                                               ready |-> p[joined[i]].ready]]
  BY DEF Roster
<1>2. Roster(o2, p2) = [i \in DOMAIN joined |-> [id |-> joined[i], color |-> p2[joined[i]].color,
                                                 ready |-> p2[joined[i]].ready]]
  BY DEF Roster
<1>3. joined \in Seq(J)
  OBVIOUS
<1> HIDE DEF joined
<1>4. \A i \in DOMAIN joined : joined[i] \in J
  BY <1>3
<1> QED
  BY <1>1, <1>2, <1>4

\* All that are kept are among those to be kept.
LEMMA KeptWithin ==
    ASSUME NEW o \in Seq(Clients), NEW J \in SUBSET Clients
    PROVE  Kept(o, J) \in Seq(J)
<1> DEFINE k == Kept(o, J)
<1>1. /\ k \in Seq(Clients)
      /\ \A x : (\E i \in DOMAIN k : k[i] = x) <=> x \in J /\ \E i \in DOMAIN o : o[i] = x
  BY KeptElements
<1> HIDE DEF k
<1>2. \A i \in DOMAIN k : k[i] \in J
  BY <1>1
<1>3. k \in Seq(J)
  BY <1>1, <1>2
<1> QED
  BY <1>3 DEF k

\* A connection that is not joined comes or goes: the list stays what it is.
LEMMA ArrivalRoster ==
    ASSUME EntryInv, NEW c \in Clients, ~IsJoined(c), NEW e \in {NoPlayer, NewPlayer},
           player' = [player EXCEPT ![c] = e],
           order' = Append(order, c) \/ order' = Without(c)
    PROVE  SameRoster
<1> DEFINE o == order
           p == player
           p2 == [p EXCEPT ![c] = e]
           J == {d \in Clients : p[d].state = "Joined"}
<1>1. o \in Seq(Clients) /\ p \in [Clients -> Players]
  BY JoinedInOrder
<1>2. c \notin J
  BY DEF IsJoined
<1>3. p[c].state # "Joined" /\ p2[c].state # "Joined" /\ \A d \in Clients \ {c} : p2[d] = p[d]
  BY <1>1, <1>2 DEF NoPlayer, NewPlayer
<1>4. J = {d \in Clients : p2[d].state = "Joined"}
  BY <1>3
<1>5. \A d \in J : p2[d] = p[d]
  BY <1>2, <1>3
<1>6. J \in SUBSET Clients
  OBVIOUS
<1> HIDE DEF o, p2, J, p
<1>7. Kept(o, J) \in Seq(J)
  BY <1>1, <1>6, KeptWithin
<1>8. Kept(Append(o, c), J) = Kept(o, J)
  BY <1>1, <1>2, KeptAppend
<1> DEFINE S == Clients \ {c}
<1>9. S \cap J = J
  BY <1>2, <1>6
<1> HIDE DEF S
<1>10. Kept(Kept(o, S), J) = Kept(o, J)
  BY <1>1, <1>9, KeptTwice
<1>11. Roster(Append(o, c), p2) = Roster(o, p) /\ Roster(Kept(o, S), p2) = Roster(o, p)
  <2>1. J = {d \in Clients : p[d].state = "Joined"}
    BY DEF J
  <2> QED
    BY <1>4, <1>5, <1>7, <1>8, <1>10, <2>1, RosterSame
<1> QED
  BY <1>11 DEF SameRoster, Without, o, p, p2, S

(***************************************************************************)
(* What a step writes to a client: the new list of the players or none,    *)
(* and then the list is what it was; the same for the setting.             *)
(***************************************************************************)
Written(d, r) ==
    /\ r \in Seq(News)
    /\ toClient'[d] = toClient[d] \o r
    /\ client'[d].list = client[d].list /\ client'[d].index = client[d].index
    /\ client'[d].status = client[d].status
    /\ client'[d].allow = client[d].allow \/ d \in TokenHolders
    /\ server # "setup" => r = <<>>

\* Of the list, ...
ListWritten(d, r) ==
    \/ NoneOf(r, "PlayerList") /\ SameRoster /\ IsJoined(d)
    \/ \E m \in News : /\ LastOf(r, "PlayerList", m) /\ m.list = Roster(order', player')
                       /\ Placed(m.list, m.index, d)
    \/ server' = "aborted"

\* ... of the setting, ...
SettingWritten(d, r) ==
    \/ NoneOf(r, "SettingsUpdateBroadcast") /\ allow' = allow /\ IsJoined(d)
         /\ player'[d].isHost = player[d].isHost
    \/ \E m \in News : LastOf(r, "SettingsUpdateBroadcast", m) /\ m.on = allow'
    \/ d \in Hosts'

\* ... of a chat message, ...
ChatWritten(d, r) ==
    \/ NoneOf(r, "ChatBroadcast")
    \/ \E m \in News : r = <<m>> /\ IsJoined(d) /\ Attributed(Roster(order, player), m)

\* ... and of the start of the game.
StartWritten(d, r) ==
    \/ NoneOf(r, "StartGameBroadcast")
    \/ Len(r) = 1 /\ server' = "started"

\* All of this: r is what the step writes to d.
SomethingWritten(d, r) ==
    Written(d, r) /\ ListWritten(d, r) /\ SettingWritten(d, r) /\ ChatWritten(d, r)
          /\ StartWritten(d, r)

\* Nothing is written, and nobody comes or goes.
LEMMA NothingWritten ==
    ASSUME EntryInv, NEW d \in Clients, IsJoined(d), player'[d].isHost = player[d].isHost,
           toClient'[d] = toClient[d], SameRoster, allow' = allow,
           client'[d].list = client[d].list, client'[d].index = client[d].index,
           client'[d].status = client[d].status,
           client'[d].allow = client[d].allow \/ d \in TokenHolders
    PROVE  SomethingWritten(d, <<>>)
<1>1. toClient[d] \in Seq(News)
  BY EntryFacts
<1>2. toClient[d] \o <<>> = toClient[d] /\ <<>> \in Seq(News)
  BY <1>1
<1> QED
  BY <1>2, NoneOfNothing DEF SomethingWritten, Written, ListWritten, SettingWritten, ChatWritten,
     StartWritten

\* A broadcast writes one message or none to each client that is there.
LEMMA BroadcastWritten ==
    ASSUME EntryInv, NEW d \in Clients, client[d].status # "gone", client'[d] = client[d],
           NEW msgs \in [Clients -> Seq(News)], toClient' = Broadcast(msgs), server = "setup"
    PROVE  Written(d, msgs[d])
BY DEF Written, Broadcast

\* Clicks, and what clients notice and handle: nothing is written to anybody.
LEMMA ClickWrites ==
    ASSUME EntryInv, NEW c \in Clients, Click(c) \/ Break(c) \/ NoticeLoss(c) \/ Receive(c),
           NEW d \in Clients, Present(d)', ~Receive(d)
    PROVE  SomethingWritten(d, <<>>)
<1>1. UNCHANGED <<order, player, allow, server>>
  BY DEF Click, Connect, ClickReady, ClickAllow, SendChat, ClickStart, ClickLeave, Break,
     NoticeLoss,
     Receive, serverVars
<1>2. IsJoined(d) /\ client'[d].status # "gone"
  BY <1>1 DEF Present, IsJoined
<1>3. client \in [Clients -> Dialogs] /\ EntryOK(d) /\ DOMAIN toClient = Clients
  BY EntryFacts
<1>4. CASE d # c
  <2>1. client'[d] = client[d] /\ toClient'[d] = toClient[d]
    BY <1>3, <1>4 DEF Click, Connect, ClickReady, ClickAllow, SendChat, ClickStart, ClickLeave,
       Break,
       NoticeLoss, Receive
  <2> QED
    BY <1>1, <1>2, <2>1, NothingWritten DEF SameRoster
<1>5. CASE d = c
  <2>1. client[d].status # "away"
    BY <1>2, <1>3 DEF EntryOK, IsJoined, InMatch
  <2>2. ~Connect(c)
    BY <1>5, <2>1 DEF Connect
  <2>3. ~(ClickLeave(c) \/ Break(c) \/ NoticeLoss(c))
    BY <1>2, <1>3, <1>5 DEF ClickLeave, Break, NoticeLoss, Dialogs
  <2>4. ClickReady(c) \/ ClickAllow(c) \/ SendChat(c) \/ ClickStart(c)
    BY <1>5, <2>2, <2>3 DEF Click
  <2>5. /\ toClient' = toClient
        /\ client'[d].list = client[d].list /\ client'[d].index = client[d].index
        /\ client'[d].status = client[d].status
        /\ client'[d].allow = client[d].allow \/ d \in TokenHolders
    BY <1>3, <1>5, <2>4 DEF ClickReady, ClickAllow, SendChat, ClickStart, Dialogs
  <2> QED
    BY <1>1, <1>2, <2>5, NothingWritten DEF SameRoster
<1> QED
  BY <1>4, <1>5

\* A connection comes, or goes before it has joined.
LEMMA ArrivalWrites ==
    ASSUME EntryInv, NEW c \in Clients,
           Accept(c) \/ Reject(c) \/ (TimeOut(c) /\ ~IsJoined(c)),
           NEW d \in Clients, Present(d)'
    PROVE  SomethingWritten(d, <<>>)
<1>1. /\ player \in [Clients -> Players] /\ client \in [Clients -> Dialogs]
  BY EntryFacts
<1>2. ~IsJoined(c)
  <2>1. CASE Accept(c)
    BY <2>1 DEF Accept, InMatch, IsJoined
  <2>2. CASE Reject(c)
    BY <2>2, SenderJoined DEF Reject, InvitationTypes
  <2> QED
    BY <2>1, <2>2
<1>3. /\ \E e \in {NoPlayer, NewPlayer} : player' = [player EXCEPT ![c] = e]
      /\ order' = Append(order, c) \/ order' = Without(c)
      /\ allow' = allow
  BY DEF Accept, Reject, TimeOut
<1>4. SameRoster
  BY <1>2, <1>3, ArrivalRoster
<1>5. d # c /\ IsJoined(d) /\ player'[d] = player[d]
  BY <1>1, <1>3 DEF Present, IsJoined, NoPlayer, NewPlayer
<1>6. client'[d] = client[d] /\ toClient'[d] = toClient[d]
  <2>1. CASE Accept(c) \/ Reject(c)
    BY <1>1, <1>5, <2>1 DEF Accept, Reject
  <2>2. CASE TimeOut(c) /\ ~IsJoined(c)
    BY <1>1, <1>5, <2>2 DEF TimeOut
  <2> QED
    BY <2>1, <2>2
<1> QED
  BY <1>3, <1>4, <1>5, <1>6, NothingWritten
\* The new list of the players, for one that is in it.
LEMMA ListOf ==
    ASSUME EntryInv, [Next]_vars, NEW d \in Clients, IsJoined(d)'
    PROVE  \E m \in News : /\ ListFor(order', player')[d] = <<m>> /\ m.type = "PlayerList"
                           /\ m.list = Roster(order', player') /\ Placed(m.list, m.index, d)
<1>1. player'[d].state = "Joined"
  BY DEF IsJoined
<1>2. IF player'[d].state = "Joined"
        THEN \E m \in News : /\ ListFor(order', player')[d] = <<m>> /\ m.type = "PlayerList"
                             /\ m.list = Roster(order', player') /\ Placed(m.list, m.index, d)
        ELSE ListFor(order', player')[d] = <<>>
  BY NextLists
<1> QED
  BY <1>1, <1>2

\* A list is all that is written.
LEMMA OnlyList ==
    ASSUME NEW d \in Clients, NEW m \in News, m.type = "PlayerList",
           m.list = Roster(order', player'), Placed(m.list, m.index, d),
           allow' = allow, IsJoined(d), player'[d].isHost = player[d].isHost
    PROVE  /\ ListWritten(d, <<m>>) /\ SettingWritten(d, <<m>>) /\ ChatWritten(d, <<m>>)
           /\ StartWritten(d, <<m>>)
<1>1. /\ LastOf(<<m>>, "PlayerList", m) /\ NoneOf(<<m>>, "SettingsUpdateBroadcast")
      /\ NoneOf(<<m>>, "ChatBroadcast") /\ NoneOf(<<m>>, "StartGameBroadcast")
  BY OneMessage
<1> DEFINE r == <<m>>
<1> HIDE DEF r
<1>2. /\ LastOf(r, "PlayerList", m) /\ NoneOf(r, "SettingsUpdateBroadcast")
      /\ NoneOf(r, "ChatBroadcast") /\ NoneOf(r, "StartGameBroadcast")
  BY <1>1 DEF r
<1>3. ListWritten(d, r) /\ SettingWritten(d, r) /\ ChatWritten(d, r) /\ StartWritten(d, r)
  BY <1>2 DEF ListWritten, SettingWritten, ChatWritten, StartWritten
<1> QED
  BY <1>3 DEF r

\* Somebody joins: the newcomer is welcomed, and all get the list.
LEMMA JoinWrites ==
    ASSUME EntryInv, [Next]_vars, NEW c \in Clients, HandleHostConnect(c) \/ HandleConnect(c),
           NEW d \in Clients, Present(d)'
    PROVE  \E r : SomethingWritten(d, r)
<1> DEFINE lists == ListFor(order', player')
           a == Message("Welcome")
           b == Update("SettingsUpdateBroadcast", allow)
           w == <<a, b>>
           msgs == [x \in Clients |-> (IF x = c THEN w ELSE <<>>) \o lists[x]]
<1>1. toClient' = Broadcast(msgs) /\ msgs \in [Clients -> Seq(News)]
  BY WelcomeMessages
<1>2. client' = client /\ server = "setup" /\ allow' = allow /\ InMatch(c)
  BY DEF HandleHostConnect, HandleConnect, Handle
<1>3. IsJoined(d)' /\ client[d].status # "gone" /\ client'[d] = client[d]
  BY <1>2 DEF Present
<1>4. PICK m \in News : /\ lists[d] = <<m>> /\ m.type = "PlayerList"
                        /\ m.list = Roster(order', player') /\ Placed(m.list, m.index, d)
  BY <1>3, ListOf
<1>5. msgs[d] = (IF d = c THEN w ELSE <<>>) \o <<m>>
  BY <1>4
<1>6. Written(d, msgs[d])
  <2> HIDE DEF msgs
  <2> QED
    BY <1>1, <1>2, <1>3, BroadcastWritten
<1>7. a \in News /\ a.type = "Welcome" /\ b \in News /\ b.type = "SettingsUpdateBroadcast"
      /\ b.on = allow
  <2>1. allow \in BOOLEAN
    BY DEF EntryInv, ArrivalInv, ConnectionsOK
  <2> QED
    BY <2>1, NewsTypes
<1>8. player \in [Clients -> Players]
  BY EntryFacts
<1> HIDE DEF msgs, lists, a, b
<1>9. CASE d # c
  <2>1. msgs[d] = <<m>>
    BY <1>5, <1>9
  <2>2. player'[d] = player[d]
    BY <1>8, <1>9 DEF HandleHostConnect, HandleConnect
  <2>3. IsJoined(d) /\ player'[d].isHost = player[d].isHost
    BY <1>3, <2>2 DEF IsJoined
  <2>4. SomethingWritten(d, <<m>>)
    BY <1>2, <1>4, <1>6, <2>1, <2>3, OnlyList DEF SomethingWritten
  <2> QED
    BY <2>4
<1>10. CASE d = c
  <2> DEFINE r == w \o <<m>>
  <2>1. msgs[d] = r
    BY <1>5, <1>10
  <2>2. /\ LastOf(r, "PlayerList", m) /\ LastOf(r, "SettingsUpdateBroadcast", b)
        /\ NoneOf(r, "ChatBroadcast") /\ NoneOf(r, "StartGameBroadcast")
    BY <1>4, <1>7, ThreeMessages
  <2> HIDE DEF r
  <2>3. ListWritten(d, r) /\ SettingWritten(d, r) /\ ChatWritten(d, r) /\ StartWritten(d, r)
    BY <1>2, <1>4, <1>7, <2>2 DEF ListWritten, SettingWritten, ChatWritten, StartWritten
  <2> QED
    BY <1>6, <2>1, <2>3 DEF SomethingWritten
<1> QED
  BY <1>9, <1>10

\* The host sets the check box, or somebody is ready, or chats.
LEMMA PlayerWrites ==
    ASSUME EntryInv, [Next]_vars, NEW c \in Clients,
           HandleSettingsUpdate(c) \/ HandleReadyUp(c) \/ HandleChat(c),
           NEW d \in Clients, Present(d)'
    PROVE  \E r : SomethingWritten(d, r)
<1>1. client' = client /\ server = "setup"
  BY DEF HandleSettingsUpdate, HandleReadyUp, HandleChat, Handle
<1>2. client[d].status # "gone" /\ client'[d] = client[d] /\ IsJoined(d)'
  BY <1>1 DEF Present
<1>3. player \in [Clients -> Players]
  BY EntryFacts
<1>4. IsJoined(d) /\ player'[d].isHost = player[d].isHost
  BY <1>2, <1>3 DEF HandleSettingsUpdate, HandleReadyUp, HandleChat, IsJoined, Players
<1>5. CASE HandleSettingsUpdate(c)
  <2> DEFINE u == Update("SettingsUpdateBroadcast", allow')
             msgs == [x \in Clients |-> IF IsJoined(x) /\ ~player[x].isHost THEN <<u>> ELSE <<>>]
  <2>1. allow' \in BOOLEAN /\ toClient' = Broadcast(msgs) /\ msgs \in [Clients -> Seq(News)]
    BY <1>5, SettingsMessages
  <2>2. u \in News /\ u.type = "SettingsUpdateBroadcast" /\ u.on = allow'
    BY <2>1, NewsTypes
  <2>3. msgs[d] = IF player[d].isHost THEN <<>> ELSE <<u>>
    BY <1>4
  <2> HIDE DEF msgs, u
  <2>4. Written(d, msgs[d])
    BY <1>1, <1>2, <2>1, BroadcastWritten
  <2>5. SameRoster
    BY <1>5 DEF HandleSettingsUpdate, SameRoster
  <2>6. CASE player[d].isHost
    <3>1. msgs[d] = <<>> /\ d \in Hosts'
      BY <1>4, <2>3, <2>6 DEF Hosts
    <3>2. SomethingWritten(d, <<>>)
      BY <1>4, <2>4, <2>5, <3>1, NoneOfNothing
         DEF SomethingWritten, ListWritten, SettingWritten, ChatWritten, StartWritten
    <3> QED
      BY <3>2
  <2>7. CASE ~player[d].isHost
    <3>1. msgs[d] = <<u>>
      BY <2>3, <2>7
    <3> DEFINE r == <<u>>
    <3>2. /\ LastOf(r, "SettingsUpdateBroadcast", u) /\ NoneOf(r, "PlayerList")
          /\ NoneOf(r, "ChatBroadcast") /\ NoneOf(r, "StartGameBroadcast")
      BY <2>2, OneMessage
    <3> HIDE DEF r
    <3>3. ListWritten(d, r) /\ SettingWritten(d, r) /\ ChatWritten(d, r) /\ StartWritten(d, r)
      BY <1>4, <2>2, <2>5, <3>2 DEF ListWritten, SettingWritten, ChatWritten, StartWritten
    <3> QED
      BY <2>4, <3>1, <3>3 DEF SomethingWritten, r
  <2> QED
    BY <2>6, <2>7
<1>6. CASE HandleReadyUp(c)
  <2> DEFINE msgs == ListFor(order', player')
  <2>1. toClient' = Broadcast(msgs) /\ allow' = allow
    BY <1>6 DEF HandleReadyUp
  <2>2. msgs \in [Clients -> Seq(News)]
    BY NextLists
  <2>3. PICK m \in News : /\ msgs[d] = <<m>> /\ m.type = "PlayerList"
                          /\ m.list = Roster(order', player') /\ Placed(m.list, m.index, d)
    BY <1>2, ListOf
  <2> HIDE DEF msgs
  <2>4. Written(d, msgs[d])
    BY <1>1, <1>2, <2>1, <2>2, BroadcastWritten
  <2>5. SomethingWritten(d, <<m>>)
    BY <1>4, <2>1, <2>3, <2>4, OnlyList DEF SomethingWritten
  <2> QED
    BY <2>5
<1>7. CASE HandleChat(c)
  <2> DEFINE list == Roster(order, player)
             m == Chat(c, IndexIn(list, c))
             msgs == [x \in Clients |-> IF IsJoined(x) THEN <<m>> ELSE <<>>]
  <2>1. /\ toClient' = Broadcast(msgs) /\ msgs \in [Clients -> Seq(News)]
        /\ m \in News /\ m.type = "ChatBroadcast" /\ Attributed(list, m)
    BY <1>7, ChatMessages
  <2>2. msgs[d] = <<m>>
    BY <1>4
  <2> HIDE DEF msgs, m
  <2>3. Written(d, msgs[d])
    BY <1>1, <1>2, <2>1, BroadcastWritten
  <2>4. SameRoster /\ allow' = allow
    BY <1>7 DEF HandleChat, SameRoster
  <2> DEFINE r == <<m>>
  <2>5. /\ NoneOf(r, "SettingsUpdateBroadcast") /\ NoneOf(r, "PlayerList")
        /\ NoneOf(r, "StartGameBroadcast")
    BY <2>1, OneMessage
  <2>6. ChatWritten(d, r)
    BY <1>4, <2>1 DEF ChatWritten
  <2> HIDE DEF r
  <2>7. ListWritten(d, r) /\ SettingWritten(d, r) /\ StartWritten(d, r)
    BY <1>4, <2>4, <2>5 DEF ListWritten, SettingWritten, StartWritten
  <2> QED
    BY <2>2, <2>3, <2>6, <2>7 DEF SomethingWritten, r
<1> QED
  BY <1>5, <1>6, <1>7

\* A player leaves or is lost: the others get the new list, or hear that it was the host.
LEMMA GoneWrites ==
    ASSUME EntryInv, [Next]_vars, NEW c \in Clients, HandleLeave(c) \/ (TimeOut(c) /\ IsJoined(c)),
           NEW d \in Clients, Present(d)'
    PROVE  \E r : SomethingWritten(d, r)
<1>1. player \in [Clients -> Players] /\ client \in [Clients -> Dialogs]
  BY EntryFacts
<1>2. player' = [player EXCEPT ![c] = NoPlayer] /\ server = "setup" /\ allow' = allow
  BY DEF HandleLeave, TimeOut, Handle
<1>3. d # c /\ player'[d] = player[d] /\ IsJoined(d) /\ IsJoined(d)'
  BY <1>1, <1>2 DEF Present, IsJoined, NoPlayer
<1>4. client'[d] = client[d] /\ client[d].status # "gone"
  BY <1>1, <1>3 DEF HandleLeave, TimeOut, Present
<1> DEFINE lists == ListFor(order', player')
<1>5. lists \in [Clients -> Seq(News)]
  BY NextLists
<1>6. PICK m \in News : /\ lists[d] = <<m>> /\ m.type = "PlayerList"
                        /\ m.list = Roster(order', player') /\ Placed(m.list, m.index, d)
  BY <1>3, ListOf
<1>7. CASE HandleLeave(c)
  <2> DEFINE a == Message("GameAborted")
             msgs == [x \in Clients |-> IF ~IsJoined(x) \/ x = c THEN <<>>
                                        ELSE IF player[c].isHost THEN <<a>> ELSE lists[x]]
  <2>1. toClient' = Broadcast(msgs)
    BY <1>7 DEF HandleLeave
  <2>2. a \in News /\ a.type = "GameAborted" /\ <<a>> \in Seq(News) /\ <<>> \in Seq(News)
    BY NewsTypes
  <2> HIDE DEF lists, a
  <2>3. msgs \in [Clients -> Seq(News)]
    BY <1>5, <2>2
  <2>4. msgs[d] = IF player[c].isHost THEN <<a>> ELSE lists[d]
    BY <1>3
  <2> HIDE DEF msgs
  <2>5. Written(d, msgs[d])
    BY <1>2, <1>4, <2>1, <2>3, BroadcastWritten
  <2>6. CASE player[c].isHost
    <3>1. server' = "aborted" /\ msgs[d] = <<a>>
      BY <1>7, <2>4, <2>6 DEF HandleLeave
    <3> DEFINE r == <<a>>
    <3>2. /\ NoneOf(r, "SettingsUpdateBroadcast") /\ NoneOf(r, "ChatBroadcast")
          /\ NoneOf(r, "StartGameBroadcast")
      BY <2>2, OneMessage
    <3> HIDE DEF r
    <3>3. ListWritten(d, r) /\ SettingWritten(d, r) /\ ChatWritten(d, r) /\ StartWritten(d, r)
      BY <1>2, <1>3, <3>1, <3>2 DEF ListWritten, SettingWritten, ChatWritten, StartWritten
    <3> QED
      BY <2>5, <3>1, <3>3 DEF SomethingWritten, r
  <2>7. CASE ~player[c].isHost
    <3>1. msgs[d] = <<m>>
      BY <1>6, <2>4, <2>7
    <3>2. SomethingWritten(d, <<m>>)
      BY <1>2, <1>3, <1>6, <2>5, <3>1, OnlyList DEF SomethingWritten
    <3> QED
      BY <3>2
  <2> QED
    BY <2>6, <2>7
<1>8. CASE TimeOut(c) /\ IsJoined(c)
  <2>1. toClient' = [x \in Clients |-> IF x = c THEN <<>>
                                       ELSE IF IsJoined(c) /\ IsJoined(x)
                                         THEN toClient[x] \o lists[x]
                                       ELSE toClient[x]]
    BY <1>8 DEF TimeOut
  <2> HIDE DEF lists
  <2>2. toClient'[d] = toClient[d] \o lists[d]
    BY <1>3, <1>8, <2>1
  <2>3. lists[d] \in Seq(News)
    BY <1>5
  <2>4. Written(d, lists[d])
    BY <1>2, <1>4, <2>2, <2>3 DEF Written
  <2>5. SomethingWritten(d, <<m>>)
    BY <1>2, <1>3, <1>6, <2>4, OnlyList DEF SomethingWritten
  <2> QED
    BY <2>5
<1> QED
  BY <1>7, <1>8

\* The game starts: everybody hears it.
LEMMA StartWrites ==
    ASSUME EntryInv, NEW c \in Clients, HandleStartGame(c), NEW d \in Clients, Present(d)'
    PROVE  \E r : SomethingWritten(d, r)
<1>1. player' = player /\ order' = order /\ allow' = allow /\ server = "setup"
      /\ server' = "started"
  BY DEF HandleStartGame, Handle
<1>2. IsJoined(d)
  BY <1>1 DEF Present, IsJoined
<1>3. client'[d] = client[d] /\ client[d].status # "gone"
  BY <1>2 DEF HandleStartGame, Present
<1> DEFINE a == Message("StartGameBroadcast")
           msgs == [x \in Clients |-> IF IsJoined(x) THEN <<a>> ELSE <<>>]
<1>4. toClient' = Broadcast(msgs)
  BY DEF HandleStartGame
<1>5. a \in News /\ a.type = "StartGameBroadcast" /\ <<a>> \in Seq(News) /\ <<>> \in Seq(News)
  BY NewsTypes
<1> HIDE DEF a
<1>6. msgs \in [Clients -> Seq(News)]
  BY <1>5
<1>7. msgs[d] = <<a>>
  BY <1>2
<1> HIDE DEF msgs
<1>8. Written(d, <<a>>)
  BY <1>1, <1>3, <1>4, <1>6, <1>7, BroadcastWritten
<1> DEFINE r == <<a>>
<1>9. /\ NoneOf(r, "SettingsUpdateBroadcast") /\ NoneOf(r, "ChatBroadcast")
      /\ NoneOf(r, "PlayerList") /\ Len(r) = 1
  BY <1>5, OneMessage
<1> HIDE DEF r
<1>10. SameRoster
  BY <1>1 DEF SameRoster
<1>11. ListWritten(d, r) /\ SettingWritten(d, r) /\ ChatWritten(d, r) /\ StartWritten(d, r)
  BY <1>1, <1>2, <1>9, <1>10 DEF ListWritten, SettingWritten, ChatWritten, StartWritten
<1> QED
  BY <1>8, <1>11 DEF SomethingWritten, r

\* Every step writes to everybody that stays, or is the one that reads.
LEMMA StepWrites ==
    ASSUME EntryInv, [Next]_vars, NEW d \in Clients, Present(d)', ~Receive(d)
    PROVE  \E r : SomethingWritten(d, r)
<1>1. CASE UNCHANGED vars
  <2>1. SomethingWritten(d, <<>>)
    BY <1>1, NothingWritten DEF vars, Present, IsJoined, SameRoster
  <2> QED
    BY <2>1
<1>2. ASSUME NEW c \in Clients, Click(c) \/ Break(c) \/ NoticeLoss(c) \/ Receive(c)
      PROVE  \E r : SomethingWritten(d, r)
  <2>1. SomethingWritten(d, <<>>)
    BY <1>2, ClickWrites
  <2> QED
    BY <2>1
<1>3. ASSUME NEW c \in Clients, Accept(c) \/ Reject(c) \/ (TimeOut(c) /\ ~IsJoined(c))
      PROVE  \E r : SomethingWritten(d, r)
  <2>1. SomethingWritten(d, <<>>)
    BY <1>3, ArrivalWrites
  <2> QED
    BY <2>1
<1>4. ASSUME NEW c \in Clients, HandleHostConnect(c) \/ HandleConnect(c)
      PROVE  \E r : SomethingWritten(d, r)
  BY <1>4, JoinWrites
<1>5. ASSUME NEW c \in Clients, HandleSettingsUpdate(c) \/ HandleReadyUp(c) \/ HandleChat(c)
      PROVE  \E r : SomethingWritten(d, r)
  BY <1>5, PlayerWrites
<1>6. ASSUME NEW c \in Clients, HandleLeave(c) \/ (TimeOut(c) /\ IsJoined(c))
      PROVE  \E r : SomethingWritten(d, r)
  BY <1>6, GoneWrites
<1>7. ASSUME NEW c \in Clients, HandleStartGame(c) PROVE \E r : SomethingWritten(d, r)
  BY <1>7, StartWrites
<1> QED
  BY <1>1, <1>2, <1>3, <1>4, <1>5, <1>6, <1>7 DEF Next, Handler
\* Once the room has ended, the server does nothing more.
LEMMA Ended ==
    ASSUME EntryInv, [Next]_vars, server # "setup"
    PROVE  UNCHANGED serverVars
<1>1. CASE UNCHANGED vars
  BY <1>1 DEF vars, serverVars
<1>2. ASSUME NEW c \in Clients, Click(c) \/ Break(c) \/ NoticeLoss(c) \/ Receive(c)
      PROVE  UNCHANGED serverVars
  BY <1>2 DEF Click, Connect, ClickReady, ClickAllow, SendChat, ClickStart, ClickLeave, Break,
     NoticeLoss,
     Receive
<1>3. ASSUME NEW c \in Clients, Accept(c) \/ TimeOut(c) \/ Handler(c) PROVE FALSE
  BY <1>3 DEF Accept, TimeOut, Handler, HandleHostConnect, HandleConnect, Reject,
     HandleSettingsUpdate,
     HandleReadyUp, HandleChat, HandleLeave, HandleStartGame, Handle
<1> QED
  BY <1>1, <1>2, <1>3 DEF Next

\* What a client does with the next message.
LEMMA Received ==
    ASSUME EntryInv, NEW d \in Clients, Receive(d)
    PROVE  /\ client[d].status \in {"connecting", "lobby"} /\ IsJoined(d)
           /\ toClient[d] \in Seq(News) /\ toClient[d] # <<>> /\ toClient'[d] = Tail(toClient[d])
           /\ UNCHANGED serverVars
           /\ LET m == Head(toClient[d])
              IN  /\ m \in News
                  /\ IF m.type = "PlayerList"
                       THEN client'[d].list = m.list /\ client'[d].index = m.index
                       ELSE client'[d].list = client[d].list /\ client'[d].index = client[d].index
                  /\ IF m.type = "SettingsUpdateBroadcast" THEN client'[d].allow = m.on
                                                           ELSE client'[d].allow = client[d].allow
                  /\ client'[d].status = "game" => m.type = "StartGameBroadcast"
<1>1. /\ client \in [Clients -> Dialogs] /\ DOMAIN toClient = Clients /\ toClient[d] \in Seq(News)
      /\ EntryOK(d)
  BY EntryFacts
<1>2. /\ client[d].status \in {"connecting", "lobby"} /\ toClient[d] # <<>>
      /\ toClient'[d] = Tail(toClient[d]) /\ UNCHANGED serverVars
  BY <1>1 DEF Receive
<1>3. IsJoined(d)
  BY <1>1, <1>2 DEF EntryOK
<1> DEFINE m == Head(toClient[d])
<1>4. m \in News
  BY <1>1, <1>2
<1>5. client' = [client EXCEPT ![d] =
                CASE m.type = "Welcome"                 -> [client[d] EXCEPT !.status = "lobby"]
                  [] m.type = "SettingsUpdateBroadcast" -> [client[d] EXCEPT !.allow = m.on]
                  [] m.type = "PlayerList" -> [client[d] EXCEPT !.list = m.list, !.index = m.index]
                  [] m.type = "ChatBroadcast"           -> client[d]
                  [] m.type = "GameAborted"             -> [client[d] EXCEPT !.status = "gone"]
                  [] m.type = "StartGameBroadcast"      -> [client[d] EXCEPT !.status = "game"]]
  BY DEF Receive
<1> HIDE DEF m
<1>6. m.type \in {"Welcome", "SettingsUpdateBroadcast", "PlayerList", "ChatBroadcast",
      "GameAborted",
                  "StartGameBroadcast"}
  BY <1>4 DEF News
<1>7. /\ IF m.type = "PlayerList"
           THEN client'[d].list = m.list /\ client'[d].index = m.index
           ELSE client'[d].list = client[d].list /\ client'[d].index = client[d].index
      /\ IF m.type = "SettingsUpdateBroadcast" THEN client'[d].allow = m.on
                                               ELSE client'[d].allow = client[d].allow
      /\ client'[d].status = "game" => m.type = "StartGameBroadcast"
  BY <1>1, <1>2, <1>5, <1>6 DEF Dialogs
<1> USE DEF m
<1> QED
  BY <1>1, <1>2, <1>3, <1>4, <1>7, Zenon

\* What d is about to show, before and after a step.
LEMMA ListsStep ==
    ASSUME EntryInv, [Next]_vars, ListsComing
    PROVE  ListsComing'
<1> SUFFICES ASSUME server' # "aborted", NEW d \in Clients, Present(d)'
             PROVE  \E index \in Nat : /\ WillShow(d, Roster(order, player), index)'
                                       /\ Placed(Roster(order', player'), index, d)
  BY DEF ListsComing
<1> DEFINE q == toClient[d]
           R == Roster(order, player)
           R2 == Roster(order', player')
           type == "PlayerList"
<1>1. server # "aborted"
  BY Ended DEF serverVars
<1>2. q \in Seq(News)
  BY EntryFacts
<1>3. ASSUME NEW index \in Nat,
             \/ NoneOf(toClient'[d], type) /\ R2 = client'[d].list /\ index = client'[d].index
             \/ \E m \in News : LastOf(toClient'[d], type, m) /\ R2 = m.list /\ index = m.index
      PROVE  WillShow(d, Roster(order, player), index)'
  BY <1>3 DEF WillShow
<1>4. ASSUME Present(d)
      PROVE  \E index \in Nat :
               /\ \/ NoneOf(q, type) /\ R = client[d].list /\ index = client[d].index
                  \/ \E m \in News : LastOf(q, type, m) /\ R = m.list /\ index = m.index
               /\ Placed(R, index, d)
  BY <1>1, <1>4 DEF ListsComing, WillShow
<1>5. CASE Receive(d)
  <2> DEFINE h == Head(q)
  <2>1. /\ Present(d) /\ q # <<>> /\ toClient'[d] = Tail(q) /\ R2 = R
        /\ h \in News
        /\ IF h.type = type
             THEN client'[d].list = h.list /\ client'[d].index = h.index
             ELSE client'[d].list = client[d].list /\ client'[d].index = client[d].index
    BY <1>5, Received DEF Present, serverVars
  <2>2. PICK index \in Nat :
               /\ \/ NoneOf(q, type) /\ R = client[d].list /\ index = client[d].index
                  \/ \E m \in News : LastOf(q, type, m) /\ R = m.list /\ index = m.index
               /\ Placed(R, index, d)
    BY <1>4, <2>1
  <2>3. NoneOf(q, type) => h.type # type
    BY <1>2, <2>1, FirstTaken DEF NoneOf
  <2>4. CASE h.type = type
    <3>1. PICK m \in News : LastOf(q, type, m) /\ R = m.list /\ index = m.index
      BY <2>2, <2>3, <2>4
    <3>2. (NoneOf(Tail(q), type) /\ m = h) \/ LastOf(Tail(q), type, m)
      BY <1>2, <2>1, <3>1, SameTaken
    <3> HIDE DEF q, R, R2, h
    <3>3. \/ NoneOf(toClient'[d], type) /\ R2 = client'[d].list /\ index = client'[d].index
          \/ \E n \in News : LastOf(toClient'[d], type, n) /\ R2 = n.list /\ index = n.index
      BY <2>1, <2>4, <3>1, <3>2
    <3> QED
      BY <1>3, <2>1, <2>2, <3>3 DEF R2
  <2>5. CASE h.type # type
    <3>1. /\ NoneOf(q, type) => NoneOf(Tail(q), type)
          /\ \A m : LastOf(q, type, m) => LastOf(Tail(q), type, m)
      BY <1>2, <2>1, <2>5, OtherTaken
    <3> HIDE DEF q, R, R2, h
    <3>2. \/ NoneOf(toClient'[d], type) /\ R2 = client'[d].list /\ index = client'[d].index
          \/ \E n \in News : LastOf(toClient'[d], type, n) /\ R2 = n.list /\ index = n.index
      BY <2>1, <2>2, <2>5, <3>1
    <3> QED
      BY <1>3, <2>1, <2>2, <3>2 DEF R2
  <2> QED
    BY <2>4, <2>5
<1>6. CASE ~Receive(d)
  <2>1. PICK r : SomethingWritten(d, r)
    BY <1>6, StepWrites
  <2>2. /\ r \in Seq(News) /\ toClient'[d] = q \o r
        /\ client'[d].list = client[d].list /\ client'[d].index = client[d].index
        /\ client'[d].status = client[d].status
    BY <2>1 DEF SomethingWritten, Written
  <2>3. CASE NoneOf(r, type) /\ SameRoster /\ IsJoined(d)
    <3>1. Present(d) /\ R2 = R
      BY <2>2, <2>3 DEF Present, SameRoster
    <3>2. PICK index \in Nat :
               /\ \/ NoneOf(q, type) /\ R = client[d].list /\ index = client[d].index
                  \/ \E m \in News : LastOf(q, type, m) /\ R = m.list /\ index = m.index
               /\ Placed(R, index, d)
      BY <1>4, <3>1
    <3>3. /\ NoneOf(q, type) => NoneOf(q \o r, type)
          /\ \A m : LastOf(q, type, m) => LastOf(q \o r, type, m)
      BY <1>2, <2>2, <2>3, AppendedWithout
    <3> HIDE DEF q, R, R2
    <3>4. \/ NoneOf(toClient'[d], type) /\ R2 = client'[d].list /\ index = client'[d].index
          \/ \E n \in News : LastOf(toClient'[d], type, n) /\ R2 = n.list /\ index = n.index
      BY <2>2, <3>1, <3>2, <3>3
    <3> QED
      BY <1>3, <3>1, <3>2, <3>4 DEF R2
  <2>4. CASE \E m \in News : LastOf(r, type, m) /\ m.list = R2 /\ Placed(m.list, m.index, d)
    <3>1. PICK m \in News : LastOf(r, type, m) /\ m.list = R2 /\ Placed(m.list, m.index, d)
      BY <2>4
    <3>2. LastOf(q \o r, type, m)
      BY <1>2, <2>2, <3>1, AppendedWith
    <3>3. m.index \in Nat
      <4>1. m.type = type
        BY <3>1 DEF LastOf
      <4> QED
        BY <4>1 DEF News
    <3> HIDE DEF q, R2
    <3>4. \E n \in News : LastOf(toClient'[d], type, n) /\ R2 = n.list /\ m.index = n.index
      BY <2>2, <3>1, <3>2
    <3> QED
      BY <1>3, <3>1, <3>3, <3>4 DEF R2
  <2> QED
    BY <2>1, <2>3, <2>4 DEF SomethingWritten, ListWritten
<1> QED
  BY <1>5, <1>6

\* The same for the setting.
LEMMA SettingStep ==
    ASSUME EntryInv, EntryInv', [Next]_vars, SettingsComing
    PROVE  SettingsComing'
<1> SUFFICES ASSUME server' = "setup", NEW d \in Clients, d \notin Hosts', Present(d)'
             PROVE  SettingComing(d, allow)'
  BY DEF SettingsComing
<1> DEFINE q == toClient[d]
           type == "SettingsUpdateBroadcast"
<1>1. server = "setup"
  BY Ended DEF serverVars
<1>2. q \in Seq(News)
  BY EntryFacts
<1>3. ASSUME \/ NoneOf(toClient'[d], type) /\ allow' = client'[d].allow
             \/ \E m \in News : LastOf(toClient'[d], type, m) /\ allow' = m.on
      PROVE  SettingComing(d, allow)'
  BY <1>3 DEF SettingComing
<1>4. ASSUME Present(d), d \notin Hosts
      PROVE  \/ NoneOf(q, type) /\ allow = client[d].allow
             \/ \E m \in News : LastOf(q, type, m) /\ allow = m.on
  BY <1>1, <1>4 DEF SettingsComing, SettingComing
<1>5. d \notin TokenHolders
  <2>1. EntryOK(d)'
    BY DEF EntryInv, ArrivalInv, EntriesOK
  <2> QED
    BY <2>1 DEF EntryOK, Present, Hosts
<1>6. CASE Receive(d)
  <2> DEFINE h == Head(q)
  <2>1. /\ Present(d) /\ d \notin Hosts /\ q # <<>> /\ toClient'[d] = Tail(q) /\ allow' = allow
        /\ h \in News
        /\ IF h.type = type THEN client'[d].allow = h.on ELSE client'[d].allow = client[d].allow
    BY <1>6, Received DEF Present, serverVars, Hosts
  <2>2. \/ NoneOf(q, type) /\ allow = client[d].allow
        \/ \E m \in News : LastOf(q, type, m) /\ allow = m.on
    BY <1>4, <2>1
  <2>3. NoneOf(q, type) => h.type # type
    BY <1>2, <2>1, FirstTaken DEF NoneOf
  <2>4. CASE h.type = type
    <3>1. PICK m \in News : LastOf(q, type, m) /\ allow = m.on
      BY <2>2, <2>3, <2>4
    <3>2. (NoneOf(Tail(q), type) /\ m = h) \/ LastOf(Tail(q), type, m)
      BY <1>2, <2>1, <3>1, SameTaken
    <3> HIDE DEF q, h
    <3> QED
      BY <1>3, <2>1, <2>4, <3>1, <3>2
  <2>5. CASE h.type # type
    <3>1. /\ NoneOf(q, type) => NoneOf(Tail(q), type)
          /\ \A m : LastOf(q, type, m) => LastOf(Tail(q), type, m)
      BY <1>2, <2>1, <2>5, OtherTaken
    <3> HIDE DEF q, h
    <3> QED
      BY <1>3, <2>1, <2>2, <2>5, <3>1
  <2> QED
    BY <2>4, <2>5
<1>7. CASE ~Receive(d)
  <2>1. PICK r : SomethingWritten(d, r)
    BY <1>7, StepWrites
  <2>2. /\ r \in Seq(News) /\ toClient'[d] = q \o r
        /\ client'[d].allow = client[d].allow
        /\ client'[d].status = client[d].status
    BY <1>5, <2>1 DEF SomethingWritten, Written
  <2>3. CASE NoneOf(r, type) /\ allow' = allow /\ IsJoined(d)
        /\ player'[d].isHost = player[d].isHost
    <3>1. Present(d) /\ d \notin Hosts
      BY <2>2, <2>3 DEF Present, Hosts
    <3>2. /\ NoneOf(q, type) => NoneOf(q \o r, type)
          /\ \A m : LastOf(q, type, m) => LastOf(q \o r, type, m)
      BY <1>2, <2>2, <2>3, AppendedWithout
    <3>3. \/ NoneOf(q, type) /\ allow = client[d].allow
          \/ \E m \in News : LastOf(q, type, m) /\ allow = m.on
      BY <1>4, <3>1
    <3> HIDE DEF q
    <3> QED
      BY <1>3, <2>2, <2>3, <3>2, <3>3
  <2>4. CASE \E m \in News : LastOf(r, type, m) /\ m.on = allow'
    <3>1. PICK m \in News : LastOf(r, type, m) /\ m.on = allow'
      BY <2>4
    <3>2. LastOf(q \o r, type, m)
      BY <1>2, <2>2, <3>1, AppendedWith
    <3> HIDE DEF q
    <3> QED
      BY <1>3, <2>2, <3>1, <3>2
  <2> QED
    BY <2>1, <2>3, <2>4 DEF SomethingWritten, SettingWritten
<1> QED
  BY <1>6, <1>7
\* Who stays, or is still waiting: nothing is written to those who wait.
LEMMA WaitingOrPresent ==
    ASSUME EntryInv', NEW d \in Clients, client'[d].status # "gone"
    PROVE  Present(d)' \/ toClient'[d] = <<>>
<1>1. EntryOK(d)'
  BY DEF EntryInv, ArrivalInv, EntriesOK
<1> QED
  BY <1>1 DEF EntryOK, Present

\* The start of the game is the last thing a client hears, and it shows the list then.
LEMMA StartStep ==
    ASSUME EntryInv, EntryInv', [Next]_vars, ListsComing, StartComes
    PROVE  StartComes'
<1> DEFINE Last(q, s) == 
             \A i \in DOMAIN q : q[i].type = "StartGameBroadcast" => i = Len(q) /\ s = "started"
<1>1. ASSUME NEW d \in Clients
      PROVE  /\ client[d].status # "gone" => Last(toClient[d], server)
             /\ client[d].status = "game" =>
                  /\ server = "started" /\ client[d].list = Roster(order, player)
                  /\ Placed(client[d].list, client[d].index, d)
             /\ toClient[d] \in Seq(News) /\ EntryOK(d)
  BY EntryFacts DEF StartComes
<1>2. ASSUME NEW d \in Clients, client'[d].status # "gone" PROVE Last(toClient'[d], server')
  <2>1. CASE toClient'[d] = <<>>
    BY <2>1
  <2>2. CASE Receive(d)
    <3>1. /\ client[d].status # "gone" /\ toClient[d] # <<>> /\ toClient'[d] = Tail(toClient[d])
          /\ server' = server
      BY <2>2, Received DEF serverVars
    <3> DEFINE q == toClient[d]
               r == Tail(q)
    <3>2. /\ Len(q) \in Nat \ {0} /\ Len(r) = Len(q) - 1
          /\ DOMAIN q = 1 .. Len(q) /\ DOMAIN r = 1 .. Len(q) - 1
          /\ \A i \in 1 .. Len(q) - 1 : r[i] = q[i + 1]
      BY <1>1, <3>1, FirstTaken
    <3>3. Last(q, server)
      BY <1>1, <3>1
    <3>4. toClient'[d] = r
      BY <3>1
    <3> HIDE DEF q, r
    <3>5. \A i \in DOMAIN r : i + 1 \in DOMAIN q /\ r[i] = q[i + 1]
                                  /\ (i + 1 = Len(q) => i = Len(r))
      BY <3>2
    <3>6. Last(r, server)
      BY <3>3, <3>5
    <3> QED
      BY <3>1, <3>4, <3>6
  <2>3. CASE Present(d)' /\ ~Receive(d)
    <3>1. PICK r : SomethingWritten(d, r)
      BY <2>3, StepWrites
    <3> DEFINE q == toClient[d]
    <3>2. /\ r \in Seq(News) /\ toClient'[d] = q \o r /\ client[d].status # "gone"
          /\ server # "setup" => r = <<>>
      BY <1>2, <3>1 DEF SomethingWritten, Written
    <3>3. q \in Seq(News) /\ Last(q, server)
      BY <1>1, <3>2
    <3>4. CASE server # "setup"
      <4>1. toClient'[d] = q
        BY <3>2, <3>3, <3>4
      <4>2. server' = server
        BY <3>4, Ended DEF serverVars
      <4> QED
        BY <3>3, <4>1, <4>2
    <3>5. CASE server = "setup"
      <4> DEFINE p == q \o r
                 k == Len(q)
                 l == Len(r)
      <4>1. /\ k \in Nat /\ l \in Nat /\ DOMAIN q = 1 .. k /\ DOMAIN r = 1 .. l
                 /\ DOMAIN p = 1 .. k + l
            /\ p \in Seq(News)
            /\ \A i \in 1 .. k : p[i] = q[i]
            /\ \A i \in 1 .. l : p[k + i] = r[i]
            /\ \A i \in 1 .. k + l : i \in 1 .. k \/ \E j \in 1 .. l : i = k + j
        BY <3>2, <3>3, Concatenated
      <4>2. toClient'[d] = p
        BY <3>2
      <4>3. \A i \in 1 .. k : q[i].type # "StartGameBroadcast"
        BY <3>3, <3>5, <4>1
      <4>4. Len(p) = k + l
        BY <4>1
      <4> HIDE DEF p, q, k, l
      <4>5. ASSUME NEW i \in DOMAIN p, p[i].type = "StartGameBroadcast"
            PROVE  i = Len(p) /\ server' = "started"
        <5>1. i \notin 1 .. k
          BY <4>1, <4>3, <4>5
        <5>2. PICK j \in 1 .. l : i = k + j
          BY <4>1, <5>1
        <5>3. r[j].type = "StartGameBroadcast"
          BY <4>1, <4>5, <5>2
        <5>4. ~NoneOf(r, "StartGameBroadcast")
          BY <4>1, <5>2, <5>3 DEF NoneOf
        <5>5. l = 1 /\ server' = "started"
          BY <3>1, <5>4 DEF SomethingWritten, StartWritten, l
        <5> QED
          BY <4>1, <4>4, <5>2, <5>5
      <4> QED
        BY <4>2, <4>5
    <3> QED
      BY <3>4, <3>5
  <2> QED
    BY <1>2, <2>1, <2>2, <2>3, WaitingOrPresent
<1>3. ASSUME NEW d \in Clients, client'[d].status = "game"
      PROVE  /\ server' = "started" /\ client'[d].list = Roster(order', player')
             /\ Placed(client'[d].list, client'[d].index, d)
  <2>1. CASE Receive(d)
    <3> DEFINE h == Head(toClient[d])
    <3>1. /\ client[d].status # "gone" /\ toClient[d] # <<>> /\ Present(d)
          /\ client'[d].list = client[d].list /\ client'[d].index = client[d].index
          /\ h.type = "StartGameBroadcast" /\ UNCHANGED <<order, player, server>>
      BY <1>3, <2>1, Received DEF serverVars, Present
    <3>2. 1 \in DOMAIN toClient[d] /\ toClient[d][1] = h
          /\ DOMAIN toClient[d] = 1 .. Len(toClient[d])
      BY <1>1, <3>1, FirstTaken
    <3>3. Len(toClient[d]) = 1 /\ server = "started"
      BY <1>1, <3>1, <3>2
    <3> HIDE DEF h
    <3>4. \A i \in DOMAIN toClient[d] : toClient[d][i].type = "StartGameBroadcast"
      BY <3>1, <3>2, <3>3
    <3>5. PICK index \in Nat : /\ WillShow(d, Roster(order, player), index)
                               /\ Placed(Roster(order, player), index, d)
      BY <3>1, <3>3 DEF ListsComing
    <3>6. Roster(order, player) = client[d].list /\ index = client[d].index
      <4>1. ASSUME NEW m, LastOf(toClient[d], "PlayerList", m) PROVE FALSE
        BY <3>4, <4>1 DEF LastOf
      <4> QED
        BY <3>5, <4>1 DEF WillShow
    <3> QED
      BY <3>1, <3>3, <3>5, <3>6
  <2>2. CASE ~Receive(d)
    <3>1. Present(d)'
      <4>1. EntryOK(d)'
        BY DEF EntryInv, ArrivalInv, EntriesOK
      <4> QED
        BY <1>3, <4>1 DEF EntryOK, Present
    <3>2. PICK r : SomethingWritten(d, r)
      BY <2>2, <3>1, StepWrites
    <3>3. /\ client[d].status = "game"
          /\ client'[d].list = client[d].list /\ client'[d].index = client[d].index
      BY <1>3, <3>2 DEF SomethingWritten, Written
    <3>4. server = "started"
      BY <1>1, <3>3
    <3>5. UNCHANGED <<order, player, server>>
      BY <3>4, Ended DEF serverVars
    <3> QED
      BY <1>1, <3>3, <3>4, <3>5
  <2> QED
    BY <2>1, <2>2
<1> QED
  BY <1>2, <1>3 DEF StartComes

\* main() hands over those who are in the list of the players.
LEMMA StartedStep ==
    ASSUME EntryInv, [Next]_vars, StartedWithRoster
    PROVE  StartedWithRoster'
<1> DEFINE OK ==
             server' = "started" => inGame' = Kept(order',
                   {c \in Clients : player'[c].state = "Joined"})
<1> SUFFICES OK
  BY DEF StartedWithRoster, Joined, IsJoined
<1>1. server = "started" => inGame = Kept(order, {c \in Clients : player[c].state = "Joined"})
  BY DEF StartedWithRoster, Joined, IsJoined
<1>2. CASE server # "setup"
  BY <1>1, <1>2, Ended DEF serverVars
<1>3. ASSUME NEW c \in Clients, HandleStartGame(c) PROVE OK
  BY <1>3 DEF HandleStartGame, PlayersInGame, Joined, IsJoined
<1>4. ASSUME NEW c \in Clients,
             Click(c) \/ Break(c) \/ Receive(c) \/ NoticeLoss(c) \/ Accept(c)
               \/ HandleHostConnect(c)
               \/ HandleConnect(c) \/ Reject(c) \/ HandleChat(c) \/ TimeOut(c) \/ HandleReadyUp(c)
               \/ HandleSettingsUpdate(c)
      PROVE  server' = server
  BY <1>4 DEF Click, Connect, ClickReady, ClickAllow, SendChat, ClickStart, ClickLeave, Break,
     Receive,
     NoticeLoss, Accept, HandleHostConnect, HandleConnect, Reject, HandleChat, TimeOut, serverVars,
     HandleReadyUp, HandleSettingsUpdate
<1>5. ASSUME NEW c \in Clients, HandleLeave(c) PROVE server' \in {"aborted", server}
  BY <1>5 DEF HandleLeave
<1>6. CASE UNCHANGED vars
  BY <1>1, <1>6 DEF vars
<1>7. CASE server = "setup"
  BY <1>3, <1>4, <1>5, <1>6, <1>7 DEF Next, Handler
<1> QED
  BY <1>2, <1>7

\* A chat message keeps its sender when more is written, and when others are taken.
LEMMA NamedAppended ==
    ASSUME NEW q \in Seq(News), NEW r \in Seq(News), NEW shown, NEW i \in DOMAIN q,
           NamedAt(q, shown, i)
    PROVE  NamedAt(q \o r, shown, i)
<1> DEFINE p == q \o r
           k == Len(q)
<1>1. /\ k \in Nat /\ DOMAIN q = 1 .. k
      /\ \A j \in 1 .. k : p[j] = q[j]
  BY Concatenated
<1> HIDE DEF p, k
<1>2. i \in Nat /\ \A j \in 1 .. i : p[j] = q[j]
  BY <1>1
<1>3. p[i] = q[i] /\ \A j \in 1 .. i - 1 : p[j] = q[j]
  BY <1>1, <1>2
<1>4. CASE (\A j \in 1 .. i - 1 : q[j].type # "PlayerList") /\ Attributed(shown, q[i])
  BY <1>3, <1>4 DEF NamedAt, p
<1>5. ASSUME NEW n \in 1 .. i - 1, q[n].type = "PlayerList",
             \A j \in n + 1 .. i - 1 : q[j].type # "PlayerList", Attributed(q[n].list, q[i])
      PROVE  NamedAt(p, shown, i)
  <2>1. \A j \in n + 1 .. i - 1 : j \in 1 .. i - 1
    BY <1>2
  <2> QED
    BY <1>3, <1>5, <2>1 DEF NamedAt
<1> QED
  BY <1>4, <1>5 DEF NamedAt, p

\* When the first message is taken, the list in it is the one that is shown.
LEMMA NamedFirstTaken ==
    ASSUME NEW q \in Seq(News), q # <<>>, NEW shown, NEW i \in DOMAIN Tail(q),
           NamedAt(q, shown, i + 1)
    PROVE  NamedAt(Tail(q), IF Head(q).type = "PlayerList" THEN Head(q).list ELSE shown, i)
<1> DEFINE r == Tail(q)
           h == Head(q)
           l == Len(q)
           after == IF h.type = "PlayerList" THEN h.list ELSE shown
<1>1. /\ l \in Nat \ {0} /\ DOMAIN q = 1 .. l /\ DOMAIN r = 1 .. l - 1
      /\ \A j \in 1 .. l - 1 : r[j] = q[j + 1]
      /\ q[1] = h
  BY FirstTaken
<1>2. i \in DOMAIN r
  OBVIOUS
<1>3. (i + 1) - 1 = i /\ i \in 1 .. l - 1
  BY <1>1, <1>2
<1> HIDE DEF r, l, h
<1>4. \/ (\A j \in 1 .. i : q[j].type # "PlayerList") /\ Attributed(shown, q[i + 1])
      \/ \E n \in 1 .. i : /\ q[n].type = "PlayerList"
                           /\ \A j \in n + 1 .. i : q[j].type # "PlayerList"
                           /\ Attributed(q[n].list, q[i + 1])
  BY <1>3 DEF NamedAt
<1>5. r[i] = q[i + 1] /\ \A j \in 1 .. i - 1 : r[j] = q[j + 1] /\ j + 1 \in 1 .. i
  BY <1>1, <1>3
<1>6. CASE (\A j \in 1 .. i : q[j].type # "PlayerList") /\ Attributed(shown, q[i + 1])
  <2>1. 1 \in 1 .. i
    BY <1>1, <1>3
  <2>2. h.type # "PlayerList"
    BY <1>1, <1>6, <2>1
  <2>3. \A j \in 1 .. i - 1 : r[j].type # "PlayerList"
    BY <1>5, <1>6
  <2> QED
    BY <1>5, <1>6, <2>2, <2>3 DEF NamedAt, r, h
<1>7. ASSUME NEW n \in 1 .. i, q[n].type = "PlayerList",
             \A j \in n + 1 .. i : q[j].type # "PlayerList", Attributed(q[n].list, q[i + 1])
      PROVE  NamedAt(r, after, i)
  <2>1. CASE n = 1
    <3>1. \A j \in 1 .. i - 1 : j + 1 \in n + 1 .. i
      BY <1>1, <1>3, <2>1
    <3>2. \A j \in 1 .. i - 1 : r[j].type # "PlayerList"
      BY <1>5, <1>7, <3>1
    <3>3. h.type = "PlayerList" /\ Attributed(h.list, r[i])
      BY <1>1, <1>5, <1>7, <2>1
    <3> QED
      BY <3>2, <3>3 DEF NamedAt
  <2>2. CASE n # 1
    <3> DEFINE k == n - 1
    <3>1. k \in 1 .. i - 1 /\ k + 1 = n
      BY <1>1, <1>3, <2>2
    <3> HIDE DEF k
    <3>2. \A j \in k + 1 .. i - 1 : j \in 1 .. i - 1 /\ j + 1 \in n + 1 .. i
      BY <1>1, <1>3, <3>1
    <3>3. r[k].type = "PlayerList" /\ Attributed(r[k].list, r[i])
      BY <1>5, <1>7, <3>1
    <3>4. \A j \in k + 1 .. i - 1 : r[j].type # "PlayerList"
      BY <1>5, <1>7, <3>2
    <3> QED
      BY <3>1, <3>3, <3>4 DEF NamedAt
  <2> QED
    BY <2>1, <2>2
<1> QED
  BY <1>4, <1>6, <1>7 DEF r, h

\* A new chat message is named by the list that is shown by then.
LEMMA NamedNew ==
    ASSUME NEW q \in Seq(News), NEW m \in News, m.type = "ChatBroadcast", NEW list, NEW shown,
           Attributed(list, m),
           \/ NoneOf(q, "PlayerList") /\ list = shown
           \/ \E n \in News : LastOf(q, "PlayerList", n) /\ list = n.list
    PROVE  NamedAt(q \o <<m>>, shown, Len(q) + 1)
<1> DEFINE p == q \o <<m>>
           k == Len(q)
<1>1. <<m>> \in Seq(News) /\ Len(<<m>>) = 1 /\ <<m>>[1] = m
  BY OneMessage
<1>2. /\ k \in Nat /\ DOMAIN q = 1 .. k
      /\ \A j \in 1 .. k : p[j] = q[j]
      /\ \A j \in 1 .. Len(<<m>>) : p[k + j] = <<m>>[j]
  BY <1>1, Concatenated
<1> HIDE DEF p, k
<1>3. p[k + 1] = m /\ (k + 1) - 1 = k
  BY <1>1, <1>2
<1>4. CASE NoneOf(q, "PlayerList") /\ list = shown
  <2>1. \A j \in 1 .. k : p[j].type # "PlayerList"
    BY <1>2, <1>4 DEF NoneOf
  <2>2. NamedAt(p, shown, k + 1)
    BY <1>3, <1>4, <2>1 DEF NamedAt
  <2> QED
    BY <2>2 DEF p, k
<1>5. ASSUME NEW n \in News, LastOf(q, "PlayerList", n), list = n.list
      PROVE  NamedAt(p, shown, k + 1)
  <2>1. n.type = "PlayerList"
    BY <1>5 DEF LastOf
  <2>2. PICK i \in DOMAIN q : q[i] = n /\ \A j \in DOMAIN q : j > i => q[j].type # "PlayerList"
    BY <1>5 DEF LastOf
  <2>3. p[i] = n /\ i \in 1 .. k
    BY <1>2, <2>2
  <2>4. \A j \in i + 1 .. k : p[j].type # "PlayerList"
    BY <1>2, <2>2
  <2> QED
    BY <1>3, <1>5, <2>1, <2>3, <2>4 DEF NamedAt
<1> QED
  BY <1>4, <1>5 DEF p, k

\* Every chat message on its way names its sender.
LEMMA ChatStep ==
    ASSUME EntryInv, EntryInv', [Next]_vars, ListsComing, ChatsComing
    PROVE  ChatsComing'
<1> SUFFICES ASSUME NEW d \in Clients, client'[d].status # "gone",
                    NEW i \in DOMAIN toClient'[d], toClient'[d][i].type = "ChatBroadcast"
             PROVE  NamedAt(toClient'[d], client'[d].list, i)
  BY DEF ChatsComing
<1> DEFINE q == toClient[d]
<1>1. q \in Seq(News)
  BY EntryFacts
<1>2. ASSUME client[d].status # "gone", NEW j \in DOMAIN q, q[j].type = "ChatBroadcast"
      PROVE  NamedAt(q, client[d].list, j)
  BY <1>2 DEF ChatsComing
<1>3. CASE Receive(d)
  <2> DEFINE h == Head(q)
             shown == client[d].list
             after == IF h.type = "PlayerList" THEN h.list ELSE shown
  <2>1. /\ client[d].status # "gone" /\ q # <<>> /\ toClient'[d] = Tail(q)
        /\ client'[d].list = after
    BY <1>3, Received
  <2>2. /\ DOMAIN q = 1 .. Len(q) /\ DOMAIN Tail(q) = 1 .. Len(q) - 1 /\ Len(q) \in Nat \ {0}
        /\ \A j \in 1 .. Len(q) - 1 : Tail(q)[j] = q[j + 1]
    BY <1>1, <2>1, FirstTaken
  <2> HIDE DEF q
  <2>3. i \in DOMAIN Tail(q) /\ i + 1 \in DOMAIN q /\ q[i + 1].type = "ChatBroadcast"
    BY <2>1, <2>2
  <2>4. NamedAt(q, shown, i + 1)
    BY <1>2, <2>1, <2>3
  <2>5. NamedAt(Tail(q), after, i)
    BY <1>1, <2>1, <2>3, <2>4, NamedFirstTaken
  <2> QED
    BY <2>1, <2>5
<1>4. CASE Present(d)' /\ ~Receive(d)
  <2>1. PICK r : SomethingWritten(d, r)
    BY <1>4, StepWrites
  <2>2. /\ r \in Seq(News) /\ toClient'[d] = q \o r /\ client[d].status # "gone"
        /\ client'[d].list = client[d].list /\ (server # "setup" => r = <<>>)
        /\ ChatWritten(d, r)
    BY <2>1 DEF SomethingWritten, Written
  <2> DEFINE k == Len(q)
             l == Len(r)
             p == q \o r
  <2>3. /\ k \in Nat /\ l \in Nat /\ DOMAIN q = 1 .. k /\ DOMAIN r = 1 .. l /\ DOMAIN p = 1 .. k + l
        /\ \A j \in 1 .. k : p[j] = q[j]
        /\ \A j \in 1 .. l : p[k + j] = r[j]
        /\ \A j \in 1 .. k + l : j \in 1 .. k \/ \E n \in 1 .. l : j = k + n
    BY <1>1, <2>2, Concatenated
  <2>4. i \in DOMAIN p /\ p[i].type = "ChatBroadcast"
    BY <2>2
  <2> HIDE DEF q, k, l, p
  <2>5. CASE i \in 1 .. k
    <3>1. i \in DOMAIN q /\ q[i].type = "ChatBroadcast"
      BY <2>3, <2>4, <2>5
    <3>2. NamedAt(q, client[d].list, i)
      BY <1>2, <2>2, <3>1
    <3>3. NamedAt(q \o r, client[d].list, i)
      BY <1>1, <2>2, <3>1, <3>2, NamedAppended
    <3> QED
      BY <2>2, <3>3
  <2>6. ASSUME NEW n \in 1 .. l, i = k + n PROVE NamedAt(toClient'[d], client'[d].list, i)
    <3>1. r[n].type = "ChatBroadcast"
      BY <2>3, <2>4, <2>6
    <3>2. ~NoneOf(r, "ChatBroadcast")
      BY <2>3, <2>6, <3>1 DEF NoneOf
    <3>3. PICK m \in News : r = <<m>> /\ IsJoined(d) /\ Attributed(Roster(order, player), m)
      BY <2>2, <3>2 DEF ChatWritten
    <3>4. l = 1 /\ r[1] = m
      BY <3>3, OneMessage DEF l
    <3>5. n = 1 /\ m.type = "ChatBroadcast"
      BY <2>3, <2>6, <3>1, <3>4
    <3>6. server = "setup"
      <4>1. r # <<>>
        BY <3>3
      <4> QED
        BY <2>2, <4>1
    <3> DEFINE R == Roster(order, player)
    <3>7. \E index \in Nat : WillShow(d, R, index)
      BY <2>2, <3>3, <3>6 DEF ListsComing, Present
    <3> HIDE DEF R
    <3>8. \/ NoneOf(q, "PlayerList") /\ R = client[d].list
          \/ \E x \in News : LastOf(q, "PlayerList", x) /\ R = x.list
      BY <3>7 DEF WillShow, q
    <3>9. NamedAt(q \o <<m>>, client[d].list, Len(q) + 1)
      BY <1>1, <3>3, <3>5, <3>8, NamedNew DEF R
    <3>10. i = Len(q) + 1
      BY <2>6, <3>5 DEF k
    <3> QED
      BY <2>2, <3>3, <3>9, <3>10
  <2> QED
    BY <2>3, <2>4, <2>5, <2>6
<1>5. CASE toClient'[d] = <<>>
  BY <1>5
<1> QED
  BY <1>3, <1>4, <1>5, WaitingOrPresent
\* In the beginning nobody is there.
LEMMA EntryInit == Init => EntryInv
<1> SUFFICES ASSUME Init PROVE EntryInv
  OBVIOUS
<1>1. RoomInv
  BY RoomInit
<1>2. order = <<>> /\ \A c \in Clients : player[c] = NoPlayer
  BY DEF Init
<1>3. \A c \in Clients : ~InMatch(c) /\ ~IsJoined(c) /\ ~player[c].ready
  BY <1>2 DEF InMatch, IsJoined, NoPlayer
<1>4. order \in Seq(Clients) /\ DOMAIN order = {}
  BY <1>2
<1>5. client \in [Clients -> Dialogs]
  <2>1. <<>> \in Seq(Entries)
    OBVIOUS
  <2> QED
    BY <2>1 DEF Init, Dialogs
<1>6. \A c \in Clients : client[c].status = "away" /\ toServer[c] = <<>> /\ toClient[c] = <<>>
  BY DEF Init
<1>7. ConnectionsOK
  BY <1>3, <1>4, <1>5 DEF ConnectionsOK, Init
<1>8. \A c \in Clients : EntryOK(c)
  BY <1>3, <1>6 DEF EntryOK
<1>9. NewsOK
  BY NewsTypes DEF NewsOK, Init
<1> QED
  BY <1>1, <1>7, <1>8, <1>9 DEF EntryInv, ArrivalInv, EntriesOK

\* What everybody is about to show.
ViewInv == ListsComing /\ SettingsComing /\ StartComes /\ StartedWithRoster /\ ChatsComing

\* In the beginning nothing is on its way.
LEMMA ViewInit == Init => ViewInv
<1> SUFFICES ASSUME Init PROVE ViewInv
  OBVIOUS
<1>1. \A c \in Clients : ~IsJoined(c) /\ client[c].status = "away" /\ DOMAIN toClient[c] = {}
  BY DEF Init, IsJoined, NoPlayer
<1>2. server = "setup"
  BY DEF Init
<1> QED
  BY <1>1, <1>2 DEF ViewInv, ListsComing, SettingsComing, StartComes, StartedWithRoster,
     ChatsComing, Present

\* What everybody is about to show stays right.
LEMMA ViewStep == EntryInv /\ ViewInv /\ [Next]_vars => EntryInv' /\ ViewInv'
<1> SUFFICES ASSUME EntryInv, ViewInv, [Next]_vars PROVE EntryInv' /\ ViewInv'
  OBVIOUS
<1>1. EntryInv'
  BY EntryStep
<1>2. ListsComing' /\ SettingsComing' /\ StartComes' /\ StartedWithRoster' /\ ChatsComing'
  BY <1>1, ListsStep, SettingStep, StartStep, StartedStep, ChatStep DEF ViewInv
<1> QED
  BY <1>1, <1>2 DEF ViewInv

\* What is on its way to every client is right in every state of every match setup.
THEOREM ViewInvariant == Spec => [](EntryInv /\ ViewInv)
BY EntryInit, ViewInit, ViewStep, PTL DEF Spec

\* The last message of a type is the newest of those that are coming.
LEMMA NewestIs ==
    ASSUME NewsOK, NEW c \in Clients, NEW type
    PROVE  /\ NoneOf(toClient[c], type) => Coming(c, type) = {}
           /\ \A m : LastOf(toClient[c], type, m) =>
                       Coming(c, type) # {} /\ Newest(c, Coming(c, type)) = m
<1> DEFINE q == toClient[c]
           S == Coming(c, type)
<1>1. S = {i \in DOMAIN q : q[i].type = type} /\ DOMAIN q = 1 .. Len(q) /\ Len(q) \in Nat
  BY DEF Coming, NewsOK
<1>2. Newest(c, S) = q[CHOOSE i \in S : \A j \in S : j <= i]
  BY DEF Newest
<1> HIDE DEF q, S
<1>3. NoneOf(q, type) => S = {}
  BY <1>1 DEF NoneOf
<1>4. ASSUME NEW m, LastOf(q, type, m) PROVE S # {} /\ Newest(c, S) = m
  <2>1. PICK i \in DOMAIN q : /\ q[i] = m /\ m.type = type
                              /\ \A j \in DOMAIN q : j > i => q[j].type # type
    BY <1>4 DEF LastOf
  <2>2. i \in S /\ \A j \in S : j <= i
    BY <1>1, <2>1
  <2>3. \A k \in S : (\A j \in S : j <= k) => k = i
    BY <1>1, <2>2
  <2>4. (CHOOSE k \in S : \A j \in S : j <= k) = i
    BY <2>2, <2>3
  <2> QED
    BY <1>2, <2>1, <2>2, <2>4
<1> QED
  BY <1>3, <1>4 DEF q, S

\* What everybody is about to show is what the properties say.
LEMMA ConvergeFrom == EntryInv /\ ViewInv => ListsConverge /\ SettingsConverge
<1> SUFFICES ASSUME EntryInv, ViewInv PROVE ListsConverge /\ SettingsConverge
  OBVIOUS
<1>1. NewsOK
  BY DEF EntryInv
<1>2. ListsConverge
  <2> SUFFICES ASSUME server # "aborted", NEW c \in Clients, Present(c)
               PROVE  /\ LastList(c).list = Roster(order, player)
                      /\ LastList(c).list[LastList(c).index].id = c
    BY DEF ListsConverge
  <2> DEFINE R == Roster(order, player)
  <2>1. PICK index \in Nat : WillShow(c, R, index) /\ Placed(R, index, c)
    BY DEF ViewInv, ListsComing
  <2> HIDE DEF R
  <2>2. CASE NoneOf(toClient[c], "PlayerList") /\ R = client[c].list /\ index = client[c].index
    <3>1. Coming(c, "PlayerList") = {}
      BY <1>1, <2>2, NewestIs
    <3>2. LastList(c).list = client[c].list /\ LastList(c).index = client[c].index
      BY <3>1 DEF LastList
    <3> QED
      BY <2>1, <2>2, <3>2 DEF Placed, R
  <2>3. ASSUME NEW m \in News, LastOf(toClient[c], "PlayerList", m), R = m.list, index = m.index
        PROVE  LastList(c).list = R /\ LastList(c).list[LastList(c).index].id = c
    <3>1. Coming(c, "PlayerList") # {} /\ Newest(c, Coming(c, "PlayerList")) = m
      BY <1>1, <2>3, NewestIs
    <3>2. LastList(c).list = m.list /\ LastList(c).index = m.index
      BY <3>1 DEF LastList
    <3> QED
      BY <2>1, <2>3, <3>2 DEF Placed
  <2> QED
    BY <2>1, <2>2, <2>3 DEF WillShow, R
<1>3. SettingsConverge
  <2> DEFINE type == "SettingsUpdateBroadcast"
  <2> SUFFICES ASSUME server = "setup", NEW c \in Clients \ Hosts, Present(c)
               PROVE  (IF Coming(c, type) = {} THEN client[c].allow
                          ELSE Newest(c, Coming(c, type)).on) = allow
    BY DEF SettingsConverge
  <2>1. SettingComing(c, allow)
    BY DEF ViewInv, SettingsComing
  <2>2. CASE NoneOf(toClient[c], type) /\ allow = client[c].allow
    BY <1>1, <2>2, NewestIs
  <2>3. ASSUME NEW m \in News, LastOf(toClient[c], type, m), allow = m.on
        PROVE  (IF Coming(c, type) = {} THEN client[c].allow
                   ELSE Newest(c, Coming(c, type)).on) = allow
    BY <1>1, <2>3, NewestIs
  <2> QED
    BY <2>1, <2>2, <2>3 DEF SettingComing
<1> QED
  BY <1>2, <1>3

\* The list a client starts with is the one the server has handed over.
LEMMA SameGameFrom == EntryInv /\ ViewInv => SamePlayersInGame
<1> SUFFICES ASSUME EntryInv, ViewInv, NEW c \in Clients, client[c].status = "game"
             PROVE  /\ [i \in DOMAIN client[c].list |-> client[c].list[i].id] = inGame
                    /\ inGame[client[c].index] = c
  BY DEF SamePlayersInGame
<1> DEFINE J == {d \in Clients : player[d].state = "Joined"}
           joined == Kept(order, J)
           list == client[c].list
<1>1. /\ server = "started" /\ list = Roster(order, player)
      /\ Placed(list, client[c].index, c)
  BY DEF ViewInv, StartComes
<1>2. inGame = joined
  BY <1>1 DEF ViewInv, StartedWithRoster, Joined, IsJoined
<1>3. list = [i \in DOMAIN joined |-> [id |-> joined[i], color |-> player[joined[i]].color,
                                       ready |-> player[joined[i]].ready]]
  BY <1>1 DEF Roster
<1>4. joined \in Seq(Clients)
  <2>1. order \in Seq(Clients)
    BY JoinedInOrder
  <2> HIDE DEF J
  <2> QED
    BY <2>1, KeptElements
<1> HIDE DEF joined, list
<1>5. DOMAIN list = DOMAIN joined /\ \A i \in DOMAIN joined : list[i].id = joined[i]
  BY <1>3
<1>6. joined = [i \in DOMAIN joined |-> joined[i]]
  BY <1>4
<1>7. [i \in DOMAIN list |-> list[i].id] = joined
  BY <1>5, <1>6
<1>8. joined[client[c].index] = c
  BY <1>1, <1>5 DEF Placed
<1> QED
  BY <1>2, <1>7, <1>8 DEF list

\* SendPlayerListMessages and SendWelcomeAndJoinMessage: whatever comes, goes and is
\* clicked, what is on its way to a player ends with the list the server has, and with
\* the place of the player in it.
THEOREM ListsAlwaysConverge == Spec => []ListsConverge
BY ViewInvariant, ConvergeFrom, PTL

\* HandleSettingsUpdate and SendWelcomeAndJoinMessage: every player but the host is
\* about to show the setting of the server.
THEOREM SettingsAlwaysConverge == Spec => []SettingsConverge
BY ViewInvariant, ConvergeFrom, PTL

\* HandleStartGame and the hand-over in main(): every client in the game has the same
\* players, in the same order, as the server, and knows which of them it is.
THEOREM AlwaysSamePlayers == Spec => []SamePlayersInGame
BY ViewInvariant, SameGameFrom, PTL

\* HandleChat: the index in a chat message names its sender in the list that the client
\* shows when it handles the message.
THEOREM ChatsAlwaysAttributed == Spec => ChatsAttributed
<1>1. ASSUME EntryInv, ViewInv, NEW c \in Clients, client[c].status = "lobby", toClient[c] # <<>>,
             Head(toClient[c]).type = "ChatBroadcast"
      PROVE  LET m == Head(toClient[c])
             IN  m.index \in DOMAIN client[c].list /\ client[c].list[m.index].id = m.from
  <2> DEFINE q == toClient[c]
             m == Head(q)
  <2>1. q \in Seq(News)
    BY <1>1, EntryFacts
  <2>2. 1 \in DOMAIN q /\ q[1] = m
    BY <1>1, <2>1, FirstTaken
  <2>3. NamedAt(q, client[c].list, 1)
    BY <1>1, <2>2 DEF ViewInv, ChatsComing
  <2> HIDE DEF q, m
  <2>4. Attributed(client[c].list, m)
    BY <2>2, <2>3 DEF NamedAt
  <2> QED
    BY <2>4 DEF Attributed, q, m
<1>2. EntryInv /\ ViewInv =>
        \A c \in Clients :
         (/\ client[c].status = "lobby" /\ toClient[c] # <<>>
          /\ Head(toClient[c]).type = "ChatBroadcast"
          /\ toClient'[c] = Tail(toClient[c]))
         => LET m == Head(toClient[c])
            IN  m.index \in DOMAIN client[c].list /\ client[c].list[m.index].id = m.from
  BY <1>1
<1> QED
  BY <1>2, ViewInvariant, PTL DEF ChatsAttributed

(***************************************************************************)
(* The pause.  A host that is lost leaves accepting as it was, so somebody *)
(* else with the token may find the room closed against the settings.      *)
(***************************************************************************)
LEMMA PauseKept ==
    ASSUME PauseInv, paused' = paused, allow' = allow, Hosts' = Hosts,
           \A h \in Hosts : player'[h].ready = player[h].ready,
           \A c \in TokenHolders : Asking(c)' => Asking(c),
           server' = "setup" => server = "setup"
    PROVE  PauseInv'
<1>1. PausedByHost'
  BY DEF PauseInv, PausedByHost
<1>2. HolderCanCome' => HolderCanCome
  BY DEF HolderCanCome
<1>3. PausedBeforeHost'
  BY <1>2 DEF PauseInv, PausedBeforeHost
<1> QED
  BY <1>1, <1>3 DEF PauseInv

\* Every step keeps the pause what the host wants, or else nobody can become the host.
LEMMA PauseStep ==
    ASSUME \A c \in TokenHolders \cap Lossy : TokenHolders = {c},
           EntryInv, EntryInv', PauseInv, [Next]_vars
    PROVE  PauseInv'
<1>1. /\ player \in [Clients -> Players] /\ client \in [Clients -> Dialogs]
      /\ TokenHolders \subseteq Clients /\ Hosts \subseteq Clients
      /\ AtMostOneHost /\ HostsHoldToken
  BY LobbyAssumption DEF EntryInv, ArrivalInv, ConnectionsOK, RoomInv, TableInv, TableOK, Hosts
<1>2. CASE UNCHANGED vars
  BY <1>2, PauseKept DEF vars, Hosts, Asking, InMatch
<1>3. ASSUME NEW c \in Clients, Click(c) \/ Break(c) \/ NoticeLoss(c) \/ Receive(c) PROVE PauseInv'
  <2>1. UNCHANGED serverVars
    BY <1>3 DEF Click, Connect, ClickReady, ClickAllow, SendChat, ClickStart, ClickLeave, Break,
       NoticeLoss, Receive
  <2>2. \A d \in Clients : client'[d].status \in {"away", "connecting"} =>
                             client[d].status \in {"away", "connecting"}
    <3>1. CASE Connect(c) \/ Break(c) \/ NoticeLoss(c) \/ Receive(c)
      <4>1. client[c].status \in {"away", "connecting"} \/ client[c].status = "lobby"
        BY <3>1 DEF Connect, Break, NoticeLoss, Receive
      <4>2. \A d \in Clients \ {c} : client'[d] = client[d]
        BY <1>1, <3>1 DEF Connect, Break, NoticeLoss, Receive
      <4>3. client[c].status = "lobby" => client'[c].status \notin {"away", "connecting"}
        <5>1. CASE Connect(c) \/ Break(c) \/ NoticeLoss(c)
          BY <1>1, <5>1 DEF Connect, Break, NoticeLoss, Dialogs
        <5>2. CASE Receive(c)
          <6> DEFINE m == Head(toClient[c])
          <6>1. m \in News
            BY <5>2, Received
          <6>2. client' = [client EXCEPT ![c] =
                CASE m.type = "Welcome"                 -> [client[c] EXCEPT !.status = "lobby"]
                  [] m.type = "SettingsUpdateBroadcast" -> [client[c] EXCEPT !.allow = m.on]
                  [] m.type = "PlayerList" -> [client[c] EXCEPT !.list = m.list, !.index = m.index]
                  [] m.type = "ChatBroadcast"           -> client[c]
                  [] m.type = "GameAborted"             -> [client[c] EXCEPT !.status = "gone"]
                  [] m.type = "StartGameBroadcast"      -> [client[c] EXCEPT !.status = "game"]]
            BY <5>2 DEF Receive
          <6> HIDE DEF m
          <6>3. m.type \in {"Welcome", "SettingsUpdateBroadcast", "PlayerList", "ChatBroadcast",
                            "GameAborted", "StartGameBroadcast"}
            BY <6>1 DEF News
          <6> QED
            BY <1>1, <6>2, <6>3 DEF Dialogs
        <5> QED
          BY <3>1, <5>1, <5>2
      <4> QED
        BY <4>1, <4>2, <4>3
    <3>2. CASE ClickReady(c) \/ ClickAllow(c) \/ SendChat(c) \/ ClickStart(c) \/ ClickLeave(c)
      <4>1. CASE ClickLeave(c)
        BY <1>1, <4>1 DEF ClickLeave, Dialogs
      <4>2. CASE ClickReady(c) \/ ClickAllow(c) \/ SendChat(c) \/ ClickStart(c)
        <5>1. \A d \in Clients \ {c} : client'[d] = client[d]
          BY <1>1, <4>2 DEF ClickReady, ClickAllow, SendChat, ClickStart
        <5>2. client[c].status = "lobby" /\ client'[c].status = "lobby"
          BY <1>1, <4>2 DEF ClickReady, ClickAllow, SendChat, ClickStart, InLobby, Dialogs
        <5> QED
          BY <5>1, <5>2
      <4> QED
        BY <3>2, <4>1, <4>2
    <3> QED
      BY <1>3, <3>1, <3>2 DEF Click
  <2>3. /\ paused' = paused /\ allow' = allow /\ Hosts' = Hosts /\ server' = server
             /\ player' = player
        /\ \A d \in Clients : InMatch(d)' = InMatch(d)
    BY <2>1 DEF serverVars, Hosts, InMatch
  <2> QED
    BY <1>1, <2>2, <2>3, PauseKept DEF Asking
<1>4. ASSUME NEW c \in Clients, c \notin Hosts, server' = "setup" => server = "setup",
             Accept(c) \/ Reject(c) \/ TimeOut(c) \/ HandleLeave(c)
      PROVE  PauseInv'
  <2>1. PICK e \in {NoPlayer, NewPlayer} : player' = [player EXCEPT ![c] = e]
    BY <1>4 DEF Accept, Reject, TimeOut, HandleLeave
  <2>2. paused' = paused /\ allow' = allow
    BY <1>4 DEF Accept, Reject, TimeOut, HandleLeave
  <2>3. Hosts' = Hosts /\ \A d \in Clients \ {c} : player'[d] = player[d]
    BY <1>1, <1>4, <2>1 DEF Hosts, NoPlayer, NewPlayer
  <2>4. \A d \in Clients \ {c} : client'[d].status = client[d].status
    BY <1>1, <1>4 DEF Accept, Reject, TimeOut, HandleLeave
  <2>5. Asking(c)' => Asking(c)
    <3>1. CASE Accept(c)
      BY <3>1 DEF Accept, Asking
    <3>2. CASE Reject(c) \/ TimeOut(c) \/ HandleLeave(c)
      BY <3>2 DEF Reject, TimeOut, HandleLeave, Handle, Asking
    <3> QED
      BY <1>4, <3>1, <3>2
  <2>6. \A d \in Clients : Asking(d)' => Asking(d)
    BY <2>3, <2>4, <2>5 DEF Asking, InMatch
  <2> QED
    BY <1>1, <1>4, <2>2, <2>3, <2>6, PauseKept
<1>5. ASSUME NEW c \in Clients, Accept(c) \/ Reject(c) PROVE PauseInv'
  <2>1. ~IsJoined(c)
    <3>1. CASE Accept(c)
      BY <3>1 DEF Accept, InMatch, IsJoined
    <3>2. CASE Reject(c)
      BY <3>2, SenderJoined DEF Reject, InvitationTypes
    <3> QED
      BY <1>5, <3>1, <3>2
  <2>2. c \notin Hosts
    BY <1>1, <2>1 DEF AtMostOneHost, Joined
  <2>3. server' = server
    BY <1>5 DEF Accept, Reject
  <2> QED
    BY <1>4, <1>5, <2>2, <2>3
<1>6. ASSUME NEW c \in Clients, HandleLeave(c) PROVE PauseInv'
  <2>1. CASE c \notin Hosts
    BY <1>4, <1>6, <2>1 DEF HandleLeave, Handle
  <2>2. CASE c \in Hosts
    <3>1. server' = "aborted" /\ player' = [player EXCEPT ![c] = NoPlayer]
      BY <1>6, <2>2 DEF HandleLeave, Hosts
    <3>2. Hosts' = {}
      BY <1>1, <2>2, <3>1 DEF Hosts, AtMostOneHost, NoPlayer
    <3> QED
      BY <3>1, <3>2 DEF PauseInv, PausedByHost, PausedBeforeHost
  <2> QED
    BY <2>1, <2>2
<1>7. ASSUME NEW c \in Clients, TimeOut(c) PROVE PauseInv'
  <2>1. CASE c \notin Hosts
    BY <1>4, <1>7, <2>1 DEF TimeOut
  <2>2. CASE c \in Hosts
    <3>1. c \in Lossy /\ player' = [player EXCEPT ![c] = NoPlayer]
      BY <1>7 DEF TimeOut
    <3>2. TokenHolders = {c}
      BY <1>1, <2>2, <3>1 DEF HostsHoldToken
    <3>3. Hosts' = {}
      BY <1>1, <2>2, <3>1 DEF Hosts, AtMostOneHost, NoPlayer
    <3>4. ~Asking(c)'
      BY <1>1, <1>7, <3>1 DEF TimeOut, Asking, InMatch, NoPlayer, Dialogs
    <3>5. ~HolderCanCome'
      BY <3>2, <3>4 DEF HolderCanCome
    <3> QED
      BY <3>3, <3>5 DEF PauseInv, PausedByHost, PausedBeforeHost
  <2> QED
    BY <2>1, <2>2
<1>8. ASSUME NEW c \in Clients, HandleHostConnect(c) PROVE PauseInv'
  <2>1. /\ Hosts = {} /\ Handle(c, "HostConnect") /\ paused' = paused /\ allow' = allow
        /\ player' = [player EXCEPT ![c] = [player[c] EXCEPT !.state = "Joined", !.isHost = TRUE,
                                                             !.color = 0]]
    BY <1>8 DEF HandleHostConnect, HasHost
  <2>2. c \in TokenHolders
    <3>1. Head(toServer[c]) \in FromClient(c) /\ Head(toServer[c]).type = "HostConnect"
      BY <2>1, TakenEntry
    <3> QED
      BY <3>1 DEF FromClient
  <2>3. HolderCanCome /\ server = "setup"
    BY <2>1, <2>2, TakenEntry DEF HolderCanCome
  <2>4. paused <=> ~allow
    BY <2>1, <2>3 DEF PauseInv, PausedBeforeHost
  <2>5. ~player[c].ready
    <3>1. EntryOK(c) /\ ~IsJoined(c)
      BY <2>1, EntryFacts, SenderJoined DEF InvitationTypes
    <3> QED
      BY <3>1 DEF EntryOK
  <2>6. Hosts' = {c} /\ ~player'[c].ready
    BY <1>1, <2>1, <2>5 DEF Hosts, Players
  <2> QED
    BY <2>1, <2>4, <2>6 DEF PauseInv, PausedByHost, PausedBeforeHost
<1>9. ASSUME NEW c \in Clients, HandleConnect(c) PROVE PauseInv'
  <2>1. Hosts # {} /\ Handle(c, "Connect") /\ paused' = paused /\ allow' = allow
    BY <1>9 DEF HandleConnect, HasHost
  <2>2. \A d \in Clients : player'[d].isHost = player[d].isHost
        /\ player'[d].ready = player[d].ready
    <3>1. PICK color \in Colors :
                 player' = [player EXCEPT ![c] = [player[c] EXCEPT !.state = "Joined",
                       !.color = color]]
      BY <1>9 DEF HandleConnect
    <3> QED
      BY <1>1, <3>1 DEF Players
  <2>3. Hosts' = Hosts
    BY <2>2 DEF Hosts
  <2> QED
    BY <1>1, <2>1, <2>2, <2>3 DEF PauseInv, PausedByHost, PausedBeforeHost
<1>10. ASSUME NEW c \in Clients, HandleSettingsUpdate(c) PROVE PauseInv'
  <2>1. player' = player /\ paused' = (~allow' \/ HostReady)
    BY <1>10 DEF HandleSettingsUpdate
  <2>2. Hosts' = Hosts
    BY <2>1 DEF Hosts
  <2>3. \A h \in Hosts : HostReady <=> player[h].ready
    BY <1>1 DEF HostReady, AtMostOneHost
  <2>4. Hosts = {} => ~HostReady
    BY DEF HostReady
  <2> QED
    BY <2>1, <2>2, <2>3, <2>4 DEF PauseInv, PausedByHost, PausedBeforeHost
<1>11. ASSUME NEW c \in Clients, HandleReadyUp(c) PROVE PauseInv'
  <2> DEFINE ready == Head(toServer[c]).on
  <2>1. /\ player' = [player EXCEPT ![c] = [player[c] EXCEPT !.ready = ready]]
        /\ paused' = IF player[c].isHost THEN ~allow \/ ready ELSE paused
        /\ allow' = allow /\ client' = client /\ server' = server /\ Handle(c, "ReadyUp")
    BY <1>11 DEF HandleReadyUp
  <2> HIDE DEF ready
  <2>2. /\ \A d \in Clients : /\ player'[d].isHost = player[d].isHost
                              /\ player'[d].state = player[d].state
        /\ \A d \in Clients \ {c} : player'[d].ready = player[d].ready
        /\ player'[c].ready = ready
    BY <1>1, <2>1 DEF Players
  <2>3. Hosts' = Hosts /\ \A d \in Clients : InMatch(d)' = InMatch(d)
    BY <2>2 DEF Hosts, InMatch
  <2>4. CASE player[c].isHost
    <3>1. \A h \in Hosts : h = c
      BY <1>1, <2>4 DEF AtMostOneHost, Hosts
    <3>2. c \in Hosts
      BY <2>4 DEF Hosts
    <3> QED
      BY <2>1, <2>2, <2>3, <2>4, <3>1, <3>2 DEF PauseInv, PausedByHost, PausedBeforeHost
  <2>5. CASE ~player[c].isHost
    <3>1. c \notin Hosts /\ paused' = paused
      BY <2>1, <2>5 DEF Hosts
    <3>2. \A d \in TokenHolders : Asking(d)' => Asking(d)
      BY <1>1, <2>1, <2>3 DEF Asking
    <3> QED
      BY <1>1, <2>1, <2>2, <2>3, <3>1, <3>2, PauseKept
  <2> QED
    BY <2>4, <2>5
<1>12. ASSUME NEW c \in Clients, HandleChat(c) \/ HandleStartGame(c) PROVE PauseInv'
  <2>1. /\ player' = player /\ paused' = paused /\ allow' = allow /\ server = "setup"
        /\ \A d \in Clients : client'[d].status \in {"away", "connecting"}
              => client'[d].status = client[d].status
    <3>1. CASE HandleChat(c)
      BY <3>1 DEF HandleChat, Handle
    <3>2. CASE HandleStartGame(c)
      <4>1. \A d \in Clients : client'[d] = client[d]
            \/ client'[d] = [client[d] EXCEPT !.status = "gone"]
        BY <3>2 DEF HandleStartGame
      <4>2. \A d \in Clients : client'[d] = client[d] \/ client'[d].status = "gone"
        BY <1>1, <4>1 DEF Dialogs
      <4>3. player' = player /\ paused' = paused /\ allow' = allow /\ server = "setup"
        BY <3>2 DEF HandleStartGame, Handle
      <4> QED
        BY <4>2, <4>3
    <3> QED
      BY <1>12, <3>1, <3>2
  <2>2. Hosts' = Hosts /\ \A d \in Clients : InMatch(d)' = InMatch(d)
    BY <2>1 DEF Hosts, InMatch
  <2>3. \A d \in TokenHolders : Asking(d)' => Asking(d)
    BY <1>1, <2>1, <2>2 DEF Asking
  <2> QED
    BY <1>1, <2>1, <2>2, <2>3, PauseKept
<1> QED
  BY <1>2, <1>3, <1>5, <1>6, <1>7, <1>8, <1>9, <1>10, <1>11, <1>12 DEF Next, Handler

\* HandleSettingsUpdate, HandleReadyUp and the acceptor: as long as nobody who knows the
\* host token can be lost while somebody else knows it, the room is closed exactly while
\* the host forbids new connections or is ready.
THEOREM AlwaysPausedByHost ==
    ASSUME \A c \in TokenHolders \cap Lossy : TokenHolders = {c}
    PROVE  Spec => []PausedByHost
<1>1. Init => PauseInv
  <2> SUFFICES ASSUME Init PROVE PauseInv
    OBVIOUS
  <2>1. Hosts = {} /\ ~paused /\ allow
    BY DEF Init, Hosts, NoPlayer
  <2> QED
    BY <2>1 DEF PauseInv, PausedByHost, PausedBeforeHost
<1>2. EntryInv /\ PauseInv /\ [Next]_vars => EntryInv' /\ PauseInv'
  BY EntryStep, PauseStep
<1>3. PauseInv => PausedByHost
  BY DEF PauseInv
<1> QED
  BY <1>1, <1>2, <1>3, EntryInit, PTL DEF Spec
=============================================================================
