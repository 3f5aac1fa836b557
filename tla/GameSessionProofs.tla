-------------------------- MODULE GameSessionProofs --------------------------
(***************************************************************************)
(* Proofs about the way from the lobby dialog into the match: for every    *)
(* number of players and loading steps, whoever leaves, crashes or fails   *)
(* to load, and however much of a connection one read brings, what the     *)
(* clients do and show agrees with the server.                             *)
(***************************************************************************)
EXTENDS GameSession, Induction, SequenceTheorems

Start == News("StartGameBroadcast", 0)
Begin == News("GameBegin", 0)
Leaves(q) == News("PlayerLeaveBroadcast", q)

\* What the server writes, and what the clients write.
Bulletins ==
    {Start, Begin} \cup {Leaves(q) : q \in Sitters}
      \cup {News("LoadingProgressBroadcast", q) : q \in Sitters}

Reports == {"LoadingProgress", "LoadingFinished", "DeleteObject", "Leave"}

Games ==
    [isConnected : SUBSET Sitters, finishedLoading : SUBSET Sitters, map : BOOLEAN,
     shouldExit : BOOLEAN, sent : [Sitters -> Seq(Bulletins)]]

Programs ==
    [at : {"lobby", "loading", "playing", "closed"}, loadingStep : Int, loaded : BOOLEAN,
     gameBegun : BOOLEAN, left : SUBSET Sitters, missed : SUBSET Sitters]

SessionTypes ==
    /\ game \in Games
    /\ toGame \in [Sitters -> Seq(Reports)]
    /\ window \in [Sitters -> Programs]

(***************************************************************************)
(* The inductive invariant.  A part about the server and what it has       *)
(* written is stated of any state s of it, for a read handles one message  *)
(* after the other and each finds the state that the last one has left.    *)
(*                                                                         *)
(* That nobody is ahead of the server needs: a map is only made when all   *)
(* have finished loading, the news that the game begins is only written    *)
(* with a map, and who is still in the dialog has not finished.  That a    *)
(* client shows who is left needs an account of the news on its way, which *)
(* is another one in the dialog, where news is not handled but thrown      *)
(* away: there it is one for each player that is gone, and only one, for   *)
(* a player is removed a second time only when there is a map, and nobody  *)
(* is in the dialog then.                                                  *)
(***************************************************************************)
MapMeansReady(s) == s.map => s.finishedLoading = Sitters

BeginMeansMap(s) == \A p \in Sitters : Contains(s.sent[p], Begin) => s.map

DialogNotReady(s) == \A p \in Sitters : In(p, {"lobby"}) => p \notin s.finishedLoading

\* No departure is on t twice.
NewsOnce(t) ==
    \A i, j \in 1 .. Len(t) : t[i] = t[j] /\ t[i].type = "PlayerLeaveBroadcast" => i = j

\* Who is in the dialog is told of each player that is gone, once.
ToldOnce(s) ==
    \A p \in s.isConnected : In(p, {"lobby"}) =>
      /\ LeaversAmong(s.sent[p]) = Sitters \ s.isConnected
      /\ NewsOnce(s.sent[p])

\* Who has left the dialog knows, or is told, of each player that is gone, unless
\* the news has been thrown away with the dialog.
ToldOrMissed(s) ==
    \A p \in s.isConnected : In(p, {"loading", "playing"}) =>
      window[p].left \cup LeaversAmong(s.sent[p]) = (Sitters \ s.isConnected) \ window[p].missed

\* Nobody is told that a player is gone that is not.
OnlyGone(s) == \A p \in Sitters : LeaversAmong(s.sent[p]) \cap s.isConnected = {}

\* The news that closes the dialog comes first, and never to the window: it has no
\* handler for it.
StartIsFirst(s) ==
    \A p \in Sitters : \A i \in 1 .. Len(s.sent[p]) :
      s.sent[p][i] = Start => i = 1 /\ In(p, {"lobby"})

Sound(s) ==
    /\ s \in Games
    /\ StartIsFirst(s)
    /\ OnlyGone(s)
    /\ MapMeansReady(s) /\ BeginMeansMap(s) /\ DialogNotReady(s)
    /\ ToldOnce(s) /\ ToldOrMissed(s)

\* In the dialog a client says nothing and shows nobody as gone.
DialogSilent ==
    \A p \in Sitters : In(p, {"lobby"}) => toGame[p] = <<>> /\ window[p].left = {}

GameMeansMap ==
    \A p \in Sitters :
      /\ In(p, {"playing"}) \/ window[p].gameBegun => game.map
      /\ Contains(toGame[p], "DeleteObject") => game.map

MissedAreGone ==
    \A p \in Sitters : In(p, {"loading", "playing"}) => window[p].missed \cap game.isConnected = {}

SessionInv ==
    SessionTypes /\ Sound(game) /\ DialogSilent /\ GameMeansMap /\ MissedAreGone

-----------------------------------------------------------------------------
LEMMA SittersType == Seats \in Nat \ {0} /\ 0 \notin Sitters /\ Sitters \subseteq 0 .. Seats
BY SeatsAssumption DEF Sitters

(***************************************************************************)
(* Sequences: what is in a longer one, and in the parts of one.            *)
(***************************************************************************)
LEMMA ContainsAppend ==
    ASSUME NEW S, NEW s \in Seq(S), NEW m \in S, NEW e
    PROVE  Contains(Append(s, m), e) <=> Contains(s, e) \/ e = m
<1>1. /\ Len(Append(s, m)) = Len(s) + 1 /\ Len(s) \in Nat
      /\ \A i \in 1 .. Len(s) : Append(s, m)[i] = s[i]
      /\ Append(s, m)[Len(s) + 1] = m
  OBVIOUS
<1> DEFINE t == Append(s, m)
<1> HIDE DEF t
<1>2. /\ Len(t) = Len(s) + 1 /\ Len(s) \in Nat
      /\ \A i \in 1 .. Len(s) : t[i] = s[i]
      /\ t[Len(s) + 1] = m
  BY <1>1 DEF t
<1>3. \A i \in 1 .. Len(s) + 1 : i \in 1 .. Len(s) \/ i = Len(s) + 1
  BY <1>2
<1>4. \A i \in 1 .. Len(s) : i \in 1 .. Len(s) + 1
  BY <1>2
<1>5. Len(s) + 1 \in 1 .. Len(s) + 1
  BY <1>2
<1>6. Contains(t, e) <=> Contains(s, e) \/ e = m
  BY <1>2, <1>3, <1>4, <1>5 DEF Contains
<1> QED
  BY <1>6 DEF t

LEMMA ContainsParts ==
    ASSUME NEW S, NEW s \in Seq(S), NEW n \in 0 .. Len(s)
    PROVE  /\ SubSeq(s, n + 1, Len(s)) \in Seq(S)
           /\ SubSeq(s, 1, n) \in Seq(S)
           /\ Len(SubSeq(s, 1, n)) = n /\ Len(SubSeq(s, n + 1, Len(s))) = Len(s) - n
           /\ \A i \in 1 .. n : SubSeq(s, 1, n)[i] = s[i]
           /\ \A i \in 1 .. Len(s) - n : SubSeq(s, n + 1, Len(s))[i] = s[n + i]
           /\ \A e : Contains(s, e) <=>
                Contains(SubSeq(s, 1, n), e) \/ Contains(SubSeq(s, n + 1, Len(s)), e)
<1>1. Len(s) \in Nat /\ n \in Nat /\ n <= Len(s) /\ \A i \in 1 .. Len(s) : s[i] \in S
  BY LenProperties, ElementOfSeq
<1>2. /\ SubSeq(s, 1, n) \in Seq(S) /\ Len(SubSeq(s, 1, n)) = n
      /\ \A i \in 1 .. n : SubSeq(s, 1, n)[i] = s[i]
  BY <1>1
<1>3. /\ SubSeq(s, n + 1, Len(s)) \in Seq(S) /\ Len(SubSeq(s, n + 1, Len(s))) = Len(s) - n
      /\ \A i \in 1 .. Len(s) - n : SubSeq(s, n + 1, Len(s))[i] = s[n + i]
  BY <1>1
<1> DEFINE a == SubSeq(s, 1, n)
           b == SubSeq(s, n + 1, Len(s))
           l == Len(s)
<1> HIDE DEF a, b, l
<1>4. /\ l \in Nat /\ n \in Nat /\ n <= l /\ Len(a) = n /\ Len(b) = l - n /\ Len(s) = l
      /\ \A i \in 1 .. n : a[i] = s[i]
      /\ \A i \in 1 .. l - n : b[i] = s[n + i]
  BY <1>1, <1>2, <1>3 DEF a, b, l
<1>5. /\ \A i \in 1 .. n : i \in 1 .. l
      /\ \A i \in 1 .. l - n : n + i \in 1 .. l
      /\ \A i \in 1 .. l : i \in 1 .. n \/ (i - n \in 1 .. l - n /\ n + (i - n) = i)
  BY <1>4
<1>6. ASSUME NEW e PROVE Contains(s, e) <=> Contains(a, e) \/ Contains(b, e)
  <2>1. ASSUME NEW i \in 1 .. l, s[i] = e PROVE Contains(a, e) \/ Contains(b, e)
    <3>1. CASE i \in 1 .. n
      BY <3>1, <2>1, <1>4 DEF Contains
    <3>2. CASE i - n \in 1 .. l - n /\ n + (i - n) = i
      <4>1. b[i - n] = e
        BY <3>2, <2>1, <1>4
      <4> QED
        BY <4>1, <3>2, <1>4 DEF Contains
    <3> QED
      BY <1>5, <3>1, <3>2
  <2>2. ASSUME NEW i \in 1 .. n, a[i] = e PROVE Contains(s, e)
    BY <2>2, <1>4, <1>5 DEF Contains
  <2>3. ASSUME NEW i \in 1 .. l - n, b[i] = e PROVE Contains(s, e)
    BY <2>3, <1>4, <1>5 DEF Contains
  <2> QED
    BY <2>1, <2>2, <2>3, <1>4 DEF Contains
<1> QED
  BY <1>2, <1>3, <1>6 DEF a, b

(***************************************************************************)
(* The server: each handler keeps its state sound.                         *)
(***************************************************************************)
LEMMA BulletinTypes ==
    /\ Begin \in Bulletins /\ \A q \in Sitters : Leaves(q) \in Bulletins
    /\ \A q \in Sitters : News("LoadingProgressBroadcast", q) \in Bulletins
    /\ \A q, r \in Sitters : Leaves(q) = Leaves(r) => q = r
    /\ \A q \in Sitters : Leaves(q).type = "PlayerLeaveBroadcast" /\ Leaves(q) # Begin
                          /\ Leaves(q) # Start
    /\ Begin # Start /\ Begin.type # "PlayerLeaveBroadcast"
BY SittersType DEF Start, Begin, Leaves, News, Bulletins

\* Appending other news keeps StartIsFirst.
LEMMA StartStaysFirst ==
    ASSUME NEW p \in Sitters, NEW s \in Seq(Bulletins), NEW m \in Bulletins, m # Start,
           \A i \in 1 .. Len(s) : s[i] = Start => i = 1 /\ In(p, {"lobby"})
    PROVE  \A i \in 1 .. Len(Append(s, m)) :
             Append(s, m)[i] = Start => i = 1 /\ In(p, {"lobby"})
<1> DEFINE t == Append(s, m)
           l == Len(s)
<1>1. l \in Nat /\ Len(t) = l + 1 /\ t[l + 1] = m /\ \A i \in 1 .. l : t[i] = s[i]
  OBVIOUS
<1>2. \A i \in 1 .. l : s[i] = Start => i = 1 /\ In(p, {"lobby"})
  OBVIOUS
<1> HIDE DEF t, l
<1>3. \A i \in 1 .. l + 1 : i \in 1 .. l \/ i = l + 1
  BY <1>1
<1>4. \A i \in 1 .. Len(t) : t[i] = Start => i = 1 /\ In(p, {"lobby"})
  BY <1>1, <1>2, <1>3
<1> QED
  BY <1>4 DEF t

\* WriteTo appends to some streams and changes nothing else.
LEMMA Written ==
    ASSUME NEW s \in Games, NEW players, NEW m \in Bulletins
    PROVE  LET t == WriteTo(s, players, m)
           IN  /\ t \in Games
               /\ t.isConnected = s.isConnected /\ t.finishedLoading = s.finishedLoading
               /\ t.map = s.map
               /\ \A q \in Sitters :
                    t.sent[q] = IF q \in players /\ ~Closed(q) THEN Append(s.sent[q], m) ELSE s.sent[q]
<1> DEFINE f == [q \in Sitters |-> IF q \in players /\ ~Closed(q) THEN Append(s.sent[q], m)
                                   ELSE s.sent[q]]
<1>1. s.sent \in [Sitters -> Seq(Bulletins)]
  BY DEF Games
<1>2. f \in [Sitters -> Seq(Bulletins)]
  BY <1>1
<1>3. WriteTo(s, players, m) = [s EXCEPT !.sent = f]
  BY DEF WriteTo
<1>4. \A q \in Sitters : f[q] = IF q \in players /\ ~Closed(q) THEN Append(s.sent[q], m) ELSE s.sent[q]
  OBVIOUS
<1> HIDE DEF f
<1> QED
  BY <1>2, <1>3, <1>4 DEF Games

\* RemoveFromSession removes p and tells all that remain, unless they are gone too.
LEMMA Removed ==
    ASSUME NEW s \in Games, NEW p \in Sitters, NEW reason
    PROVE  LET t == RemoveFromSession(s, p, reason)
           IN  /\ t \in Games
               /\ t.isConnected = s.isConnected \ {p} /\ t.finishedLoading = s.finishedLoading
               /\ t.map = s.map
               /\ \A q \in s.isConnected \ {p} :
                    t.sent[q] = IF ~Closed(q) THEN Append(s.sent[q], Leaves(p)) ELSE s.sent[q]
               /\ \A q \in Sitters :
                    t.sent[q] = s.sent[q] \/ t.sent[q] = Append(s.sent[q], Leaves(p))
<1> DEFINE rest == s.isConnected \ {p}
           told == rest \cup (IF reason = "Defeat" THEN {p} ELSE {})
           w == WriteTo(s, told, Leaves(p))
           t == [w EXCEPT !.isConnected = rest, !.shouldExit = @ \/ Cardinality(rest) <= 1]
<1>1. RemoveFromSession(s, p, reason) = t
  BY DEF RemoveFromSession, Leaves
<1>2. s.isConnected \subseteq Sitters
  BY DEF Games
<1>3. /\ w \in Games
      /\ w.isConnected = s.isConnected /\ w.finishedLoading = s.finishedLoading /\ w.map = s.map
      /\ \A q \in Sitters :
           w.sent[q] = IF q \in told /\ ~Closed(q) THEN Append(s.sent[q], Leaves(p)) ELSE s.sent[q]
  BY BulletinTypes, Written
<1> HIDE DEF w
<1>4. rest \in SUBSET Sitters /\ rest \subseteq told
  BY <1>2
<1> HIDE DEF rest, told
<1>5. t \in Games
  BY <1>3, <1>4 DEF Games
<1>6. t.isConnected = rest /\ t.finishedLoading = w.finishedLoading /\ t.map = w.map /\ t.sent = w.sent
  BY <1>3 DEF Games
<1> HIDE DEF t
<1>7. t.isConnected = s.isConnected \ {p} /\ t.finishedLoading = s.finishedLoading /\ t.map = s.map
  BY <1>3, <1>6 DEF rest
<1>8. \A q \in s.isConnected \ {p} : q \in Sitters /\ q \in told
  BY <1>4 DEF rest
<1>9. \A q \in s.isConnected \ {p} :
         t.sent[q] = IF ~Closed(q) THEN Append(s.sent[q], Leaves(p)) ELSE s.sent[q]
  BY <1>3, <1>6, <1>8
<1>10. \A q \in Sitters : t.sent[q] = s.sent[q] \/ t.sent[q] = Append(s.sent[q], Leaves(p))
  BY <1>3, <1>6
<1> QED
  BY <1>1, <1>5, <1>7, <1>9, <1>10

\* What is appended to a stream without news of departures changes nothing about them.
LEMMA SameLeavers ==
    ASSUME NEW t \in Seq(Bulletins), NEW m \in Bulletins, m.type # "PlayerLeaveBroadcast"
    PROVE  LeaversAmong(Append(t, m)) = LeaversAmong(t)
<1>1. \A q \in Sitters : Leaves(q) # m
  BY BulletinTypes
<1>2. \A q \in Sitters : Contains(Append(t, m), Leaves(q)) <=> Contains(t, Leaves(q))
  BY <1>1, ContainsAppend
<1> QED
  BY <1>2 DEF LeaversAmong, Leaves

\* The news that p has left adds p to them.
LEMMA OneMoreLeaver ==
    ASSUME NEW t \in Seq(Bulletins), NEW p \in Sitters
    PROVE  LeaversAmong(Append(t, Leaves(p))) = LeaversAmong(t) \cup {p}
<1>1. \A q \in Sitters : Contains(Append(t, Leaves(p)), Leaves(q)) <=>
                           Contains(t, Leaves(q)) \/ Leaves(q) = Leaves(p)
  BY BulletinTypes, ContainsAppend
<1>2. \A q \in Sitters : Leaves(q) = Leaves(p) <=> q = p
  BY BulletinTypes
<1>3. \A q \in Sitters : Contains(Append(t, Leaves(p)), Leaves(q)) <=> Contains(t, Leaves(q)) \/ q = p
  BY <1>1, <1>2
<1> HIDE DEF Leaves
<1>4. /\ LeaversAmong(t) = {q \in Sitters : Contains(t, Leaves(q))}
      /\ LeaversAmong(Append(t, Leaves(p))) = {q \in Sitters : Contains(Append(t, Leaves(p)), Leaves(q))}
  BY DEF LeaversAmong, Leaves
<1> QED
  BY <1>3, <1>4

\* News that is not on a stream yet is on it once.
LEMMA OnceAppended ==
    ASSUME NEW t \in Seq(Bulletins), NEW m \in Bulletins, NewsOnce(t),
           m.type = "PlayerLeaveBroadcast" => ~Contains(t, m)
    PROVE  NewsOnce(Append(t, m))
<1> DEFINE u == Append(t, m)
           l == Len(t)
<1>1. /\ l \in Nat /\ Len(u) = l + 1 /\ u[l + 1] = m /\ \A i \in 1 .. l : u[i] = t[i]
  OBVIOUS
<1> HIDE DEF u
<1>2. m.type = "PlayerLeaveBroadcast" => \A i \in 1 .. l : t[i] # m
  BY DEF Contains
<1>3. \A i, j \in 1 .. l : t[i] = t[j] /\ t[i].type = "PlayerLeaveBroadcast" => i = j
  BY DEF NewsOnce
<1> HIDE DEF l
<1>4. \A i \in 1 .. l + 1 : i \in 1 .. l \/ i = l + 1
  BY <1>1
<1>5. \A i, j \in 1 .. l + 1 : u[i] = u[j] /\ u[i].type = "PlayerLeaveBroadcast" => i = j
  BY <1>1, <1>2, <1>3, <1>4
<1>6. NewsOnce(u)
  BY <1>1, <1>5 DEF NewsOnce
<1> QED
  BY <1>6 DEF u

\* Writing something else than a departure or the start; "the game begins" with a map.
LEMMA WritingIsSound ==
    ASSUME NEW s, Sound(s), NEW players, NEW m \in Bulletins,
           m.type # "PlayerLeaveBroadcast", m # Start, m = Begin => s.map
    PROVE  Sound(WriteTo(s, players, m))
<1> DEFINE t == WriteTo(s, players, m)
<1>1. s \in Games
  BY DEF Sound
<1>2. /\ t \in Games
      /\ t.isConnected = s.isConnected /\ t.finishedLoading = s.finishedLoading
      /\ t.map = s.map
      /\ \A q \in Sitters : t.sent[q] = s.sent[q] \/ t.sent[q] = Append(s.sent[q], m)
  <2>1. \A q \in Sitters :
          t.sent[q] = IF q \in players /\ ~Closed(q) THEN Append(s.sent[q], m) ELSE s.sent[q]
    BY <1>1, Written
  <2> QED
    BY <1>1, <2>1, Written
<1> HIDE DEF t
<1>3. \A q \in Sitters : s.sent[q] \in Seq(Bulletins)
  BY <1>1 DEF Games
<1>4. \A q \in Sitters : LeaversAmong(t.sent[q]) = LeaversAmong(s.sent[q])
  BY <1>2, <1>3, SameLeavers
<1>5. \A q \in Sitters : NewsOnce(s.sent[q]) => NewsOnce(t.sent[q])
  BY <1>2, <1>3, OnceAppended
<1>6. ASSUME NEW q \in Sitters
      PROVE  Contains(t.sent[q], Begin) => Contains(s.sent[q], Begin) \/ m = Begin
  <2>1. Contains(Append(s.sent[q], m), Begin) <=> Contains(s.sent[q], Begin) \/ Begin = m
    BY <1>3, ContainsAppend
  <2> HIDE DEF Begin
  <2> QED
    BY <1>2, <2>1
<1>7. s.isConnected \subseteq Sitters
  BY <1>1 DEF Games
<1>8. MapMeansReady(t) /\ DialogNotReady(t)
  BY <1>2 DEF Sound, MapMeansReady, DialogNotReady
<1>9. BeginMeansMap(t)
  BY <1>2, <1>6 DEF Sound, BeginMeansMap
<1>10. ToldOnce(t)
  BY <1>2, <1>4, <1>5, <1>7 DEF Sound, ToldOnce
<1>11. ToldOrMissed(t)
  BY <1>2, <1>4, <1>7 DEF Sound, ToldOrMissed
<1>12. OnlyGone(t)
  BY <1>2, <1>4 DEF Sound, OnlyGone
<1>13. StartIsFirst(t)
  <2> SUFFICES ASSUME NEW q \in Sitters
               PROVE  \A i \in 1 .. Len(t.sent[q]) :
                        t.sent[q][i] = Start => i = 1 /\ In(q, {"lobby"})
    BY DEF StartIsFirst
  <2>1. \A i \in 1 .. Len(s.sent[q]) : s.sent[q][i] = Start => i = 1 /\ In(q, {"lobby"})
    BY DEF Sound, StartIsFirst
  <2>2. \A i \in 1 .. Len(Append(s.sent[q], m)) :
          Append(s.sent[q], m)[i] = Start => i = 1 /\ In(q, {"lobby"})
    BY <1>3, <2>1, StartStaysFirst
  <2>3. t.sent[q] = s.sent[q] \/ t.sent[q] = Append(s.sent[q], m)
    BY <1>2
  <2> QED
    BY <2>1, <2>2, <2>3
<1>14. Sound(t)
  BY <1>2, <1>8, <1>9, <1>10, <1>11, <1>12, <1>13 DEF Sound
<1> QED
  BY <1>14 DEF t

\* Nobody has thrown away the news that p has left: it was not written yet.
NotMissed(p) == \A q \in Sitters : In(q, {"loading", "playing"}) => p \notin window[q].missed

\* Once there is a map, everybody has left the dialog.
LEMMA NobodyInDialog ==
    ASSUME NEW s, Sound(s), s.map
    PROVE  \A q \in Sitters : ~In(q, {"lobby"})
BY DEF Sound, MapMeansReady, DialogNotReady

\* A player may be removed if it was not before, or once more when there is a map.
LEMMA RemovingIsSound ==
    ASSUME NEW s, Sound(s), NEW p \in Sitters, NEW reason, NotMissed(p),
           p \in s.isConnected \/ s.map
    PROVE  Sound(RemoveFromSession(s, p, reason))
<1> DEFINE t == RemoveFromSession(s, p, reason)
<1>1. s \in Games
  BY DEF Sound
<1>2. /\ t \in Games
      /\ t.isConnected = s.isConnected \ {p} /\ t.finishedLoading = s.finishedLoading
      /\ t.map = s.map
      /\ \A q \in s.isConnected \ {p} :
           t.sent[q] = IF ~Closed(q) THEN Append(s.sent[q], Leaves(p)) ELSE s.sent[q]
      /\ \A q \in Sitters : t.sent[q] = s.sent[q] \/ t.sent[q] = Append(s.sent[q], Leaves(p))
  BY <1>1, Removed
<1> HIDE DEF t
<1>3. \A q \in Sitters : s.sent[q] \in Seq(Bulletins)
  BY <1>1 DEF Games
<1>4. \A q \in s.isConnected \ {p} : ~Closed(q) =>
         /\ t.sent[q] = Append(s.sent[q], Leaves(p))
         /\ LeaversAmong(t.sent[q]) = LeaversAmong(s.sent[q]) \cup {p}
  <2>1. s.isConnected \subseteq Sitters
    BY <1>1 DEF Games
  <2> QED
    BY <1>2, <1>3, <2>1, OneMoreLeaver
<1>5. s.isConnected \subseteq Sitters
  BY <1>1 DEF Games
<1>6. MapMeansReady(t) /\ DialogNotReady(t)
  BY <1>2 DEF Sound, MapMeansReady, DialogNotReady
<1>7. BeginMeansMap(t)
  <2>1. Leaves(p) \in Bulletins /\ Leaves(p) # Begin
    BY BulletinTypes
  <2>2. ASSUME NEW q \in Sitters
        PROVE  Contains(t.sent[q], Begin) => Contains(s.sent[q], Begin)
    <3>1. Contains(Append(s.sent[q], Leaves(p)), Begin) <=>
            Contains(s.sent[q], Begin) \/ Begin = Leaves(p)
      BY <1>3, <2>1, ContainsAppend
    <3> HIDE DEF Begin, Leaves
    <3> QED
      BY <1>2, <2>1, <3>1
  <2> QED
    BY <1>2, <2>2 DEF Sound, BeginMeansMap
<1>8. ToldOnce(t)
  <2> SUFFICES ASSUME NEW q \in s.isConnected \ {p}, In(q, {"lobby"})
               PROVE  LeaversAmong(t.sent[q]) = Sitters \ t.isConnected /\ NewsOnce(t.sent[q])
    BY <1>2 DEF ToldOnce
  <2>1. p \in s.isConnected
    BY <1>5, NobodyInDialog
  <2>2. ~Closed(q) /\ q \in Sitters
    BY <1>5 DEF Closed, In
  <2>3. LeaversAmong(s.sent[q]) = Sitters \ s.isConnected /\ NewsOnce(s.sent[q])
    BY DEF Sound, ToldOnce
  <2>4. LeaversAmong(t.sent[q]) = Sitters \ t.isConnected
    BY <1>2, <1>4, <1>5, <2>1, <2>2, <2>3
  <2>5. ~Contains(s.sent[q], Leaves(p))
    BY <2>1, <2>3 DEF LeaversAmong, Leaves
  <2>6. NewsOnce(Append(s.sent[q], Leaves(p)))
    BY <1>3, <2>2, <2>3, <2>5, BulletinTypes, OnceAppended
  <2> QED
    BY <1>4, <2>2, <2>4, <2>6
<1>9. ToldOrMissed(t)
  <2> SUFFICES ASSUME NEW q \in s.isConnected \ {p}, In(q, {"loading", "playing"})
               PROVE  window[q].left \cup LeaversAmong(t.sent[q])
                        = (Sitters \ t.isConnected) \ window[q].missed
    BY <1>2 DEF ToldOrMissed
  <2>1. ~Closed(q) /\ q \in Sitters
    BY <1>5 DEF Closed, In
  <2>2. window[q].left \cup LeaversAmong(s.sent[q]) = (Sitters \ s.isConnected) \ window[q].missed
    BY DEF Sound, ToldOrMissed
  <2>3. p \notin window[q].missed
    BY <2>1 DEF NotMissed
  <2> QED
    BY <1>2, <1>4, <2>1, <2>2, <2>3
<1>10. OnlyGone(t)
  <2> SUFFICES ASSUME NEW q \in Sitters PROVE LeaversAmong(t.sent[q]) \cap t.isConnected = {}
    BY DEF OnlyGone
  <2>1. LeaversAmong(Append(s.sent[q], Leaves(p))) = LeaversAmong(s.sent[q]) \cup {p}
    BY <1>3, OneMoreLeaver
  <2> QED
    BY <1>2, <2>1 DEF Sound, OnlyGone
<1>11. StartIsFirst(t)
  <2> SUFFICES ASSUME NEW q \in Sitters
               PROVE  \A i \in 1 .. Len(t.sent[q]) :
                        t.sent[q][i] = Start => i = 1 /\ In(q, {"lobby"})
    BY DEF StartIsFirst
  <2> DEFINE m == Leaves(p)
  <2>1. \A i \in 1 .. Len(s.sent[q]) : s.sent[q][i] = Start => i = 1 /\ In(q, {"lobby"})
    BY DEF Sound, StartIsFirst
  <2>2. m \in Bulletins /\ m # Start
    BY BulletinTypes
  <2>3. t.sent[q] = s.sent[q] \/ t.sent[q] = Append(s.sent[q], m)
    BY <1>2
  <2> HIDE DEF m
  <2>4. \A i \in 1 .. Len(Append(s.sent[q], m)) :
          Append(s.sent[q], m)[i] = Start => i = 1 /\ In(q, {"lobby"})
    BY <1>3, <2>1, <2>2, StartStaysFirst
  <2> QED
    BY <2>1, <2>3, <2>4
<1>12. Sound(t)
  BY <1>2, <1>6, <1>7, <1>8, <1>9, <1>10, <1>11 DEF Sound
<1> QED
  BY <1>12 DEF t

\* The map may be made when all have finished loading.
LEMMA BeginningIsSound ==
    ASSUME NEW s, Sound(s), s.finishedLoading = Sitters
    PROVE  Sound(StartGame(s)) /\ StartGame(s).map /\ StartGame(s).isConnected = s.isConnected
<1> DEFINE b == [s EXCEPT !.map = TRUE]
<1>1. s \in Games
  BY DEF Sound
<1>2. /\ b \in Games /\ b.map /\ b.isConnected = s.isConnected
      /\ b.finishedLoading = s.finishedLoading /\ b.sent = s.sent
  BY <1>1 DEF Games
<1>3. StartGame(s) = WriteTo(b, Sitters, Begin)
  BY <1>1 DEF StartGame, WriteTo, Begin, Games
<1> HIDE DEF b
<1>4. Sound(b)
  BY <1>2 DEF Sound, MapMeansReady, BeginMeansMap, DialogNotReady, OnlyGone,
                  StartIsFirst, ToldOnce, ToldOrMissed
<1>5. Begin \in Bulletins /\ Begin.type # "PlayerLeaveBroadcast" /\ Begin # Start
  BY BulletinTypes
<1> QED
  BY <1>2, <1>3, <1>4, <1>5, WritingIsSound, Written

\* What the handlers of messages of p do to s: t is sound, a map stays, and p is
\* removed only when there is a map.
HandledWell(s, t, p) ==
    /\ Sound(t)
    /\ s.map => t.map
    /\ p \notin t.isConnected => p \notin s.isConnected \/ t.map
    /\ t.isConnected \subseteq s.isConnected

\* One message does so,
LEMMA HandlingIsSound ==
    ASSUME NEW s, Sound(s), NEW p \in Sitters, NEW m \in Reports, NotMissed(p),
           ~In(p, {"lobby"}), m = "DeleteObject" => s.map
    PROVE  HandledWell(s, HandleClientMessage(s, p, m), p)
<1>1. s \in Games
  BY DEF Sound
<1>2. CASE p \notin s.isConnected \/ m = "Leave"
  <2>1. HandleClientMessage(s, p, m) = s
    BY <1>2 DEF HandleClientMessage
  <2> QED
    BY <2>1 DEF HandledWell
<1>3. CASE p \in s.isConnected /\ m = "LoadingProgress"
  <2> DEFINE n == News("LoadingProgressBroadcast", p)
  <2>1. HandleClientMessage(s, p, m) = WriteTo(s, Sitters \ {p}, n)
    BY <1>3 DEF HandleClientMessage, HandleLoadingProgress
  <2>2. n \in Bulletins /\ n.type # "PlayerLeaveBroadcast" /\ n # Begin /\ n # Start
    BY BulletinTypes DEF News, Begin, Start
  <2> HIDE DEF n
  <2>3. Sound(WriteTo(s, Sitters \ {p}, n))
    BY <2>2, WritingIsSound
  <2> QED
    BY <1>1, <2>1, <2>2, <2>3, Written DEF HandledWell
<1>4. CASE p \in s.isConnected /\ m = "LoadingFinished"
  <2> DEFINE marked == [s EXCEPT !.finishedLoading = @ \cup {p}]
  <2>1. HandleClientMessage(s, p, m) = IF p \in s.finishedLoading THEN s
                                       ELSE IF marked.finishedLoading = Sitters THEN StartGame(marked)
                                       ELSE marked
    BY <1>4 DEF HandleClientMessage, HandleLoadingFinished
  <2>2. /\ marked \in Games /\ marked.map = s.map /\ marked.isConnected = s.isConnected
        /\ marked.finishedLoading = s.finishedLoading \cup {p} /\ marked.sent = s.sent
    BY <1>1 DEF Games
  <2> HIDE DEF marked
  <2>3. Sound(marked)
    BY <2>2 DEF Sound, MapMeansReady, BeginMeansMap, DialogNotReady, OnlyGone,
                  StartIsFirst, ToldOnce, ToldOrMissed
  <2>4. CASE p \in s.finishedLoading
    BY <2>1, <2>4 DEF HandledWell
  <2>5. CASE p \notin s.finishedLoading /\ marked.finishedLoading = Sitters
    <3>1. HandleClientMessage(s, p, m) = StartGame(marked)
      BY <2>1, <2>5
    <3> QED
      BY <2>2, <2>3, <2>5, <3>1, BeginningIsSound DEF HandledWell
  <2>6. CASE p \notin s.finishedLoading /\ marked.finishedLoading # Sitters
    <3>1. HandleClientMessage(s, p, m) = marked
      BY <2>1, <2>6
    <3> QED
      BY <2>2, <2>3, <3>1 DEF HandledWell
  <2> QED
    BY <2>4, <2>5, <2>6
<1>5. CASE p \in s.isConnected /\ m = "DeleteObject"
  <2>1. HandleClientMessage(s, p, m) = RemoveFromSession(s, p, "Defeat")
    BY <1>5 DEF HandleClientMessage
  <2>2. Sound(RemoveFromSession(s, p, "Defeat"))
    BY <1>5, RemovingIsSound
  <2>3. /\ RemoveFromSession(s, p, "Defeat").isConnected = s.isConnected \ {p}
        /\ RemoveFromSession(s, p, "Defeat").map = s.map
    BY <1>1, Removed
  <2> QED
    BY <1>5, <2>1, <2>2, <2>3 DEF HandledWell
<1> QED
  BY <1>2, <1>3, <1>4, <1>5 DEF Reports

\* The function by which HandleMessages is defined, up to l messages.
After(f, s, p, read, l) ==
    f = [n \in 0 .. l |-> IF n = 0 THEN s ELSE HandleClientMessage(f[n - 1], p, read[n])]

\* There is such a function.
LEMMA AfterExists ==
    ASSUME NEW s, NEW p, NEW read, NEW l \in Nat
    PROVE  \E f : After(f, s, p, read, l)
<1> DEFINE H(f, n) == IF n = 0 THEN s ELSE HandleClientMessage(f[n - 1], p, read[n])
           S == {m \in Nat : \E f : f = [n \in 0 .. m |-> H(f, n)]}
<1>1. 0 \in S
  <2> DEFINE f == [n \in 0 .. 0 |-> s]
  <2>1. f = [n \in 0 .. 0 |-> H(f, n)]
    OBVIOUS
  <2> HIDE DEF f
  <2> QED
    BY <2>1
<1>2. ASSUME NEW m \in Nat, m \in S PROVE m + 1 \in S
  <2>1. PICK f : f = [n \in 0 .. m |-> H(f, n)]
    BY <1>2
  <2> DEFINE g == [n \in 0 .. m + 1 |-> H(f, n)]
  <2>2. \A n \in 0 .. m : g[n] = f[n]
    <3>1. \A n \in 0 .. m : n \in 0 .. m + 1
      OBVIOUS
    <3> HIDE DEF H
    <3> QED
      BY <3>1, <2>1
  <2>3. \A n \in 0 .. m + 1 : n # 0 => n - 1 \in 0 .. m
    OBVIOUS
  <2>4. \A n \in 0 .. m + 1 : H(f, n) = H(g, n)
    BY <2>2, <2>3
  <2>5. g = [n \in 0 .. m + 1 |-> H(g, n)]
    <3> HIDE DEF H
    <3> QED
      BY <2>4
  <2> HIDE DEF g, H
  <2> QED
    BY <2>5
<1> HIDE DEF S
<1>3. l \in S
  BY <1>1, <1>2, SetInduction
<1> QED
  BY <1>3 DEF S, After

\* and so do all that one read has brought.
LEMMA ReadingIsSound ==
    ASSUME NEW s, Sound(s), NEW p \in Sitters, NEW read \in Seq(Reports), NotMissed(p),
           ~In(p, {"lobby"}) \/ read = <<>>,
           Contains(read, "DeleteObject") => s.map
    PROVE  HandledWell(s, HandleMessages(s, p, read), p)
<1> DEFINE l == Len(read)
           after == CHOOSE f : After(f, s, p, read, l)
<1>1. l \in Nat /\ \A i \in 1 .. l : read[i] \in Reports
  BY LenProperties, ElementOfSeq
<1>2. After(after, s, p, read, l)
  BY <1>1, AfterExists
<1>3. HandleMessages(s, p, read) = after[l]
  BY DEF HandleMessages, After
<1> HIDE DEF after
<1>4. /\ after[0] = s
      /\ \A n \in 1 .. l : after[n] = HandleClientMessage(after[n - 1], p, read[n])
  <2>1. after = [n \in 0 .. l |-> IF n = 0 THEN s ELSE HandleClientMessage(after[n - 1], p, read[n])]
    BY <1>2 DEF After
  <2>2. 0 \in 0 .. l /\ \A n \in 1 .. l : n \in 0 .. l /\ n # 0
    BY <1>1
  <2> QED
    BY <2>1, <2>2
<1>5. \A n \in 1 .. l : read[n] = "DeleteObject" => s.map
  BY DEF Contains
<1>6. \A n \in 1 .. l : ~In(p, {"lobby"})
  <2>1. read = <<>> => l = 0
    OBVIOUS
  <2> QED
    BY <2>1, <1>1
<1> HIDE DEF l
<1> DEFINE S == {n \in Nat : n \in 0 .. l => HandledWell(s, after[n], p)}
<1>7. 0 \in S
  BY <1>4 DEF HandledWell
<1>8. ASSUME NEW n \in Nat, n \in S PROVE n + 1 \in S
  <2>1. SUFFICES ASSUME n + 1 \in 0 .. l PROVE HandledWell(s, after[n + 1], p)
    OBVIOUS
  <2>2. n + 1 \in 1 .. l /\ n \in 0 .. l /\ (n + 1) - 1 = n
    BY <1>1, <2>1
  <2>3. HandledWell(s, after[n], p)
    BY <1>8, <2>2
  <2>4. after[n + 1] = HandleClientMessage(after[n], p, read[n + 1])
    BY <1>4, <2>2
  <2>5. /\ Sound(after[n]) /\ read[n + 1] \in Reports /\ ~In(p, {"lobby"})
        /\ read[n + 1] = "DeleteObject" => after[n].map
    BY <1>1, <1>5, <1>6, <2>2, <2>3 DEF HandledWell
  <2>6. HandledWell(after[n], after[n + 1], p)
    BY <2>4, <2>5, HandlingIsSound
  <2> QED
    BY <2>3, <2>6 DEF HandledWell
<1> HIDE DEF S
<1>9. l \in S
  BY <1>1, <1>7, <1>8, SetInduction
<1> QED
  BY <1>1, <1>3, <1>9 DEF S

(***************************************************************************)
(* The steps of the server.                                                *)
(***************************************************************************)
LEMMA ReadingStep ==
    ASSUME SessionInv, NEW p \in Sitters, NEW n \in 0 .. Len(toGame[p]), NEW lost,
           ReadConnection(p, SubSeq(toGame[p], 1, n), lost)
    PROVE  SessionInv'
<1> DEFINE read == SubSeq(toGame[p], 1, n)
           unread == SubSeq(toGame[p], n + 1, Len(toGame[p]))
           rest == IF p \in game'.isConnected THEN unread ELSE <<>>
           handled == HandleMessages(game, p, read)
           leaves == p \in handled.isConnected /\ Contains(read, "Leave")
<1>1. /\ SessionTypes /\ Sound(game) /\ DialogSilent /\ GameMeansMap /\ MissedAreGone
      /\ game \in Games /\ toGame[p] \in Seq(Reports)
  BY DEF SessionInv, SessionTypes
<1>2. /\ read \in Seq(Reports) /\ rest \in Seq(Reports) /\ Len(read) = n
      /\ \A e : Contains(read, e) \/ Contains(rest, e) => Contains(toGame[p], e)
  <2>1. /\ read \in Seq(Reports) /\ unread \in Seq(Reports) /\ Len(read) = n
        /\ \A e : Contains(toGame[p], e) <=> Contains(read, e) \/ Contains(unread, e)
    BY <1>1, ContainsParts
  <2>2. \A e : ~Contains(<<>>, e)
    BY DEF Contains
  <2> HIDE DEF read, unread
  <2> QED
    BY <2>1, <2>2, EmptySeq
<1>3. /\ p \in game.isConnected
      /\ game' = IF lost THEN RemoveFromSession(handled, p, "Drop")
                 ELSE IF leaves THEN RemoveFromSession(handled, p, "Resign")
                 ELSE handled
      /\ toGame' = [toGame EXCEPT ![p] = rest]
      /\ window' = window
  <2>1. Len(read) + 1 = n + 1
    BY <1>2
  <2> QED
    BY <1>2, <2>1 DEF ReadConnection
<1>4. NotMissed(p)
  BY <1>1, <1>3 DEF NotMissed, MissedAreGone
<1>5. ~In(p, {"lobby"}) \/ read = <<>>
  <2>1. In(p, {"lobby"}) => toGame[p] = <<>>
    BY <1>1 DEF DialogSilent
  <2>2. toGame[p] = <<>> => Len(read) = 0
    BY <1>2, EmptySeq
  <2>3. Len(read) = 0 => read = <<>>
    BY <1>2
  <2> QED
    BY <2>1, <2>2, <2>3
<1>6. Contains(read, "DeleteObject") => game.map
  BY <1>1, <1>2 DEF GameMeansMap
<1> HIDE DEF read, rest, handled
<1>7. HandledWell(game, handled, p)
  BY <1>1, <1>2, <1>4, <1>5, <1>6, ReadingIsSound DEF handled
<1>8. Sound(handled) /\ handled \in Games /\ (p \in handled.isConnected \/ handled.map)
  BY <1>3, <1>7 DEF HandledWell, Sound
<1>9. \A reason : LET t == RemoveFromSession(handled, p, reason)
                 IN  /\ Sound(t) /\ t.map = handled.map
                     /\ t.isConnected \subseteq handled.isConnected
  <2> SUFFICES ASSUME NEW reason
               PROVE  LET t == RemoveFromSession(handled, p, reason)
                      IN  /\ Sound(t) /\ t.map = handled.map
                          /\ t.isConnected \subseteq handled.isConnected
    OBVIOUS
  <2>1. Sound(RemoveFromSession(handled, p, reason))
    BY <1>4, <1>8, RemovingIsSound
  <2> QED
    BY <1>8, <2>1, Removed
<1>10. Sound(game') /\ (game.map => game'.map) /\ game'.isConnected \subseteq game.isConnected
  BY <1>3, <1>7, <1>8, <1>9 DEF HandledWell
<1>11. SessionTypes'
  BY <1>1, <1>2, <1>3, <1>10 DEF SessionTypes, Sound
<1>12. \A q \in Sitters : toGame'[q] = IF q = p THEN rest ELSE toGame[q]
  BY <1>1, <1>3 DEF SessionTypes
<1>13. DialogSilent'
  <2>1. SUFFICES ASSUME NEW q \in Sitters, In(q, {"lobby"})
                 PROVE  toGame'[q] = <<>> /\ window[q].left = {}
    BY <1>3 DEF DialogSilent, In
  <2>2. toGame[q] = <<>> /\ window[q].left = {}
    BY <1>1, <2>1 DEF DialogSilent
  <2>3. q = p => rest = <<>>
    BY <2>2, <1>1, <1>2 DEF rest
  <2> QED
    BY <1>12, <2>2, <2>3
<1>14. GameMeansMap'
  <2>1. \A q \in Sitters : Contains(toGame'[q], "DeleteObject") => Contains(toGame[q], "DeleteObject")
    BY <1>2, <1>12
  <2>2. \A q \in Sitters : In(q, {"playing"})' = In(q, {"playing"}) /\ window'[q] = window[q]
    BY <1>3 DEF In
  <2> QED
    BY <1>1, <1>10, <2>1, <2>2 DEF GameMeansMap
<1>15. MissedAreGone'
  <2>1. \A q \in Sitters : In(q, {"loading", "playing"})' = In(q, {"loading", "playing"})
                            /\ window'[q] = window[q]
    BY <1>3 DEF In
  <2> QED
    BY <1>1, <1>10, <2>1 DEF MissedAreGone
<1>16. Sound(game)'
  BY <1>3, <1>10 DEF Sound, MapMeansReady, BeginMeansMap, DialogNotReady, OnlyGone,
                     StartIsFirst, ToldOnce, ToldOrMissed, In
<1> QED
  BY <1>11, <1>13, <1>14, <1>15, <1>16 DEF SessionInv

LEMMA ServerStep ==
    ASSUME SessionInv, ServerReads \/ HostEndsServer
    PROVE  SessionInv'
<1>1. CASE HostEndsServer
  BY <1>1 DEF HostEndsServer, SessionInv, SessionTypes, Sound, MapMeansReady, BeginMeansMap,
              DialogNotReady, OnlyGone,
              StartIsFirst, ToldOnce, ToldOrMissed,
              In, DialogSilent, GameMeansMap, MissedAreGone
<1>2. ASSUME NEW p \in Sitters, PassOver(p) PROVE SessionInv'
  BY <1>2 DEF PassOver, SessionInv, SessionTypes, Sound, MapMeansReady, BeginMeansMap,
              DialogNotReady, OnlyGone,
              StartIsFirst, ToldOnce, ToldOrMissed,
              In, DialogSilent, GameMeansMap, MissedAreGone
<1>3. ASSUME NEW p \in Sitters, ReadSome(p) PROVE SessionInv'
  <2>1. PICK n \in 0 .. Len(toGame[p]) : ReadConnection(p, SubSeq(toGame[p], 1, n), FALSE)
    BY <1>3 DEF ReadSome
  <2> QED
    BY <2>1, ReadingStep
<1>4. ASSUME NEW p \in Sitters, ReadAll(p) PROVE SessionInv'
  <2>1. toGame[p] \in Seq(Reports)
    BY DEF SessionInv, SessionTypes
  <2>2. Len(toGame[p]) \in 0 .. Len(toGame[p]) /\ SubSeq(toGame[p], 1, Len(toGame[p])) = toGame[p]
    BY <2>1
  <2>3. ReadConnection(p, SubSeq(toGame[p], 1, Len(toGame[p])), Closed(p))
    BY <1>4, <2>2 DEF ReadAll
  <2> QED
    BY <2>2, <2>3, ReadingStep
<1>5. ASSUME NEW p \in Sitters, ReadTooLate(p) PROVE SessionInv'
  <2>1. PICK n \in 0 .. Len(toGame[p]) : ReadConnection(p, SubSeq(toGame[p], 1, n), TRUE)
    BY <1>5 DEF ReadTooLate
  <2> QED
    BY <2>1, ReadingStep
<1> QED
  BY <1>1, <1>2, <1>3, <1>4, <1>5 DEF ServerReads

(***************************************************************************)
(* The steps of a client.  Each changes what belongs to one client: its    *)
(* window and the two streams between it and the server.  So the invariant *)
(* is taken apart into what it says of each client.                        *)
(***************************************************************************)
OwnStep(p) ==
    /\ game' \in Games
    /\ toGame' \in [Sitters -> Seq(Reports)]
    /\ window' \in [Sitters -> Programs]
    /\ game'.isConnected = game.isConnected /\ game'.finishedLoading = game.finishedLoading
    /\ game'.map = game.map
    /\ \A q \in Sitters \ {p} :
         game'.sent[q] = game.sent[q] /\ toGame'[q] = toGame[q] /\ window'[q] = window[q]

\* What the invariant says of client p.
OwnPart(p) ==
    /\ Contains(game.sent[p], Begin) => game.map
    /\ LeaversAmong(game.sent[p]) \cap game.isConnected = {}
    /\ \A i \in 1 .. Len(game.sent[p]) : game.sent[p][i] = Start => i = 1 /\ In(p, {"lobby"})
    /\ In(p, {"lobby"}) =>
         /\ p \notin game.finishedLoading
         /\ toGame[p] = <<>> /\ window[p].left = {}
         /\ p \in game.isConnected =>
              /\ LeaversAmong(game.sent[p]) = Sitters \ game.isConnected
              /\ NewsOnce(game.sent[p])
    /\ In(p, {"loading", "playing"}) =>
         /\ window[p].missed \cap game.isConnected = {}
         /\ p \in game.isConnected =>
              window[p].left \cup LeaversAmong(game.sent[p])
                = (Sitters \ game.isConnected) \ window[p].missed
    /\ In(p, {"playing"}) \/ window[p].gameBegun => game.map
    /\ Contains(toGame[p], "DeleteObject") => game.map

\* The invariant is what it says of all of them, in this state and in the next.
LEMMA Parts ==
    SessionInv <=> SessionTypes /\ MapMeansReady(game) /\ \A p \in Sitters : OwnPart(p)
<1>1. SessionTypes => game \in Games /\ game.isConnected \subseteq Sitters
  BY DEF SessionTypes, Games
<1> QED
  BY <1>1 DEF SessionInv, Sound, BeginMeansMap, DialogNotReady, OnlyGone,
              StartIsFirst, ToldOnce, ToldOrMissed,
              DialogSilent, GameMeansMap, MissedAreGone, OwnPart

LEMMA NextParts ==
    SessionInv' <=> (SessionTypes /\ MapMeansReady(game) /\ \A p \in Sitters : OwnPart(p))'
BY Parts, PTL

\* So a client's step is shown to keep its own part.
LEMMA ClientStep ==
    ASSUME SessionInv, NEW p \in Sitters, OwnStep(p), OwnPart(p)'
    PROVE  SessionInv'
<1>1. SessionTypes /\ MapMeansReady(game) /\ \A q \in Sitters : OwnPart(q)
  BY Parts
<1>2. SessionTypes'
  BY DEF OwnStep, SessionTypes
<1>3. MapMeansReady(game)'
  BY <1>1 DEF OwnStep, MapMeansReady
<1>4. ASSUME NEW q \in Sitters PROVE OwnPart(q)'
  <2>1. CASE q = p
    BY <2>1
  <2>2. CASE q # p
    <3>1. /\ game'.sent[q] = game.sent[q] /\ toGame'[q] = toGame[q] /\ window'[q] = window[q]
          /\ game'.isConnected = game.isConnected /\ game'.finishedLoading = game.finishedLoading
          /\ game'.map = game.map
      BY <2>2 DEF OwnStep
    <3>2. OwnPart(q)
      BY <1>1
    <3> QED
      BY <3>1, <3>2 DEF OwnPart, In
  <2> QED
    BY <2>1, <2>2
<1>5. (SessionTypes /\ MapMeansReady(game) /\ \A q \in Sitters : OwnPart(q))'
  BY <1>2, <1>3, <1>4
<1> QED
  BY <1>5, NextParts

\* Discard removes the first n messages to p,
LEMMA Discarded ==
    ASSUME SessionTypes, NEW p \in Sitters, NEW n \in 0 .. Len(game.sent[p]), Discard(p, n)
    PROVE  /\ game' \in Games
           /\ game'.isConnected = game.isConnected /\ game'.map = game.map
           /\ game'.finishedLoading = game.finishedLoading
           /\ \A q \in Sitters \ {p} : game'.sent[q] = game.sent[q]
           /\ game'.sent[p] = SubSeq(game.sent[p], n + 1, Len(game.sent[p]))
<1> DEFINE rest == SubSeq(game.sent[p], n + 1, Len(game.sent[p]))
           sent == [game.sent EXCEPT ![p] = rest]
<1>1. game \in Games /\ game.sent \in [Sitters -> Seq(Bulletins)]
  BY DEF SessionTypes, Games
<1>2. rest \in Seq(Bulletins)
  BY <1>1, ContainsParts
<1>3. game' = [game EXCEPT !.sent = sent]
  BY <1>1 DEF Discard, Games
<1> HIDE DEF rest
<1>4. /\ sent \in [Sitters -> Seq(Bulletins)]
      /\ \A q \in Sitters \ {p} : sent[q] = game.sent[q]
      /\ sent[p] = rest
  BY <1>1, <1>2
<1> HIDE DEF sent
<1>5. /\ game' \in Games
      /\ game'.isConnected = game.isConnected /\ game'.map = game.map
      /\ game'.finishedLoading = game.finishedLoading
      /\ game'.sent = sent
  BY <1>1, <1>3, <1>4 DEF Games
<1> QED
  BY <1>4, <1>5 DEF rest

\* and WriteGame adds one from p.
LEMMA Reported ==
    ASSUME SessionTypes, NEW p \in Sitters, NEW m \in Reports, WriteGame(p, m)
    PROVE  /\ toGame' \in [Sitters -> Seq(Reports)]
           /\ \A q \in Sitters \ {p} : toGame'[q] = toGame[q]
           /\ Contains(toGame'[p], "DeleteObject") =>
                Contains(toGame[p], "DeleteObject") \/ m = "DeleteObject"
<1>1. toGame \in [Sitters -> Seq(Reports)] /\ toGame[p] \in Seq(Reports)
  BY DEF SessionTypes
<1>2. Append(toGame[p], m) \in Seq(Reports)
  BY <1>1
<1>3. /\ toGame' \in [Sitters -> Seq(Reports)]
      /\ \A q \in Sitters \ {p} : toGame'[q] = toGame[q]
      /\ toGame'[p] = Append(toGame[p], m) \/ toGame'[p] = toGame[p]
  BY <1>1, <1>2 DEF WriteGame
<1>4. Contains(Append(toGame[p], m), "DeleteObject") <=>
        Contains(toGame[p], "DeleteObject") \/ "DeleteObject" = m
  BY <1>1, ContainsAppend
<1> QED
  BY <1>3, <1>4

LEMMA ClosedProgram ==
    Opened("closed") \in Programs /\ Opened("closed").at = "closed" /\ ~Opened("closed").gameBegun
BY DEF Opened, Programs

LEMMA NothingKept ==
    ASSUME NEW S, NEW s \in Seq(S)
    PROVE  /\ Len(s) \in 0 .. Len(s) /\ SubSeq(s, Len(s) + 1, Len(s)) = <<>>
           /\ \A e : ~Contains(SubSeq(s, Len(s) + 1, Len(s)), e)
<1>1. Len(s) \in Nat
  OBVIOUS
<1>2. SubSeq(s, Len(s) + 1, Len(s)) = <<>>
  BY <1>1
<1> QED
  BY <1>1, <1>2 DEF Contains

\* Whatever is lost of what it has written, a closed program fits in.
LEMMA ClosingStep ==
    ASSUME SessionInv, NEW p \in Sitters, Close(p),
           toGame' \in [Sitters -> Seq(Reports)],
           \A q \in Sitters \ {p} : toGame'[q] = toGame[q],
           Contains(toGame'[p], "DeleteObject") => Contains(toGame[p], "DeleteObject")
    PROVE  SessionInv'
<1>1. SessionTypes /\ OwnPart(p)
  BY Parts
<1>2. game.sent[p] \in Seq(Bulletins)
  BY <1>1 DEF SessionTypes, Games
<1>3. /\ game' \in Games
      /\ game'.isConnected = game.isConnected /\ game'.map = game.map
      /\ game'.finishedLoading = game.finishedLoading
      /\ \A q \in Sitters \ {p} : game'.sent[q] = game.sent[q]
      /\ \A e : ~Contains(game'.sent[p], e)
      /\ game'.sent[p] = <<>>
  <2>1. Len(game.sent[p]) \in 0 .. Len(game.sent[p])
    BY <1>2, NothingKept
  <2>2. Discard(p, Len(game.sent[p]))
    BY DEF Close
  <2>3. /\ \A e : ~Contains(SubSeq(game.sent[p], Len(game.sent[p]) + 1, Len(game.sent[p])), e)
        /\ SubSeq(game.sent[p], Len(game.sent[p]) + 1, Len(game.sent[p])) = <<>>
    BY <1>2, NothingKept
  <2> QED
    BY <1>1, <2>1, <2>2, <2>3, Discarded
<1>4. /\ window' \in [Sitters -> Programs]
      /\ window'[p] = Opened("closed")
      /\ \A q \in Sitters \ {p} : window'[q] = window[q]
  BY <1>1, ClosedProgram DEF Close, SessionTypes
<1>5. OwnStep(p)
  BY <1>3, <1>4 DEF OwnStep
<1>6. OwnPart(p)'
  BY <1>1, <1>3, <1>4, ClosedProgram DEF OwnPart, In, LeaversAmong
<1> QED
  BY <1>5, <1>6, ClientStep

LEMMA EndingSteps ==
    ASSUME SessionInv, NEW p \in Sitters, LoadingFails(p) \/ UserQuits(p) \/ Crash(p)
    PROVE  SessionInv'
<1>1. SessionTypes
  BY DEF SessionInv
<1>2. CASE Quit(p)
  <2>1. "Leave" \in Reports /\ WriteGame(p, "Leave") /\ Close(p)
    BY <1>2 DEF Quit, Reports
  <2> QED
    BY <1>1, <2>1, Reported, ClosingStep
<1>3. CASE Crash(p)
  <2>1. PICK n \in 0 .. Len(toGame[p]) : toGame' = [toGame EXCEPT ![p] = SubSeq(@, 1, n)]
    BY <1>3 DEF Crash
  <2>2. toGame \in [Sitters -> Seq(Reports)] /\ toGame[p] \in Seq(Reports)
    BY <1>1 DEF SessionTypes
  <2> DEFINE kept == SubSeq(toGame[p], 1, n)
  <2>3. kept \in Seq(Reports) /\ \A e : Contains(kept, e) => Contains(toGame[p], e)
    BY <2>2, ContainsParts
  <2>4. toGame' = [toGame EXCEPT ![p] = kept]
    BY <2>1
  <2> HIDE DEF kept
  <2>5. /\ toGame' \in [Sitters -> Seq(Reports)]
        /\ \A q \in Sitters \ {p} : toGame'[q] = toGame[q]
        /\ Contains(toGame'[p], "DeleteObject") => Contains(toGame[p], "DeleteObject")
    BY <2>2, <2>3, <2>4
  <2>6. Close(p)
    BY <1>3 DEF Crash
  <2> QED
    BY <2>5, <2>6, ClosingStep
<1> QED
  BY <1>2, <1>3 DEF LoadingFails, UserQuits

\* A departure that is on a stream once is not in both parts of it.
LEMMA EitherPart ==
    ASSUME NEW t \in Seq(Bulletins), NEW n \in 0 .. Len(t), NewsOnce(t), NEW q \in Sitters,
           Contains(SubSeq(t, 1, n), Leaves(q)), Contains(SubSeq(t, n + 1, Len(t)), Leaves(q))
    PROVE  FALSE
<1> DEFINE a == SubSeq(t, 1, n)
           b == SubSeq(t, n + 1, Len(t))
           e == Leaves(q)
           l == Len(t)
<1>1. /\ l \in Nat /\ n \in 0 .. l /\ Len(a) = n /\ Len(b) = l - n
      /\ \A i \in 1 .. n : a[i] = t[i]
      /\ \A i \in 1 .. l - n : b[i] = t[n + i]
  BY ContainsParts, LenProperties
<1>2. e.type = "PlayerLeaveBroadcast"
  BY DEF Leaves, News
<1>3. Contains(a, e) /\ Contains(b, e)
  OBVIOUS
<1>4. \A i, j \in 1 .. l : t[i] = t[j] /\ t[i].type = "PlayerLeaveBroadcast" => i = j
  BY DEF NewsOnce
<1> HIDE DEF a, b, e, l
<1>5. PICK i \in 1 .. n : t[i] = e
  BY <1>1, <1>3 DEF Contains
<1>6. PICK j \in 1 .. l - n : t[n + j] = e
  BY <1>1, <1>3 DEF Contains
<1>7. i \in 1 .. l /\ n + j \in 1 .. l /\ i # n + j
  BY <1>1
<1> QED
  BY <1>2, <1>4, <1>5, <1>6, <1>7

\* What is known of the messages to p that a step leaves on the stream.
LEMMA Unread ==
    ASSUME SessionTypes, NEW p \in Sitters, NEW n \in 0 .. Len(game.sent[p])
    PROVE  LET all  == game.sent[p]
               read == SubSeq(all, 1, n)
               rest == SubSeq(all, n + 1, Len(all))
           IN  /\ LeaversAmong(all) = LeaversAmong(read) \cup LeaversAmong(rest)
               /\ NewsOnce(all) => LeaversAmong(read) \cap LeaversAmong(rest) = {}
               /\ Contains(rest, Begin) => Contains(all, Begin)
               /\ Len(rest) = Len(all) - n /\ \A i \in 1 .. Len(all) - n : rest[i] = all[n + i]
<1> DEFINE all  == game.sent[p]
           read == SubSeq(all, 1, n)
           rest == SubSeq(all, n + 1, Len(all))
<1>1. all \in Seq(Bulletins)
  BY DEF SessionTypes, Games
<1>2. /\ \A e : Contains(all, e) <=> Contains(read, e) \/ Contains(rest, e)
      /\ Len(rest) = Len(all) - n /\ \A i \in 1 .. Len(all) - n : rest[i] = all[n + i]
  BY <1>1, ContainsParts
<1>3. NewsOnce(all) => \A q \in Sitters : ~(Contains(read, Leaves(q)) /\ Contains(rest, Leaves(q)))
  BY <1>1, EitherPart
<1> HIDE DEF all, read, rest
<1>4. /\ LeaversAmong(all) = LeaversAmong(read) \cup LeaversAmong(rest)
      /\ Contains(rest, Begin) => Contains(all, Begin)
  BY <1>2 DEF LeaversAmong
<1>5. NewsOnce(all) => LeaversAmong(read) \cap LeaversAmong(rest) = {}
  BY <1>3 DEF LeaversAmong, Leaves
<1> QED
  BY <1>2, <1>4, <1>5 DEF all, read, rest

LEMMA ClosingTheDialog ==
    ASSUME SessionInv, NEW p \in Sitters, CloseDialog(p)
    PROVE  SessionInv'
<1>1. SessionTypes /\ OwnPart(p)
  BY Parts
<1>2. PICK n \in 1 .. Len(game.sent[p]) :
        /\ In(p, {"lobby"})
        /\ Discard(p, n)
        /\ window' = [window EXCEPT ![p].at = "loading",
                                    ![p].missed = LeaversAmong(SubSeq(game.sent[p], 1, n))]
        /\ UNCHANGED <<turn, toGame>>
  BY DEF CloseDialog
<1> DEFINE read == SubSeq(game.sent[p], 1, n)
           rest == SubSeq(game.sent[p], n + 1, Len(game.sent[p]))
           missed == LeaversAmong(read)
<1>3. n \in 0 .. Len(game.sent[p])
  <2>1. Len(game.sent[p]) \in Nat
    BY <1>1 DEF SessionTypes, Games
  <2> QED
    BY <2>1
<1>4. /\ game' \in Games
      /\ game'.isConnected = game.isConnected /\ game'.map = game.map
      /\ game'.finishedLoading = game.finishedLoading
      /\ \A q \in Sitters \ {p} : game'.sent[q] = game.sent[q]
      /\ game'.sent[p] = rest
  BY <1>1, <1>2, <1>3, Discarded
<1>5. /\ LeaversAmong(game.sent[p]) = missed \cup LeaversAmong(rest)
      /\ NewsOnce(game.sent[p]) => missed \cap LeaversAmong(rest) = {}
      /\ Contains(rest, Begin) => Contains(game.sent[p], Begin)
      /\ Len(rest) = Len(game.sent[p]) - n
      /\ \A i \in 1 .. Len(game.sent[p]) - n : rest[i] = game.sent[p][n + i]
  BY <1>1, <1>3, Unread
<1>6. missed \in SUBSET Sitters
  BY DEF LeaversAmong
<1>7. window' = [window EXCEPT ![p].at = "loading", ![p].missed = missed]
  BY <1>2
<1> HIDE DEF read, rest, missed
<1>8. /\ window \in [Sitters -> Programs] /\ window[p] \in Programs
      /\ window[p].at = "lobby"
  BY <1>1, <1>2 DEF SessionTypes, In
<1>9. /\ window' \in [Sitters -> Programs]
      /\ \A q \in Sitters \ {p} : window'[q] = window[q]
      /\ window'[p].at = "loading" /\ window'[p].missed = missed
      /\ window'[p].left = window[p].left /\ window'[p].gameBegun = window[p].gameBegun
  <2> DEFINE w == [window[p] EXCEPT !.at = "loading", !.missed = missed]
  <2>1. window' = [window EXCEPT ![p] = w]
    BY <1>7, <1>8 DEF Programs
  <2>2. /\ w \in Programs /\ w.at = "loading" /\ w.missed = missed
        /\ w.left = window[p].left /\ w.gameBegun = window[p].gameBegun
    BY <1>6, <1>8 DEF Programs
  <2> HIDE DEF w
  <2> QED
    BY <2>1, <2>2, <1>8
<1>10. OwnStep(p)
  BY <1>1, <1>2, <1>4, <1>9 DEF OwnStep, SessionTypes
<1>11. \A i \in 1 .. Len(rest) : rest[i] # Start
  <2> SUFFICES ASSUME NEW i \in 1 .. Len(rest) PROVE rest[i] # Start
    OBVIOUS
  <2>1. Len(game.sent[p]) \in Nat
    BY <1>1 DEF SessionTypes, Games
  <2>2. n + i \in 1 .. Len(game.sent[p]) /\ n + i # 1 /\ rest[i] = game.sent[p][n + i]
    BY <1>5, <2>1
  <2> QED
    BY <1>1, <2>2 DEF OwnPart
<1>12. OwnPart(p)'
  BY <1>1, <1>2, <1>4, <1>5, <1>8, <1>9, <1>11 DEF OwnPart, In
<1> QED
  BY <1>10, <1>12, ClientStep

LEMMA LoadingSteps ==
    ASSUME SessionInv, NEW p \in Sitters, DidLoadingStep(p) \/ LoadingSucceeds(p)
    PROVE  SessionInv'
<1>1. SessionTypes /\ OwnPart(p)
  BY Parts
<1>2. window \in [Sitters -> Programs] /\ window[p] \in Programs /\ window[p].at = "loading"
  BY <1>1 DEF SessionTypes, DidLoadingStep, LoadingSucceeds, Loads, In
<1>3. PICK m \in Reports : m # "DeleteObject" /\ WriteGame(p, m)
  BY DEF DidLoadingStep, LoadingSucceeds, Reports
<1>4. /\ toGame' \in [Sitters -> Seq(Reports)]
      /\ \A q \in Sitters \ {p} : toGame'[q] = toGame[q]
      /\ Contains(toGame'[p], "DeleteObject") => Contains(toGame[p], "DeleteObject")
  BY <1>1, <1>3, Reported
<1>5. PICK w \in Programs :
        /\ window' = [window EXCEPT ![p] = w]
        /\ w.at = window[p].at /\ w.gameBegun = window[p].gameBegun
        /\ w.left = window[p].left /\ w.missed = window[p].missed
  <2>1. CASE DidLoadingStep(p)
    <3> DEFINE w == [window[p] EXCEPT !.loadingStep = @ + 1]
    <3>1. window' = [window EXCEPT ![p] = w]
      BY <1>2, <2>1 DEF DidLoadingStep
    <3>2. /\ w \in Programs /\ w.at = window[p].at /\ w.gameBegun = window[p].gameBegun
          /\ w.left = window[p].left /\ w.missed = window[p].missed
      BY <1>2 DEF Programs
    <3> HIDE DEF w
    <3> QED
      BY <3>1, <3>2
  <2>2. CASE LoadingSucceeds(p)
    <3> DEFINE w == [window[p] EXCEPT !.loaded = TRUE]
    <3>1. window' = [window EXCEPT ![p] = w]
      BY <1>2, <2>2 DEF LoadingSucceeds
    <3>2. /\ w \in Programs /\ w.at = window[p].at /\ w.gameBegun = window[p].gameBegun
          /\ w.left = window[p].left /\ w.missed = window[p].missed
      BY <1>2 DEF Programs
    <3> HIDE DEF w
    <3> QED
      BY <3>1, <3>2
  <2> QED
    BY <2>1, <2>2
<1>6. game' = game
  BY DEF DidLoadingStep, LoadingSucceeds
<1>7. OwnStep(p)
  BY <1>1, <1>2, <1>4, <1>5, <1>6 DEF OwnStep, SessionTypes
<1>8. OwnPart(p)'
  BY <1>1, <1>2, <1>4, <1>5, <1>6 DEF OwnPart, In
<1> QED
  BY <1>7, <1>8, ClientStep

LEMMA ShowingTheGame ==
    ASSUME SessionInv, NEW p \in Sitters, ShowGame(p)
    PROVE  SessionInv'
<1>1. SessionTypes /\ OwnPart(p)
  BY Parts
<1>2. /\ window \in [Sitters -> Programs] /\ window[p] \in Programs
      /\ window[p].at = "loading" /\ window[p].gameBegun
      /\ game' = game /\ toGame' = toGame
  BY <1>1 DEF SessionTypes, ShowGame, In, Unwritten
<1> DEFINE w == [window[p] EXCEPT !.at = "playing"]
<1>3. window' = [window EXCEPT ![p] = w]
  BY <1>2 DEF ShowGame
<1>4. /\ w \in Programs /\ w.at = "playing" /\ w.gameBegun = window[p].gameBegun
      /\ w.left = window[p].left /\ w.missed = window[p].missed
  BY <1>2 DEF Programs
<1> HIDE DEF w
<1>5. OwnStep(p)
  BY <1>1, <1>2, <1>3, <1>4 DEF OwnStep, SessionTypes
<1>6. OwnPart(p)'
  BY <1>1, <1>2, <1>3, <1>4 DEF OwnPart, In
<1> QED
  BY <1>5, <1>6, ClientStep

LEMMA DeletingTheLast ==
    ASSUME SessionInv, NEW p \in Sitters, UserDeletes(p)
    PROVE  SessionInv'
<1>1. SessionTypes /\ OwnPart(p)
  BY Parts
<1>2. /\ "DeleteObject" \in Reports /\ WriteGame(p, "DeleteObject") /\ window[p].at = "playing"
      /\ game' = game /\ window' = window
  BY DEF UserDeletes, In, Reports
<1>3. /\ toGame' \in [Sitters -> Seq(Reports)]
      /\ \A q \in Sitters \ {p} : toGame'[q] = toGame[q]
  BY <1>1, <1>2, Reported
<1>4. OwnStep(p)
  BY <1>1, <1>2, <1>3 DEF OwnStep, SessionTypes
<1>5. OwnPart(p)'
  BY <1>1, <1>2, <1>3 DEF OwnPart, In
<1> QED
  BY <1>4, <1>5, ClientStep

\* The departure that is handled moves from the stream to what the window shows.
LEMMA HandlingABulletin ==
    ASSUME SessionInv, NEW p \in Sitters, HandleServerMessage(p)
    PROVE  SessionInv'
<1> DEFINE all  == game.sent[p]
           rest == SubSeq(all, 2, Len(all))
           m    == all[1]
<1>1. SessionTypes /\ OwnPart(p)
  BY Parts
<1>2. /\ window \in [Sitters -> Programs] /\ window[p] \in Programs
      /\ In(p, {"loading", "playing"}) /\ toGame' = toGame /\ Discard(p, 1)
  BY <1>1 DEF SessionTypes, HandleServerMessage
<1>3. /\ all \in Seq(Bulletins) /\ all # <<>> /\ Len(all) \in Nat
      /\ 1 \in 0 .. Len(all) /\ 1 \in 1 .. Len(all) /\ m \in Bulletins
      /\ Head(all) = m
  <2>1. all \in Seq(Bulletins) /\ all # <<>>
    BY <1>1 DEF SessionTypes, Games, HandleServerMessage
  <2> HIDE DEF all
  <2>2. Len(all) \in Nat /\ Len(all) # 0 /\ Head(all) = all[1]
    BY <2>1, EmptySeq
  <2>3. 1 \in 0 .. Len(all) /\ 1 \in 1 .. Len(all)
    BY <2>2
  <2>4. all[1] \in Bulletins
    BY <2>1, <2>3, ElementOfSeq
  <2> QED
    BY <2>1, <2>2, <2>3, <2>4
<1>4. /\ game' \in Games
      /\ game'.isConnected = game.isConnected /\ game'.map = game.map
      /\ game'.finishedLoading = game.finishedLoading
      /\ \A q \in Sitters \ {p} : game'.sent[q] = game.sent[q]
      /\ game'.sent[p] = rest
  BY <1>1, <1>2, <1>3, Discarded
<1>5. \A e : Contains(all, e) <=> e = m \/ Contains(rest, e)
  <2> DEFINE first == SubSeq(all, 1, 1)
  <2>1. /\ \A e : Contains(all, e) <=> Contains(first, e) \/ Contains(rest, e)
        /\ Len(first) = 1 /\ \A i \in 1 .. 1 : first[i] = all[i]
    <3> HIDE DEF all
    <3> QED
      BY <1>3, ContainsParts
  <2> HIDE DEF first, rest, all
  <2>2. \A e : Contains(first, e) <=> e = all[1]
    BY <2>1 DEF Contains
  <2> QED
    BY <2>1, <2>2 DEF m
<1>6. /\ Len(rest) = Len(all) - 1 /\ \A i \in 1 .. Len(all) - 1 : rest[i] = all[1 + i]
  BY <1>1, <1>3, Unread
<1>7. /\ m # Start
      /\ \A i \in 1 .. Len(rest) : rest[i] # Start
  <2>1. \A i \in 1 .. Len(all) : all[i] # Start
    BY <1>1, <1>2 DEF OwnPart, In
  <2> HIDE DEF all, rest
  <2>2. \A i \in 1 .. Len(rest) : 1 + i \in 1 .. Len(all) /\ rest[i] = all[1 + i]
    BY <1>3, <1>6
  <2> QED
    BY <1>3, <2>1, <2>2 DEF m
<1>8. window' = CASE m.type = "LoadingProgressBroadcast" -> window
                  [] m.type = "GameBegin" -> [window EXCEPT ![p].gameBegun = TRUE]
                  [] m.type = "PlayerLeaveBroadcast" -> [window EXCEPT ![p].left = @ \cup {m.player}]
  BY <1>3 DEF HandleServerMessage
<1>9. LeaversAmong(all) = {q \in Sitters : m = Leaves(q)} \cup LeaversAmong(rest)
  BY <1>5 DEF LeaversAmong, Leaves
<1>10. Contains(rest, Begin) => Contains(all, Begin)
  BY <1>5
<1> HIDE DEF all, rest, m
<1>11. PICK w \in Programs :
        /\ window' = [window EXCEPT ![p] = w]
        /\ w.at = window[p].at /\ w.missed = window[p].missed
        /\ w.gameBegun => window[p].gameBegun \/ m = Begin
        /\ w.left = window[p].left \cup {q \in Sitters : m = Leaves(q)}
  <2>1. ASSUME NEW q \in Sitters, m = News("LoadingProgressBroadcast", q)
        PROVE  window' = [window EXCEPT ![p] = window[p]] /\ \A r \in Sitters : m # Leaves(r)
    BY <1>2, <1>8, <2>1 DEF News, Leaves
  <2>2. CASE m = Begin
    <3> DEFINE w == [window[p] EXCEPT !.gameBegun = TRUE]
    <3>1. window' = [window EXCEPT ![p] = w] /\ \A r \in Sitters : m # Leaves(r)
      BY <1>2, <1>8, <2>2 DEF News, Leaves, Begin
    <3>2. /\ w \in Programs /\ w.at = window[p].at /\ w.missed = window[p].missed
          /\ w.left = window[p].left
      BY <1>2 DEF Programs
    <3> HIDE DEF w
    <3> QED
      BY <2>2, <3>1, <3>2
  <2>3. ASSUME NEW q \in Sitters, m = Leaves(q)
        PROVE  \E w \in Programs :
                 /\ window' = [window EXCEPT ![p] = w]
                 /\ w.at = window[p].at /\ w.missed = window[p].missed
                 /\ w.gameBegun => window[p].gameBegun \/ m = Begin
                 /\ w.left = window[p].left \cup {r \in Sitters : m = Leaves(r)}
    <3> DEFINE w == [window[p] EXCEPT !.left = @ \cup {q}]
    <3>1. window' = [window EXCEPT ![p] = w]
      BY <1>2, <1>8, <2>3 DEF News, Leaves
    <3>2. /\ w \in Programs /\ w.at = window[p].at /\ w.missed = window[p].missed
          /\ w.left = window[p].left \cup {q} /\ w.gameBegun = window[p].gameBegun
      BY <1>2 DEF Programs
    <3>3. {r \in Sitters : m = Leaves(r)} = {q}
      BY <2>3, BulletinTypes
    <3> HIDE DEF w
    <3> QED
      BY <3>1, <3>2, <3>3
  <2>4. m = Begin \/ (\E q \in Sitters : m = Leaves(q) \/ m = News("LoadingProgressBroadcast", q))
    BY <1>3, <1>7 DEF Bulletins
  <2>5. ASSUME NEW q \in Sitters, m = News("LoadingProgressBroadcast", q)
        PROVE  \E w \in Programs :
                 /\ window' = [window EXCEPT ![p] = w]
                 /\ w.at = window[p].at /\ w.missed = window[p].missed
                 /\ w.gameBegun => window[p].gameBegun \/ m = Begin
                 /\ w.left = window[p].left \cup {r \in Sitters : m = Leaves(r)}
    <3>1. {r \in Sitters : m = Leaves(r)} = {}
      BY <2>1, <2>5
    <3> QED
      BY <1>2, <2>1, <2>5, <3>1
  <2> QED
    BY <2>2, <2>3, <2>4, <2>5
<1>12. /\ Contains(all, Begin) => game.map
       /\ LeaversAmong(all) \cap game.isConnected = {}
       /\ m = Begin => game.map
  <2>1. Contains(all, Begin) => game.map
    BY <1>1 DEF OwnPart, all
  <2> QED
    BY <1>1, <1>5, <2>1 DEF OwnPart, all
<1>13. OwnStep(p)
  BY <1>1, <1>2, <1>4, <1>11 DEF OwnStep, SessionTypes
<1>14. OwnPart(p)'
  <2>1. game'.sent[p] = rest /\ window'[p] = w
    BY <1>2, <1>4, <1>11
  <2>2. In(p, {"lobby"})' = FALSE /\ In(p, {"playing"})' = In(p, {"playing"})
    BY <1>2, <2>1, <1>11 DEF In
  <2>3. p \in game.isConnected =>
          window[p].left \cup LeaversAmong(all) = (Sitters \ game.isConnected) \ window[p].missed
    BY <1>1, <1>2 DEF OwnPart, all
  <2>4. window[p].missed \cap game.isConnected = {}
    BY <1>1, <1>2 DEF OwnPart
  <2>5. /\ In(p, {"playing"}) \/ window[p].gameBegun => game.map
        /\ Contains(toGame[p], "DeleteObject") => game.map
    BY <1>1 DEF OwnPart
  <2> HIDE DEF LeaversAmong
  <2> QED
    BY <1>2, <1>4, <1>7, <1>9, <1>10, <1>11, <1>12, <2>1, <2>2, <2>3, <2>4, <2>5 DEF OwnPart
<1> QED
  BY <1>13, <1>14, ClientStep

-----------------------------------------------------------------------------
LEMMA SessionBegins == SessionInit => SessionInv
<1> SUFFICES ASSUME SessionInit PROVE SessionInv
  OBVIOUS
<1>1. /\ game.isConnected = Sitters /\ game.finishedLoading = {} /\ game.map = FALSE
      /\ game.shouldExit = FALSE /\ game.sent = [p \in Sitters |-> <<Start>>]
      /\ game = [isConnected |-> Sitters, finishedLoading |-> {}, map |-> FALSE,
                 shouldExit |-> FALSE, sent |-> [p \in Sitters |-> <<Start>>]]
  BY DEF SessionInit, Start
<1>2. Start \in Bulletins
  BY DEF Bulletins
<1>3. <<Start>> \in Seq(Bulletins) /\ Len(<<Start>>) = 1 /\ <<Start>>[1] = Start
  BY <1>2
<1>4. Start # Begin /\ \A q \in Sitters : Start # Leaves(q)
  BY BulletinTypes
<1>5. /\ ~Contains(<<Start>>, Begin)
      /\ \A q \in Sitters : ~Contains(<<Start>>, Leaves(q))
  BY <1>3, <1>4 DEF Contains
<1>6. LeaversAmong(<<Start>>) = {}
  BY <1>5 DEF LeaversAmong, Leaves
<1>7. NewsOnce(<<Start>>)
  BY <1>3 DEF NewsOnce
<1> HIDE DEF Start
<1>8. game \in Games
  BY <1>1, <1>3 DEF Games
<1>9. /\ toGame = [p \in Sitters |-> <<>>] /\ toGame \in [Sitters -> Seq(Reports)]
  BY EmptySeq DEF SessionInit
<1>10. /\ window \in [Sitters -> Programs]
       /\ \A p \in Sitters : /\ window[p].at = "lobby" /\ window[p].gameBegun = FALSE
                              /\ window[p].left = {} /\ window[p].missed = {}
  BY DEF SessionInit, Opened, Programs
<1>11. ~Contains(<<>>, "DeleteObject")
  BY DEF Contains
<1>12. ASSUME NEW p \in Sitters PROVE OwnPart(p)
  BY <1>1, <1>3, <1>5, <1>6, <1>7, <1>9, <1>10, <1>11 DEF OwnPart, In
<1>13. MapMeansReady(game)
  BY <1>1 DEF MapMeansReady
<1> QED
  BY <1>8, <1>9, <1>10, <1>12, <1>13, Parts DEF SessionTypes

LEMMA SessionStep ==
    SessionInv /\ [SessionNext]_gameSessionVars => SessionInv'
<1> SUFFICES ASSUME SessionInv, [SessionNext]_gameSessionVars PROVE SessionInv'
  OBVIOUS
<1>1. CASE UNCHANGED gameSessionVars
  BY <1>1 DEF gameSessionVars, SessionInv, SessionTypes, Sound, MapMeansReady, BeginMeansMap,
              DialogNotReady, OnlyGone, StartIsFirst, ToldOnce, ToldOrMissed, In, DialogSilent,
              GameMeansMap, MissedAreGone
<1>2. CASE ServerReads \/ HostEndsServer
  BY <1>2, ServerStep
<1>3. ASSUME NEW p \in Sitters, ClientRuns(p) PROVE SessionInv'
  BY <1>3, ClosingTheDialog, LoadingSteps, EndingSteps, ShowingTheGame, HandlingABulletin
     DEF ClientRuns
<1>4. ASSUME NEW p \in Sitters, UserActs(p) PROVE SessionInv'
  BY <1>4, EndingSteps, DeletingTheLast DEF UserActs
<1> QED
  BY <1>1, <1>2, <1>3, <1>4 DEF SessionNext

LEMMA InvIsConsistent == SessionInv => SessionConsistent
<1> SUFFICES ASSUME SessionInv PROVE SessionConsistent
  OBVIOUS
<1>1. NobodyAhead
  <2> SUFFICES ASSUME NEW p \in Sitters
               PROVE  /\ In(p, {"playing"}) => game.map /\ game.isConnected \subseteq game.finishedLoading
                      /\ Contains(toGame[p], "DeleteObject") => game.map
                      /\ In(p, {"lobby"}) => ~Contains(game.sent[p], News("GameBegin", 0))
    BY DEF NobodyAhead
  <2>1. game.map => game.finishedLoading = Sitters /\ game.isConnected \subseteq Sitters
    BY DEF SessionInv, Sound, MapMeansReady, Games
  <2>2. In(p, {"lobby"}) => ~game.map
    BY <2>1 DEF SessionInv, Sound, DialogNotReady
  <2> QED
    BY <2>1, <2>2 DEF SessionInv, Sound, GameMeansMap, BeginMeansMap, Begin
<1>2. ShowsWhoIsLeft
  <2> SUFFICES ASSUME NEW p \in game.isConnected, In(p, {"loading", "playing"}),
                      game.sent[p] = <<>>
               PROVE  window[p].left = (Sitters \ game.isConnected) \ window[p].missed
    BY DEF ShowsWhoIsLeft
  <2>1. \A q \in Sitters : ~Contains(game.sent[p], News("PlayerLeaveBroadcast", q))
    BY DEF Contains
  <2>2. LeaversAmong(game.sent[p]) = {}
    BY <2>1 DEF LeaversAmong
  <2> QED
    BY <2>2 DEF SessionInv, Sound, ToldOrMissed
<1> QED
  BY <1>1, <1>2 DEF SessionConsistent

\* SessionConsistent holds always: nobody plays, or gives the command to delete its last
\* object, before the server has a map; the dialog never throws away the news that the
\* game begins (LobbyDialog::TryParseMessage, RenderWindow); and a client shows as gone
\* whom the server has removed (Game::RemovePlayer), but for what the dialog missed.
THEOREM SessionStaysConsistent == SessionSpec => []SessionConsistent
BY SessionBegins, SessionStep, InvIsConsistent, PTL DEF SessionSpec
=============================================================================
