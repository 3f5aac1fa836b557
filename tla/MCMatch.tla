------------------------------- MODULE MCMatch -------------------------------
(***************************************************************************)
(* The instance for TLC of a session with its clients, in two stages.  In  *)
(* the loading phase there are three players, one of which may fail in     *)
(* every way and runs the server.  The match has a villager next to a tree *)
(* and a site, a town center that produces, and a third player; the client *)
(* that is looked at is that of any of the three.  A behavior is one of    *)
(* the stage it starts with: the variables of the other never change.      *)
(***************************************************************************)
EXTENDS ClientMatch, MCGame, GameSession

VARIABLE stage

MatchStart == <<Entry(p1, "Villager", {}), Entry(p2, "TownCenter", {1}),
                Entry(gaia, "Tree", {5}), Entry(p3, "Militia", {})>>

MatchCommands ==
    [p \in Players |->
       CASE p = p1 -> {"SetTarget", "PlaceBuildingFoundation", "DeleteObject",
                       "MoveToMapCoord"}
         [] p = p2 -> {"ProduceUnit", "DequeueProductionQueueItem", "DeleteObject", "Resign"}
         [] OTHER  -> {"Drop"}]

NoSession ==
    /\ game = [isConnected |-> {}, sent |-> [p \in Sitters |-> <<>>]]
    /\ turn = 0
    /\ toGame = [p \in Sitters |-> <<>>]
    /\ window = [p \in Sitters |-> Opened("closed")]

StagesInit ==
    /\ MatchInit
    /\ \/ stage = "loading" /\ SessionInit /\ me = p1
       \/ stage = "match" /\ NoSession

OfLoading(action) == stage = "loading" /\ action /\ UNCHANGED <<stage, allVars>>
OfMatch(action)   == stage = "match" /\ action /\ UNCHANGED <<stage, gameSessionVars>>

StagesNext ==
    \/ OfLoading(ServerReads) \/ OfLoading(HostEndsServer)
    \/ \E p \in Sitters : OfLoading(ClientRuns(p))
    \/ \E p \in Sitters : OfLoading(UserActs(p))
    \/ OfMatch(MatchNext)

\* The fairness of both stages.
SessionsSpec ==
    /\ StagesInit /\ [][StagesNext]_<<stage, allVars, gameSessionVars>>
    /\ WF_gameSessionVars(OfLoading(ServerReads))
    /\ \A p \in Sitters : /\ WF_gameSessionVars(OfLoading(ClientRuns(p)))
                          /\ SF_gameSessionVars(OfLoading(ReadAll(p)))
    /\ WF_stream(Advance)
=============================================================================
