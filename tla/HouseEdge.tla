---------------------------- MODULE HouseEdge ----------------------------
(***************************************************************************)
(* The edge positions are priced at.  It is set in the console and           *)
(* stored in the database; the trading process keeps it in memory, re-reads  *)
(* it every thirty seconds and when the console notifies it                  *)
(* (services/settings.ts, routes/internal.routes.ts), and prices positions   *)
(* from memory.                                                              *)
(*                                                                         *)
(* Edges are in hundredths of a percent.                                     *)
(***************************************************************************)
EXTENDS Integers

CONSTANTS
    DeployEdge,     \* env.houseEdge
    ConsoleEdges,   \* what the operator may set
    StrayEdges,     \* what may be written to the table directly
    EdgeReads,      \* room for reads in progress
    MaxEdgeMoves    \* bound on the writes of the edge

LargestEdge == 2000

ASSUME EdgeAssumption ==
    /\ DeployEdge \in Nat
    /\ ConsoleEdges \subseteq 0..LargestEdge /\ StrayEdges \subseteq Int
    /\ MaxEdgeMoves \in Nat

VARIABLES
    storedEdge,     \* platform_settings.house_edge, NotSet until it is set
    edge,           \* Settings.edge
    refreshes,      \* what each read in progress has found, or Unread; Idle if there is none
    edgeNotice,     \* the console's notice is on its way
    edgeMoves

edgeVars == <<storedEdge, edge, refreshes, edgeNotice, edgeMoves>>

NotSet == -1
Unread == -2
Idle == -3
InRange(e) == e \in 0..LargestEdge

-----------------------------------------------------------------------------
(* Setting it *)

\* POST /edge in the console; fpesa_set_house_edge refuses what is out of range.
SetEdge(e) ==
    /\ edgeMoves < MaxEdgeMoves /\ edgeMoves' = edgeMoves + 1
    /\ storedEdge' = e
    /\ edgeNotice' = TRUE
    /\ UNCHANGED <<edge, refreshes>>

\* A write that goes round the console.
WriteTable(e) ==
    /\ edgeMoves < MaxEdgeMoves /\ edgeMoves' = edgeMoves + 1
    /\ storedEdge' = e
    /\ UNCHANGED <<edge, refreshes, edgeNotice>>

EdgeNoticeLost ==
    /\ edgeNotice /\ edgeNotice' = FALSE
    /\ UNCHANGED <<storedEdge, edge, refreshes, edgeMoves>>

-----------------------------------------------------------------------------
(* Reading it *)

\* refresh: another read, whatever is in flight.
StartRefresh(r) == refreshes[r] = Idle /\ refreshes' = [refreshes EXCEPT ![r] = Unread]

EdgeNoticeArrives(r) ==
    /\ edgeNotice /\ edgeNotice' = FALSE
    /\ StartRefresh(r)
    /\ UNCHANGED <<storedEdge, edge, edgeMoves>>

\* Mutant: only a notice makes the process read again.
TimerStopped(r) == FALSE /\ refreshes' = [refreshes EXCEPT ![r] = Unread] /\ UNCHANGED edge

\* Every thirty seconds, and at the start.
Timer(r) ==
    /\ StartRefresh(r)
    /\ UNCHANGED <<storedEdge, edge, edgeNotice, edgeMoves>>

RefreshExec(r) ==
    /\ refreshes[r] = Unread
    /\ refreshes' = [refreshes EXCEPT ![r] = storedEdge]
    /\ UNCHANGED <<storedEdge, edge, edgeNotice, edgeMoves>>

\* Reads are answered in any order.  No row, or a value out of range, keeps what
\* there is.
RefreshReturns(r) ==
    /\ refreshes[r] \notin {Idle, Unread}
    /\ refreshes' = [refreshes EXCEPT ![r] = Idle]
    /\ edge' = IF InRange(refreshes[r]) THEN refreshes[r] ELSE edge
    /\ UNCHANGED <<storedEdge, edgeNotice, edgeMoves>>

RefreshFails(r) ==
    /\ refreshes[r] # Idle
    /\ refreshes' = [refreshes EXCEPT ![r] = Idle]
    /\ UNCHANGED <<storedEdge, edge, edgeNotice, edgeMoves>>

-----------------------------------------------------------------------------
EdgeInit ==
    /\ storedEdge \in {NotSet} \cup ConsoleEdges
    /\ edge = DeployEdge /\ refreshes = [r \in EdgeReads |-> Idle] /\ edgeNotice = FALSE
    /\ edgeMoves = 0

EdgeNext ==
    \/ \E e \in ConsoleEdges : SetEdge(e)
    \/ \E e \in StrayEdges : WriteTable(e)
    \/ EdgeNoticeLost
    \/ \E r \in EdgeReads : \/ EdgeNoticeArrives(r) \/ Timer(r)
                           \/ RefreshExec(r) \/ RefreshReturns(r) \/ RefreshFails(r)

EdgeSpec == EdgeInit /\ [][EdgeNext]_edgeVars

-----------------------------------------------------------------------------
(* Properties *)

\* Every variable is of the shape the code gives it: whatever the table holds,
\* positions are priced from an edge of 0 to 20%.
EdgeTypeOK ==
    /\ storedEdge \in {NotSet} \cup ConsoleEdges \cup StrayEdges
    /\ edge \in 0..LargestEdge \cup {DeployEdge}
    /\ refreshes \in [EdgeReads -> {Idle, Unread, NotSet} \cup ConsoleEdges \cup StrayEdges]
    /\ edgeNotice \in BOOLEAN /\ edgeMoves \in 0..MaxEdgeMoves

\* "The trading service re-reads on its own timer within thirty seconds": though
\* notices are lost, reads fail and one that is answered late undoes a later one,
\* positions come to be priced at the edge the console shows.
EdgeCatchesUp == <>[](InRange(storedEdge) => edge = storedEdge)
=============================================================================
