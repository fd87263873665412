---------------------------- MODULE SandboxService ----------------------------
(***************************************************************************)
(* The sandbox as its routes offer it (routes/sandbox.routes.ts): a market    *)
(* with its seeds on display and paper positions on it (Sandbox), and the live  *)
(* market's history replayed (Replay).  They share no state.                  *)
(***************************************************************************)
EXTENDS Sandbox, Replay

serviceVars == <<sandboxVars, replayVars>>

ServiceInit == SandboxInit /\ ReplayInit
ServiceNext ==
    \/ SandboxNext /\ UNCHANGED replayVars
    \/ ReplayNext /\ UNCHANGED sandboxVars
ServiceSpec == ServiceInit /\ [][ServiceNext]_serviceVars

\* Whatever the sandbox shows can be checked against something else it shows: a session's
\* figures add up, the oracle is what its revealed seed computes, and what is said of
\* revealed epochs is what they traded.
SandboxSound == SandboxHonest /\ HistoryReplayed
=============================================================================
