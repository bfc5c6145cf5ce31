----------------------------- MODULE Leftovers ------------------------------
(* What a dead daemon or wizard leaves on the machine: the process trees of  *)
(* commands and the servers of agents. They share no state; a restarted      *)
(* daemon puts both away before it serves (internal/daemon/daemon.go).       *)
EXTENDS ProcTrees, AgentServers

leftoversVars == <<treesVars, serversVars>>

LeftoversInit == TreesInit /\ ServersInit

LeftoversNext ==
    \/ TreesNext /\ UNCHANGED serversVars
    \/ ServersNext /\ UNCHANGED treesVars

LeftoversSpec == LeftoversInit /\ [][LeftoversNext]_leftoversVars

\* What dead owners leave behind is found and put away: trees of commands, and agent servers.
LeftoversReaped == TreesSafe /\ ServersSafe

\* Remembered pids and groups kill nobody else: neither a stranger nor another one's server.
OthersSpared == StrangersSpared /\ ReapsOnlyOrphans
=============================================================================
