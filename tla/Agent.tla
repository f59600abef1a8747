-------------------------------- MODULE Agent --------------------------------
(***************************************************************************)
(* The multi-stream agent.  Its streams are started one after the other:   *)
(* each gets a fresh snapshot under its id in the shared registry, then a  *)
(* poller task, which counts every event in the snapshot found under its   *)
(* id at that moment.  A stream that cannot be started ends the agent.     *)
(***************************************************************************)
EXTENDS Naturals, Sequences

CONSTANTS
    AgentConfigs,   \* configurations: sequences of [id, starts]
    MaxCounted      \* bound: events a poller of the agent sends

VARIABLES
    streams,    \* the configuration, in file order
    spawned,    \* streams whose poller task was spawned
    registry,   \* id -> [stream, events]: the snapshot published under the id
    counted,    \* history: stream -> events its poller has sent
    serving,    \* /metrics answers
    agentError  \* a stream could not be started, or the address not bound

agentVars == <<streams, spawned, registry, counted, serving, agentError>>

Stream(i) == streams[i]
Pollers == 1 .. spawned

Fresh(i) == [stream |-> i, events |-> 0]
Insert(i) ==
    registry' = [id \in DOMAIN registry \union {Stream(i).id} |->
                    IF id = Stream(i).id THEN Fresh(i) ELSE registry[id]]

(* ManifestPoller::new and the checks of the webhook may fail, which ends  *)
(* run_agent: the pollers spawned before end with the process.             *)
SpawnStream ==
    LET i == spawned + 1 IN
    /\ ~agentError /\ i <= Len(streams)
    /\ Insert(i)
    /\ IF Stream(i).starts
       THEN spawned' = i /\ UNCHANGED agentError
       ELSE agentError' = TRUE /\ UNCHANGED spawned
    /\ UNCHANGED <<streams, counted, serving>>

\* Variant: the snapshots are registered once the server starts.
RegisterAndServe ==
    /\ spawned = Len(streams) /\ ~serving /\ ~agentError
    /\ serving' = TRUE
    /\ registry' = [id \in DOMAIN registry |-> [registry[id] EXCEPT !.events = 0]]
    /\ UNCHANGED <<streams, spawned, counted, agentError>>

(* The address of /metrics is bound, or is not free, which ends run_agent. *)
Serve ==
    /\ spawned = Len(streams) /\ ~serving /\ ~agentError
    /\ serving' \in BOOLEAN
    /\ agentError' = ~serving'
    /\ UNCHANGED <<streams, spawned, registry, counted>>

SendCounted(i) ==
    /\ ~agentError /\ counted[i] < MaxCounted
    /\ counted' = [counted EXCEPT ![i] = @ + 1]
    /\ registry' = [registry EXCEPT ![Stream(i).id].events = @ + 1]
    /\ UNCHANGED <<streams, spawned, serving, agentError>>

OwnId(i) == \A j \in DOMAIN streams : Stream(j).id = Stream(i).id => j = i

AgentInit(configs) ==
    /\ streams \in configs
    /\ spawned = 0 /\ registry = <<>> /\ serving = FALSE /\ agentError = FALSE
    /\ counted = [i \in DOMAIN streams |-> 0]

AgentNext == SpawnStream \/ Serve \/ (\E i \in Pollers : SendCounted(i))
=============================================================================
