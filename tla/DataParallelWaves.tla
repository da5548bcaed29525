-------------------------- MODULE DataParallelWaves --------------------------
(***************************************************************************)
(* Data-parallel engines that run in lockstep: DPEngineCoreProc            *)
(* (v1/engine/core.py), DPCoordinatorProc (v1/engine/coordinator.py) and   *)
(* the front-end's DPAsyncMPClient (v1/engine/core_client.py).  Every      *)
(* forward pass is a collective of all engines, so an engine without       *)
(* requests has to run dummy passes while another one has some; the        *)
(* engines stop together, which ends a wave, and are woken by              *)
(* START_DP_WAVE.  pause_scheduler and resume_scheduler stop and start     *)
(* them under the front-end's control.  Which engine a request is sent to  *)
(* is the load balancer's choice and arbitrary here.                       *)
(***************************************************************************)
EXTENDS Naturals, Sequences, FiniteSets

CONSTANTS
  NumEngines,           \* data_parallel_size
  Clients,              \* front-end processes
  Requests,
  MaxPauses,            \* bound: pause_scheduler calls
  Configs               \* what happens in a behaviour, a choice of Init: records with
                        \*   clients, requests  the front-ends and requests that take part
                        \*   sync_interval      steps between two all-reduces (32 in the code)
                        \*   steps              forward passes a request takes
                        \*   aborted            requests the front-end may abort
                        \*   modes              modes of pause_scheduler in use
                        \*   add_resuming       whether requests are sent before
                        \*                      resume_scheduler returns
                        \*   timer              whether the coordinator also publishes
                        \*                      without a change

ASSUME WavesAssumption ==
  /\ NumEngines \in Nat \ {0, 1} /\ MaxPauses \in Nat
  /\ \A cf \in Configs :
       /\ cf.clients \subseteq Clients /\ cf.requests \subseteq Requests
       /\ cf.aborted \subseteq cf.requests /\ cf.modes \subseteq {"keep", "abort", "wait"}
       /\ cf.sync_interval \in Nat \ {0} /\ cf.steps \in Nat \ {0}
       /\ cf.add_resuming \in BOOLEAN /\ cf.timer \in BOOLEAN

Engines == 0 .. NumEngines - 1
None    == NumEngines   \* no engine is excluded

VARIABLES
  config,               \* the configuration of this behaviour
  \* the engines
  pc,                   \* [e -> what the busy loop does]
  current_wave, engines_running, step_counter, pending_pause, ignore_start_dp_wave,
  pause_state,          \* [e -> Scheduler.pause_state]
  waiting, running,     \* [e -> requests]
  finished_req_ids,     \* [e -> whether finished requests wait for the next schedule()]
  idle_callback,        \* [e -> whether a pause waits for the engine to become idle]
  left,                 \* [r -> forward passes still to do]
  \* the coordinator
  coord,                \* [wave, running]
  \* the front-ends
  client,               \* [c -> [wave, running]]
  sent,                 \* [r -> the client and the engine it was sent to]
  aborting,             \* requests an abort was sent for
  pausing,              \* the state of the front-end's pause
  pauses,               \* pauses so far
  \* messages on their way
  input,                \* [c -> [e -> requests and calls]]
  first_req,            \* [c -> engines, FIRST_REQ notifications to the stats task]
  to_coord,             \* [c -> notifications of new requests]
  start_dp_wave,        \* [e -> START_DP_WAVE]
  from_engine,          \* [e -> outputs for the coordinator]
  stats                 \* [c -> published wave and running state]

engineVars == <<pc, current_wave, engines_running, step_counter, pending_pause,
                ignore_start_dp_wave, pause_state, waiting, running, finished_req_ids,
                idle_callback, left>>
clientVars == <<client, sent, aborting, pausing, pauses>>
channels   == <<input, first_req, to_coord, start_dp_wave, from_engine, stats>>
vars == <<config, engineVars, coord, clientVars, channels>>

Send(queues, to, msg) == [queues EXCEPT ![to] = Append(@, msg)]
Pop(queues, from)     == [queues EXCEPT ![from] = Tail(@)]
Broadcast(queues, msg) == [q \in DOMAIN queues |-> Append(queues[q], msg)]

Init ==
  /\ config \in Configs
  /\ pc = [e \in Engines |-> "input"]
  /\ current_wave = [e \in Engines |-> 0]
  /\ engines_running = [e \in Engines |-> FALSE]
  /\ step_counter = [e \in Engines |-> 0]
  /\ pending_pause = [e \in Engines |-> FALSE]
  /\ ignore_start_dp_wave = [e \in Engines |-> FALSE]
  /\ pause_state = [e \in Engines |-> "UNPAUSED"]
  /\ waiting = [e \in Engines |-> {}] /\ running = [e \in Engines |-> {}]
  /\ finished_req_ids = [e \in Engines |-> FALSE]
  /\ idle_callback = [e \in Engines |-> FALSE]
  /\ left = [r \in Requests |-> config.steps]
  /\ coord = [wave |-> 0, running |-> FALSE]
  /\ client = [c \in Clients |-> [wave |-> 0, running |-> FALSE]]
  /\ sent = [r \in Requests |-> <<>>] /\ aborting = {}
  /\ pausing = "no" /\ pauses = 0
  /\ input = [c \in Clients |-> [e \in Engines |-> <<>>]]
  /\ first_req = [c \in Clients |-> <<>>]
  /\ to_coord = [c \in Clients |-> <<>>]
  /\ start_dp_wave = [e \in Engines |-> <<>>]
  /\ from_engine = [e \in Engines |-> <<>>]
  /\ stats = [c \in Clients |-> <<>>]
-----------------------------------------------------------------------------
(* The front-end.                                                          *)

FirstRequest(c, e) ==
  IF client[c].running THEN first_req ELSE Send(first_req, c, e)

\* DPAsyncMPClient.add_request_async
AddRequest(c, r) ==
  /\ c \in config.clients /\ r \in config.requests
  /\ sent[r] = <<>> /\ (pausing = "resuming" => config.add_resuming)
  /\ \E e \in Engines :
       /\ sent' = [sent EXCEPT ![r] = <<c, e>>]
       /\ input' = [input EXCEPT ![c][e] =
                      Append(@, [type |-> "ADD", req |-> r, wave |-> client[c].wave])]
       /\ first_req' = FirstRequest(c, e)
  /\ UNCHANGED <<config, engineVars, coord, client, aborting, pausing, pauses, to_coord, start_dp_wave,
                 from_engine, stats>>

Unserved(r) == sent[r] # <<>> /\ left[r] > 0

\* abort_requests_async; the front-end aborts a request once.
AbortRequest(r) ==
  /\ r \in config.aborted \ aborting /\ Unserved(r)
  /\ aborting' = aborting \cup {r}
  /\ input' = [input EXCEPT ![sent[r][1]][sent[r][2]] =
                 Append(@, [type |-> "ABORT", req |-> r])]
  /\ UNCHANGED <<config, engineVars, coord, client, sent, pausing, pauses, first_req, to_coord,
                 start_dp_wave, from_engine, stats>>

CallAll(c, call) == [input EXCEPT ![c] = Broadcast(@, call)]

\* pause_scheduler_async: the call goes to every engine.
PauseScheduler(c, mode) ==
  /\ c \in config.clients /\ mode \in config.modes
  /\ pausing = "no" /\ pauses < MaxPauses
  /\ pausing' = "pausing" /\ pauses' = pauses + 1
  /\ input' = CallAll(c, [type |-> "PAUSE", mode |-> mode])
  /\ UNCHANGED <<config, engineVars, coord, client, sent, aborting, first_req, to_coord,
                 start_dp_wave, from_engine, stats>>

\* The pause futures of all engines are resolved.
Paused == \A e \in Engines : pause_state[e] # "UNPAUSED" /\ ~ idle_callback[e]

PauseReturns ==
  /\ pausing = "pausing" /\ Paused
  /\ pausing' = "paused"
  /\ UNCHANGED <<config, engineVars, coord, client, sent, aborting, pauses, channels>>

ResumeScheduler(c) ==
  /\ c \in config.clients /\ pausing = "paused"
  /\ pausing' = "resuming"
  /\ input' = CallAll(c, [type |-> "RESUME"])
  /\ UNCHANGED <<config, engineVars, coord, client, sent, aborting, pauses, first_req, to_coord,
                 start_dp_wave, from_engine, stats>>

\* run_engine_stats_update_task, a FIRST_REQ.
NotifyCoordinator(c) ==
  /\ first_req[c] # <<>>
  /\ first_req' = Pop(first_req, c)
  /\ client' = [client EXCEPT ![c].running = TRUE]
  /\ to_coord' = Send(to_coord, c,
                      [exclude |-> Head(first_req[c]), wave |-> client[c].wave])
  /\ UNCHANGED <<config, engineVars, coord, sent, aborting, pausing, pauses, input, start_dp_wave,
                 from_engine, stats>>

\* run_engine_stats_update_task: only the latest of the messages that have arrived counts.
UpdateStats(c) ==
  /\ \E n \in DOMAIN stats[c] :
       /\ client' = [client EXCEPT ![c] = stats[c][n]]
       /\ stats' = [stats EXCEPT ![c] = SubSeq(@, n + 1, Len(@))]
  /\ UNCHANGED <<config, engineVars, coord, sent, aborting, pausing, pauses, input, first_req,
                 to_coord, start_dp_wave, from_engine>>
-----------------------------------------------------------------------------
(* The coordinator: process_input_socket.                                  *)

\* Publication to the front-ends that take part.
Told(state) ==
  [c \in Clients |-> IF c \in config.clients THEN Append(stats[c], state) ELSE stats[c]]

\* The new state, which is published when it has changed.
Publish(state) ==
  /\ coord' = state
  /\ stats' = Told(state)

Excluded(msg) == IF msg.wave < coord.wave THEN None ELSE msg.exclude

\* A front-end sends a request while the engines are paused.
HandleNewRequest(c) ==
  /\ to_coord[c] # <<>>
  /\ to_coord' = Pop(to_coord, c)
  /\ IF coord.running THEN UNCHANGED <<coord, stats, start_dp_wave>>
     ELSE /\ Publish([coord EXCEPT !.running = TRUE])
          /\ start_dp_wave' = Broadcast(start_dp_wave,
               [wave |-> coord.wave, exclude |-> Excluded(Head(to_coord[c]))])
  /\ UNCHANGED <<config, engineVars, clientVars, input, first_req, from_engine>>

StartsWave(wave) == wave > coord.wave \/ (wave = coord.wave /\ ~ coord.running)

\* Mutant of CompletesWave: only a wave the coordinator has not heard of counts.
CompletesLaterWave(wave) == coord.wave < wave

CompletesWave(wave) == coord.wave <= wave

\* wave_complete and start_wave of an engine.
HandleEngineOutput(e) ==
  /\ from_engine[e] # <<>>
  /\ from_engine' = Pop(from_engine, e)
  /\ LET msg == Head(from_engine[e])
     IN CASE msg.type = "wave_complete" /\ CompletesWave(msg.wave) ->
               /\ Publish([wave |-> msg.wave + 1, running |-> FALSE])
               /\ UNCHANGED start_dp_wave
          [] msg.type = "start_wave" /\ StartsWave(msg.wave) ->
               /\ Publish([wave |-> msg.wave, running |-> TRUE])
               /\ start_dp_wave' = Broadcast(start_dp_wave,
                                             [wave |-> msg.wave, exclude |-> e])
          [] OTHER -> UNCHANGED <<coord, stats, start_dp_wave>>
  /\ UNCHANGED <<config, engineVars, clientVars, input, first_req, to_coord>>

\* The timer: at most one such message is on its way to a front-end.
PublishStats ==
  /\ config.timer /\ \A c \in Clients : stats[c] = <<>>
  /\ stats' = Told(coord)
  /\ UNCHANGED <<config, engineVars, coord, clientVars, input, first_req, to_coord, start_dp_wave,
                 from_engine>>
-----------------------------------------------------------------------------
(* The engines: what comes in between two steps.                           *)

Unfinished(e) ==
  CASE pause_state[e] = "PAUSED_ALL" -> {}
    [] pause_state[e] = "PAUSED_NEW" -> running[e]
    [] OTHER -> waiting[e] \cup running[e]

HasRequests(e) == Unfinished(e) # {} \/ finished_req_ids[e]
has_work(e)    == engines_running[e] \/ HasRequests(e)

Takes(e, c, type) ==
  /\ pc[e] = "input"
  /\ input[c][e] # <<>> /\ Head(input[c][e]).type = type
  /\ input' = [input EXCEPT ![c][e] = Tail(@)]

\* Mutant of StaleWave: a request of an old wave starts nothing.
StaleWaveIgnored(e, wave) == FALSE

\* A request for an already completed wave.
StaleWave(e, wave) ==
  wave < current_wave[e] /\ ~ engines_running[e] /\ pause_state[e] = "UNPAUSED"

\* DPEngineCoreProc.add_request
HandleAdd(e, c) ==
  /\ Takes(e, c, "ADD")
  /\ LET msg == Head(input[c][e])
     IN /\ waiting' = [waiting EXCEPT ![e] = @ \cup {msg.req}]
        /\ current_wave' = [current_wave EXCEPT ![e] = IF msg.wave > @ THEN msg.wave ELSE @]
        /\ IF StaleWave(e, msg.wave)
           THEN /\ engines_running' = [engines_running EXCEPT ![e] = TRUE]
                /\ from_engine' = Send(from_engine, e,
                     [type |-> "start_wave", wave |-> current_wave[e]])
           ELSE UNCHANGED <<engines_running, from_engine>>
  /\ UNCHANGED <<config, pc, step_counter, pending_pause, ignore_start_dp_wave, pause_state, running,
                 finished_req_ids, idle_callback, left, coord, clientVars, first_req,
                 to_coord, start_dp_wave, stats>>

\* finish_requests of Scheduler: the requests leave the queues.
Finish(e, reqs) ==
  LET gone == reqs \cap (waiting[e] \cup running[e])
  IN /\ waiting' = [waiting EXCEPT ![e] = @ \ gone]
     /\ running' = [running EXCEPT ![e] = @ \ gone]
     /\ left' = [r \in Requests |-> IF r \in gone THEN 0 ELSE left[r]]
     /\ finished_req_ids' = [finished_req_ids EXCEPT ![e] = @ \/ gone # {}]

HandleAbort(e, c) ==
  /\ Takes(e, c, "ABORT")
  /\ Finish(e, {Head(input[c][e]).req})
  /\ UNCHANGED <<config, pc, current_wave, engines_running, step_counter, pending_pause,
                 ignore_start_dp_wave, pause_state, idle_callback, coord, clientVars,
                 first_req, to_coord, start_dp_wave, from_engine, stats>>

\* pause_scheduler; an idle engine is started, to take part in the consensus.
HandlePause(e, c) ==
  /\ Takes(e, c, "PAUSE")
  /\ LET mode == Head(input[c][e]).mode
     IN /\ IF mode = "abort" THEN Finish(e, waiting[e] \cup running[e])
           ELSE UNCHANGED <<waiting, running, left, finished_req_ids>>
        /\ pause_state' = [pause_state EXCEPT ![e] =
             IF mode = "keep" THEN "PAUSED_ALL" ELSE "PAUSED_NEW"]
  /\ pending_pause' = [pending_pause EXCEPT ![e] = TRUE]
  /\ engines_running' = [engines_running EXCEPT ![e] = TRUE]
  /\ idle_callback' = [idle_callback EXCEPT ![e] = TRUE]
  /\ UNCHANGED <<config, pc, current_wave, step_counter, ignore_start_dp_wave, coord, clientVars,
                 first_req, to_coord, start_dp_wave, from_engine, stats>>

\* _notify_idle_state_callbacks: the caches are reset, which preempts every request.
NotifyIdle(e) ==
  /\ pc[e] = "input" /\ ~ has_work(e) /\ idle_callback[e]
  /\ idle_callback' = [idle_callback EXCEPT ![e] = FALSE]
  /\ waiting' = [waiting EXCEPT ![e] = @ \cup running[e]]
  /\ running' = [running EXCEPT ![e] = {}]
  /\ UNCHANGED <<config, pc, current_wave, engines_running, step_counter, pending_pause,
                 ignore_start_dp_wave, pause_state, finished_req_ids, left, coord, clientVars,
                 channels>>

\* resume_scheduler raises while the pause is in flight, and does nothing without one.
HandleResume(e, c) ==
  /\ Takes(e, c, "RESUME")
  /\ IF pending_pause[e] \/ engines_running[e]
     THEN UNCHANGED <<pc, pause_state, ignore_start_dp_wave>>
     ELSE /\ pc' = [pc EXCEPT ![e] = "resume"]
          /\ pause_state' = [pause_state EXCEPT ![e] = "UNPAUSED"]
          /\ ignore_start_dp_wave' = [ignore_start_dp_wave EXCEPT ![e] = FALSE]
  /\ UNCHANGED <<config, current_wave, engines_running, step_counter, pending_pause, waiting, running,
                 finished_req_ids, idle_callback, left, coord, clientVars, first_req,
                 to_coord, start_dp_wave, from_engine, stats>>

\* Mutant of Ignored: a paused engine is started by an old message.
IgnoredNever(e) == FALSE

Ignored(e) == ignore_start_dp_wave[e]

\* _handle_client_request, START_DP_WAVE
HandleStart(e) ==
  /\ pc[e] = "input" /\ start_dp_wave[e] # <<>>
  /\ start_dp_wave' = Pop(start_dp_wave, e)
  /\ LET msg == Head(start_dp_wave[e])
     IN IF ~ Ignored(e) /\ msg.exclude # e /\ msg.wave >= current_wave[e]
        THEN /\ current_wave' = [current_wave EXCEPT ![e] = msg.wave]
             /\ engines_running' = [engines_running EXCEPT ![e] = TRUE]
        ELSE UNCHANGED <<current_wave, engines_running>>
  /\ UNCHANGED <<config, pc, step_counter, pending_pause, ignore_start_dp_wave, pause_state, waiting,
                 running, finished_req_ids, idle_callback, left, coord, clientVars, input,
                 first_req, to_coord, from_engine, stats>>
-----------------------------------------------------------------------------
(* The engines: run_busy_loop.                                             *)

\* The requests schedule() puts into the batch.
Batch(e) == IF pause_state[e] = "UNPAUSED" THEN waiting[e] \cup running[e]
            ELSE Unfinished(e)

RunsDummy(e) == Unfinished(e) # {} \/ engines_running[e]

\* A step: a forward pass with the batch, a dummy pass, or none when all engines are idle.
Step(e) ==
  /\ pc[e] = "input" /\ has_work(e)
  /\ running' = [running EXCEPT ![e] = @ \cup Batch(e)]
  /\ waiting' = [waiting EXCEPT ![e] = @ \ Batch(e)]
  /\ finished_req_ids' = [finished_req_ids EXCEPT ![e] = FALSE]
  /\ pc' = [pc EXCEPT ![e] = IF Batch(e) # {} \/ RunsDummy(e) THEN "forward" ELSE @]
  /\ UNCHANGED <<config, current_wave, engines_running, step_counter, pending_pause,
                 ignore_start_dp_wave, pause_state, idle_callback, left, coord, clientVars,
                 channels>>

Computed(e) == IF pause_state[e] = "PAUSED_ALL" THEN {} ELSE running[e]

Advance(steps) == (steps + 1) % config.sync_interval

\* The forward pass is a collective: it ends when all engines take part.
Forward ==
  /\ \A e \in Engines : pc[e] = "forward"
  /\ LET all == UNION {Computed(e) : e \in Engines}
     IN /\ left' = [r \in Requests |-> IF r \in all THEN left[r] - 1 ELSE left[r]]
        /\ running' = [e \in Engines |-> {r \in running[e] : left'[r] > 0}]
        /\ finished_req_ids' = [e \in Engines |-> running'[e] # running[e]]
  /\ step_counter' = [e \in Engines |-> Advance(step_counter[e])]
  /\ pc' = [e \in Engines |-> IF step_counter'[e] = 0 THEN "sync" ELSE "input"]
  /\ engines_running' = [e \in Engines |-> step_counter'[e] # 0 \/ engines_running[e]]
  /\ UNCHANGED <<config, current_wave, pending_pause, ignore_start_dp_wave, pause_state, waiting,
                 idle_callback, coord, clientVars, channels>>

\* Mutant of sync_dp_state: a pause some engines wait for does not keep the others running.
sync_dp_state_unfinished_only ==
  [has_unfinished |-> \E e \in Engines : Unfinished(e) # {},
   pause_consensus |-> \A e \in Engines : pending_pause[e]]

sync_dp_state ==
  [has_unfinished |-> \/ \E e \in Engines : Unfinished(e) # {}
                      \/ {pending_pause[e] : e \in Engines} = {TRUE, FALSE},
   pause_consensus |-> \A e \in Engines : pending_pause[e]]

\* _has_global_unfinished_reqs and the end of a wave.
AllReduce ==
  /\ \A e \in Engines : pc[e] = "sync"
  /\ engines_running' = [e \in Engines |-> sync_dp_state.has_unfinished]
  /\ IF sync_dp_state.pause_consensus
     THEN /\ ignore_start_dp_wave' = [e \in Engines |-> TRUE]
          /\ pending_pause' = [e \in Engines |-> FALSE]
     ELSE UNCHANGED <<ignore_start_dp_wave, pending_pause>>
  /\ IF sync_dp_state.has_unfinished THEN UNCHANGED <<current_wave, from_engine>>
     ELSE /\ current_wave' = [e \in Engines |-> current_wave[e] + 1]
          /\ from_engine' = Send(from_engine, 0,
               [type |-> "wave_complete", wave |-> current_wave[0]])
  /\ pc' = [e \in Engines |-> "input"]
  /\ UNCHANGED <<config, step_counter, pause_state, waiting, running, finished_req_ids, idle_callback,
                 left, coord, clientVars, input, first_req, to_coord, start_dp_wave, stats>>

\* The barrier of resume_scheduler, which returns.
ResumeBarrier ==
  /\ \A e \in Engines : pc[e] = "resume"
  /\ engines_running' = [e \in Engines |-> \E f \in Engines : Unfinished(f) # {}]
  /\ pc' = [e \in Engines |-> "input"]
  /\ pausing' = "no"
  /\ UNCHANGED <<config, current_wave, step_counter, pending_pause, ignore_start_dp_wave, pause_state,
                 waiting, running, finished_req_ids, idle_callback, left, coord, client, sent,
                 aborting, pauses, channels>>
-----------------------------------------------------------------------------
Handle(e, c) ==
  \/ HandleAdd(e, c)
  \/ HandleAbort(e, c)
  \/ HandlePause(e, c)
  \/ HandleResume(e, c)

Next ==
  \/ \E c \in Clients, r \in Requests : AddRequest(c, r)
  \/ \E r \in Requests : AbortRequest(r)
  \/ \E c \in Clients, mode \in config.modes : PauseScheduler(c, mode)
  \/ PauseReturns
  \/ \E c \in Clients : ResumeScheduler(c)
  \/ \E c \in Clients : NotifyCoordinator(c) \/ UpdateStats(c) \/ HandleNewRequest(c)
  \/ \E e \in Engines : HandleEngineOutput(e)
  \/ PublishStats
  \/ \E e \in Engines, c \in Clients : Handle(e, c)
  \/ \E e \in Engines : HandleStart(e) \/ NotifyIdle(e) \/ Step(e)
  \/ Forward
  \/ AllReduce
  \/ ResumeBarrier

\* Every process keeps running; an engine empties its input queue between two steps.  A
\* paused system is resumed; nobody has to send, abort or pause.
Fairness ==
  /\ \A c \in Clients :
       WF_vars(NotifyCoordinator(c)) /\ WF_vars(UpdateStats(c)) /\ WF_vars(HandleNewRequest(c))
  /\ \A e \in Engines :
       /\ WF_vars(HandleEngineOutput(e)) /\ WF_vars(Step(e)) /\ WF_vars(NotifyIdle(e))
       /\ SF_vars(HandleStart(e)) /\ \A c \in Clients : SF_vars(Handle(e, c))
  /\ WF_vars(Forward) /\ WF_vars(AllReduce) /\ WF_vars(ResumeBarrier)
  /\ WF_vars(PauseReturns) /\ WF_vars(\E c \in Clients : ResumeScheduler(c))

Spec == Init /\ [][Next]_vars /\ Fairness
-----------------------------------------------------------------------------
TypeOK ==
  /\ config \in Configs
  /\ pc \in [Engines -> {"input", "forward", "sync", "resume"}]
  /\ current_wave \in [Engines -> Nat] /\ step_counter \in [Engines -> 0 .. config.sync_interval - 1]
  /\ engines_running \in [Engines -> BOOLEAN] /\ pending_pause \in [Engines -> BOOLEAN]
  /\ ignore_start_dp_wave \in [Engines -> BOOLEAN]
  /\ pause_state \in [Engines -> {"UNPAUSED", "PAUSED_NEW", "PAUSED_ALL"}]
  /\ waiting \in [Engines -> SUBSET Requests] /\ running \in [Engines -> SUBSET Requests]
  /\ finished_req_ids \in [Engines -> BOOLEAN] /\ idle_callback \in [Engines -> BOOLEAN]
  /\ left \in [Requests -> 0 .. config.steps]
  /\ coord \in [wave : Nat, running : BOOLEAN]
  /\ client \in [Clients -> [wave : Nat, running : BOOLEAN]]
  /\ pausing \in {"no", "pausing", "paused", "resuming"} /\ pauses \in 0 .. MaxPauses

(***************************************************************************)
(* CollectivesMatch: engines that wait in a collective wait in the same    *)
(* one, whatever messages reached them in between: the passes since the    *)
(* last wave are counted alike by all.                                     *)
(***************************************************************************)
CollectivesMatch ==
  \A e, f \in Engines : pc[e] = "input" \/ pc[f] = "input" \/ pc[e] = pc[f]

\* Nothing is on its way and no engine has anything to do.
Quiet ==
  /\ \A e \in Engines : pc[e] = "input" /\ ~ has_work(e) /\ start_dp_wave[e] = <<>>
                          /\ from_engine[e] = <<>>
  /\ \A c \in Clients : /\ first_req[c] = <<>> /\ to_coord[c] = <<>> /\ stats[c] = <<>>
                        /\ \A e \in Engines : input[c][e] = <<>>

(***************************************************************************)
(* WavesAgree: when all is quiet and there was no pause, engines,          *)
(* coordinator and front-ends agree that the engines are stopped and on    *)
(* the number of the next wave, which the next request is sent with.       *)
(***************************************************************************)
WavesAgree ==
  Quiet /\ pauses = 0 =>
    /\ \A e \in Engines : current_wave[e] = coord.wave
    /\ ~ coord.running
    /\ \A c \in config.clients : client[c] = coord

(***************************************************************************)
(* PausedMeansStopped: from the return of pause_scheduler to the call of   *)
(* resume_scheduler no engine takes part in a step, although requests      *)
(* arrive and START_DP_WAVE messages sent before are still on their way.   *)
(***************************************************************************)
PausedMeansStopped ==
  pausing = "paused" => \A e \in Engines : pc[e] = "input" /\ ~ engines_running[e]

(***************************************************************************)
(* RequestsServed: a request sent to one engine is served or aborted: the  *)
(* others are woken to take part in its passes.                            *)
(***************************************************************************)
RequestsServed == \A r \in Requests : Unserved(r) ~> left[r] = 0

\* PauseCompletes: the engines reach the consensus a pause waits for.
PauseCompletes == pausing = "pausing" ~> pausing = "paused"

(***************************************************************************)
(* EnginesInStep: engines enter the same collectives and a pause that has  *)
(* returned holds, whatever START_DP_WAVE messages, requests and aborts    *)
(* overtake each other.                                                    *)
(***************************************************************************)
EnginesInStep == TypeOK /\ CollectivesMatch /\ PausedMeansStopped
=============================================================================
