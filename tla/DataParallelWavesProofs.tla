---------------------- MODULE DataParallelWavesProofs ----------------------
(***************************************************************************)
(* Proofs about DataParallelWaves, for every number of engines, front-ends *)
(* and requests, every number of pauses and every configuration: engines   *)
(* that wait in a collective wait in the same one, a pause holds, and all  *)
(* agree on the wave when nothing is on its way.                           *)
(***************************************************************************)
EXTENDS DataParallelWaves, SequenceTheorems, TLAPS

\* What is on its way between the processes.
InputMsg ==
  [type : {"ADD"}, req : Requests, wave : Nat] \cup [type : {"ABORT"}, req : Requests]
    \cup [type : {"PAUSE"}, mode : {"keep", "abort", "wait"}] \cup [type : {"RESUME"}]
ChannelTypes ==
  /\ sent \in [Requests -> {<< >>} \cup (Clients \X Engines)]
  /\ input \in [Clients -> [Engines -> Seq(InputMsg)]]
  /\ first_req \in [Clients -> Seq(Engines)]
  /\ to_coord \in [Clients -> Seq([exclude : Engines, wave : Nat])]
  /\ start_dp_wave \in [Engines -> Seq([wave : Nat, exclude : Nat])]
  /\ from_engine \in [Engines -> Seq([type : {"start_wave", "wave_complete"}, wave : Nat])]
  /\ stats \in [Clients -> Seq([wave : Nat, running : BOOLEAN])]

\* Message m adds request r; a queue holds such a message; it holds none twice.
Adds(m, r) == m.type = "ADD" /\ m.req = r
HasAdd(q, r) == \E i \in 1 .. Len(q) : Adds(q[i], r)
AddsOnce(q) ==
  \A i, j \in 1 .. Len(q) : q[i].type = "ADD" /\ Adds(q[j], q[i].req) => i = j

\* A request is at one place: not sent, on its way, or at one engine, where it is either
\* waiting or running and has passes left.
RequestInv ==
  /\ \A r \in Requests : sent[r] = << >> => left[r] = config.steps
  /\ \A c \in Clients, e \in Engines :
       /\ AddsOnce(input[c][e])
       /\ \A r \in Requests : HasAdd(input[c][e], r) =>
            /\ sent[r] = <<c, e>> /\ left[r] = config.steps
            /\ \A f \in Engines : r \notin waiting[f] \cup running[f]
  /\ \A e \in Engines : /\ waiting[e] \cap running[e] = {}
                        /\ \A r \in waiting[e] \cup running[e] :
                             sent[r] # << >> /\ sent[r][2] = e /\ left[r] > 0

\* Passes are counted alike, and all engines enter and leave the all-reduce together.
CountInv ==
  \A e, f \in Engines : /\ step_counter[e] = step_counter[f]
                        /\ pc[e] = "sync" => pc[f] = "sync"

\* Calls of pause_scheduler and resume_scheduler: a queue holds none, or one.
IsCall(m) == m.type \in {"PAUSE", "RESUME"}
NoCallIn(q) == \A i \in 1 .. Len(q) : ~ IsCall(q[i])
OneCallIn(q, type) ==
  \E i \in 1 .. Len(q) : /\ q[i].type = type
                         /\ \A j \in 1 .. Len(q) : j # i => ~ IsCall(q[j])

\* No call is on its way to engine e, or one.
NoCall(e) == \A c \in Clients : NoCallIn(input[c][e])
OneCall(e, type) ==
  \E c \in Clients :
    OneCallIn(input[c][e], type) /\ \A d \in Clients : d # c => NoCallIn(input[d][e])

\* Engine e before it takes the call of pause_scheduler, after that, and after the
\* consensus of all engines.
Unpaused(e) ==
  pause_state[e] = "UNPAUSED" /\ ~ pending_pause[e] /\ ~ ignore_start_dp_wave[e] /\ ~ idle_callback[e]

Pausing(e) ==
  /\ pause_state[e] # "UNPAUSED" /\ pending_pause[e] /\ idle_callback[e]
  /\ engines_running[e] /\ pc[e] # "resume"

Agreed(e) ==
  /\ pause_state[e] # "UNPAUSED" /\ ~ pending_pause[e] /\ ignore_start_dp_wave[e]
  /\ pc[e] # "resume"
  /\ engines_running[e] => idle_callback[e]
  /\ ~ engines_running[e] => pc[e] = "input" /\ Unfinished(e) = {}

Stopped(e) == Agreed(e) /\ ~ engines_running[e] /\ ~ idle_callback[e]

PauseInv ==
  /\ pausing = "no" => \A e \in Engines : Unpaused(e) /\ pc[e] # "resume" /\ NoCall(e)
  /\ pausing = "pausing" =>
       \/ \A e \in Engines : \/ Unpaused(e) /\ pc[e] # "resume" /\ OneCall(e, "PAUSE")
                             \/ Pausing(e) /\ NoCall(e)
       \/ /\ \A e \in Engines : Agreed(e) /\ NoCall(e)
          /\ \A e, f \in Engines : engines_running[e] = engines_running[f]
  /\ pausing = "paused" => \A e \in Engines : Stopped(e) /\ NoCall(e)
  /\ pausing = "resuming" =>
       \A e \in Engines : \/ Stopped(e) /\ OneCall(e, "RESUME")
                          \/ Unpaused(e) /\ pc[e] = "resume" /\ ~ engines_running[e] /\ NoCall(e)

WaveInv == TypeOK /\ ChannelTypes /\ RequestInv /\ CountInv /\ PauseInv

-----------------------------------------------------------------------------
(* Queues.                                                                 *)

\* Sending keeps the type of the queues.
LEMMA SendType ==
  ASSUME NEW S, NEW M, NEW q \in [S -> Seq(M)], NEW k \in S, NEW m \in M
  PROVE  Send(q, k, m) \in [S -> Seq(M)]
<1>1. q[k] \in Seq(M)
  OBVIOUS
<1>2. Append(q[k], m) \in Seq(M)
  BY <1>1, AppendProperties
<1> QED
  BY <1>2 DEF Send

\* So does taking the first message, which has the type of the messages.
LEMMA PopType ==
  ASSUME NEW S, NEW M, NEW q \in [S -> Seq(M)], NEW k \in S, q[k] # << >>
  PROVE  Pop(q, k) \in [S -> Seq(M)] /\ Head(q[k]) \in M
<1>1. q[k] \in Seq(M)
  OBVIOUS
<1>2. Tail(q[k]) \in Seq(M) /\ Head(q[k]) \in M
  BY <1>1, HeadTailProperties
<1> QED
  BY <1>2 DEF Pop

\* And so does sending to all.
LEMMA BroadcastType ==
  ASSUME NEW S, NEW M, NEW q \in [S -> Seq(M)], NEW m \in M
  PROVE  Broadcast(q, m) \in [S -> Seq(M)]
<1>1. ASSUME NEW k \in S
      PROVE  Append(q[k], m) \in Seq(M)
  <2>1. q[k] \in Seq(M)
    OBVIOUS
  <2> QED
    BY <2>1, AppendProperties
<1> QED
  BY <1>1 DEF Broadcast

\* The fields of a message to an engine.
LEMMA InputFields ==
  ASSUME NEW m \in InputMsg
  PROVE  /\ m.type \in {"ADD", "ABORT", "PAUSE", "RESUME"}
         /\ m.type = "ADD" => m.req \in Requests /\ m.wave \in Nat
         /\ m.type = "ABORT" => m.req \in Requests
         /\ m.type = "PAUSE" => m.mode \in {"keep", "abort", "wait"}
<1>1. CASE m \in [type : {"ADD"}, req : Requests, wave : Nat]
  BY <1>1
<1>2. CASE m \in [type : {"ABORT"}, req : Requests]
  BY <1>2
<1>3. CASE m \in [type : {"PAUSE"}, mode : {"keep", "abort", "wait"}]
  BY <1>3
<1>4. CASE m \in [type : {"RESUME"}]
  BY <1>4
<1> QED
  BY <1>1, <1>2, <1>3, <1>4 DEF InputMsg

\* Front-end c sends message m to engine e.
Sends(c, e, m) == input' = [input EXCEPT ![c][e] = Append(@, m)]

\* A message that a front-end sends to one engine.
LEMMA InputSend ==
  ASSUME ChannelTypes, NEW c \in Clients, NEW e \in Engines, NEW m \in InputMsg, Sends(c, e, m)
  PROVE  /\ input' \in [Clients -> [Engines -> Seq(InputMsg)]]
         /\ input'[c][e] = Append(input[c][e], m)
         /\ \A d \in Clients, f \in Engines : d # c \/ f # e => input'[d][f] = input[d][f]
<1>1. input \in [Clients -> [Engines -> Seq(InputMsg)]]
  BY DEF ChannelTypes
<1>2. input[c] \in [Engines -> Seq(InputMsg)]
  BY <1>1
<1>3. input[c][e] \in Seq(InputMsg)
  BY <1>2
<1>4. Append(input[c][e], m) \in Seq(InputMsg)
  BY <1>3, AppendProperties
<1> QED
  BY <1>1, <1>2, <1>4 DEF Sends

\* A message that engine e takes from front-end c.
LEMMA InputTakes ==
  ASSUME ChannelTypes, NEW c \in Clients, NEW e \in Engines, NEW type, Takes(e, c, type)
  PROVE  /\ input[c][e] \in Seq(InputMsg) /\ input[c][e] # << >>
         /\ Head(input[c][e]) \in InputMsg /\ Head(input[c][e]).type = type
         /\ input' \in [Clients -> [Engines -> Seq(InputMsg)]]
         /\ input'[c][e] = Tail(input[c][e])
         /\ \A d \in Clients, f \in Engines : d # c \/ f # e => input'[d][f] = input[d][f]
<1>1. input \in [Clients -> [Engines -> Seq(InputMsg)]]
  BY DEF ChannelTypes
<1>2. input[c] \in [Engines -> Seq(InputMsg)]
  BY <1>1
<1>3. input[c][e] \in Seq(InputMsg)
  BY <1>2
<1>4. /\ input[c][e] # << >> /\ Head(input[c][e]).type = type
      /\ input' = [input EXCEPT ![c][e] = Tail(@)]
  BY DEF Takes
<1>5. Head(input[c][e]) \in InputMsg /\ Tail(input[c][e]) \in Seq(InputMsg)
  BY <1>3, <1>4, HeadTailProperties
<1> QED
  BY <1>1, <1>2, <1>3, <1>4, <1>5

\* A call that a front-end makes to all engines.
LEMMA InputCallAll ==
  ASSUME ChannelTypes, NEW c \in Clients, NEW m \in InputMsg, input' = CallAll(c, m)
  PROVE  /\ input' \in [Clients -> [Engines -> Seq(InputMsg)]]
         /\ \A e \in Engines : input'[c][e] = Append(input[c][e], m)
         /\ \A d \in Clients, e \in Engines : d # c => input'[d][e] = input[d][e]
<1>1. input \in [Clients -> [Engines -> Seq(InputMsg)]]
  BY DEF ChannelTypes
<1>2. input[c] \in [Engines -> Seq(InputMsg)]
  BY <1>1
<1>3. Broadcast(input[c], m) \in [Engines -> Seq(InputMsg)]
  BY <1>2, BroadcastType
<1>4. input' = [input EXCEPT ![c] = Broadcast(input[c], m)]
  BY DEF CallAll
<1>5. \A e \in Engines : Broadcast(input[c], m)[e] = Append(input[c][e], m)
  BY <1>2 DEF Broadcast
<1> QED
  BY <1>1, <1>3, <1>4, <1>5

-----------------------------------------------------------------------------
(* Types.                                                                  *)

\* The types of the engines' flags, of the requests, of the wave numbers and of what the
\* front-ends keep and send.
EngineTypes ==
  /\ config \in Configs
  /\ pc \in [Engines -> {"input", "forward", "sync", "resume"}]
  /\ step_counter \in [Engines -> 0 .. config.sync_interval - 1]
  /\ engines_running \in [Engines -> BOOLEAN] /\ pending_pause \in [Engines -> BOOLEAN]
  /\ ignore_start_dp_wave \in [Engines -> BOOLEAN]
  /\ pause_state \in [Engines -> {"UNPAUSED", "PAUSED_NEW", "PAUSED_ALL"}]
  /\ finished_req_ids \in [Engines -> BOOLEAN] /\ idle_callback \in [Engines -> BOOLEAN]

RequestTypes ==
  /\ waiting \in [Engines -> SUBSET Requests] /\ running \in [Engines -> SUBSET Requests]
  /\ left \in [Requests -> 0 .. config.steps]

WaveTypes ==
  /\ current_wave \in [Engines -> Nat]
  /\ coord \in [wave : Nat, running : BOOLEAN]
  /\ client \in [Clients -> [wave : Nat, running : BOOLEAN]]
  /\ first_req \in [Clients -> Seq(Engines)]
  /\ to_coord \in [Clients -> Seq([exclude : Engines, wave : Nat])]
  /\ start_dp_wave \in [Engines -> Seq([wave : Nat, exclude : Nat])]
  /\ from_engine \in [Engines -> Seq([type : {"start_wave", "wave_complete"}, wave : Nat])]
  /\ stats \in [Clients -> Seq([wave : Nat, running : BOOLEAN])]

FrontTypes ==
  /\ pausing \in {"no", "pausing", "paused", "resuming"} /\ pauses \in 0 .. MaxPauses
  /\ sent \in [Requests -> {<< >>} \cup (Clients \X Engines)]
  /\ input \in [Clients -> [Engines -> Seq(InputMsg)]]

\* Together they are all types.
LEMMA TypeParts ==
  TypeOK /\ ChannelTypes <=> EngineTypes /\ RequestTypes /\ WaveTypes /\ FrontTypes
  BY DEF TypeOK, ChannelTypes, EngineTypes, RequestTypes, WaveTypes, FrontTypes

\* The assumptions on the configuration of a behaviour.
LEMMA ConfigTypes ==
  ASSUME config \in Configs
  PROVE  /\ config.sync_interval \in Nat \ {0} /\ config.steps \in Nat \ {0}
         /\ config.modes \subseteq {"keep", "abort", "wait"}
         /\ NumEngines \in Nat /\ 0 \in Engines /\ \A e \in Engines : e \in Nat
         /\ None \in Nat
  BY WavesAssumption DEF Engines, None

\* The steps of the front-ends and of the coordinator leave the engines alone.
LEMMA EnginesAlone ==
  ASSUME \/ \E c \in Clients, r \in Requests : AddRequest(c, r)
         \/ \E r \in Requests : AbortRequest(r)
         \/ \E c \in Clients, mode \in config.modes : PauseScheduler(c, mode)
         \/ PauseReturns
         \/ \E c \in Clients : ResumeScheduler(c)
         \/ \E c \in Clients : NotifyCoordinator(c) \/ UpdateStats(c) \/ HandleNewRequest(c)
         \/ \E e \in Engines : HandleEngineOutput(e)
         \/ PublishStats
         \/ UNCHANGED vars
  PROVE  UNCHANGED <<config, engineVars>>
  BY DEF AddRequest, AbortRequest, PauseScheduler, PauseReturns, ResumeScheduler,
     NotifyCoordinator, UpdateStats, HandleNewRequest, HandleEngineOutput, PublishStats, vars

\* The pass counter stays below the interval between two all-reduces.
LEMMA AdvanceType ==
  ASSUME config \in Configs, NEW n \in 0 .. config.sync_interval - 1
  PROVE  Advance(n) \in 0 .. config.sync_interval - 1
<1>1. config.sync_interval \in Nat \ {0}
  BY ConfigTypes
<1>2. ASSUME NEW a \in Nat, NEW k \in Nat \ {0}
      PROVE  a % k \in 0 .. k - 1
  OBVIOUS
<1>3. n + 1 \in Nat
  BY <1>1
<1> QED
  BY <1>1, <1>2, <1>3 DEF Advance

\* Every step keeps the types of the engines' flags.
LEMMA EngineTypesStep ==
  ASSUME EngineTypes, [Next]_vars
  PROVE  EngineTypes'
<1>1. CASE UNCHANGED <<config, engineVars>>
  BY <1>1 DEF engineVars, EngineTypes
<1>2. ASSUME NEW e \in Engines, NEW c \in Clients, Handle(e, c)
      PROVE  EngineTypes'
  <2>1. CASE HandleAdd(e, c)
    <3>1. engines_running' \in [Engines -> BOOLEAN]
      BY <2>1 DEF HandleAdd, EngineTypes
    <3> QED
      BY <2>1, <3>1 DEF HandleAdd, EngineTypes
  <2>2. ASSUME NEW reqs, Finish(e, reqs)
        PROVE  finished_req_ids' \in [Engines -> BOOLEAN]
    BY <2>2 DEF Finish, EngineTypes
  <2>3. CASE HandleAbort(e, c)
    <3>1. finished_req_ids' \in [Engines -> BOOLEAN]
      BY <2>2, <2>3 DEF HandleAbort
    <3> QED
      BY <2>3, <3>1 DEF HandleAbort, EngineTypes
  <2>4. CASE HandlePause(e, c)
    <3>1. finished_req_ids' \in [Engines -> BOOLEAN]
      <4>1. Finish(e, waiting[e] \cup running[e]) \/ UNCHANGED finished_req_ids
        BY <2>4 DEF HandlePause
      <4> QED
        BY <2>2, <4>1 DEF EngineTypes
    <3>2. pause_state' \in [Engines -> {"UNPAUSED", "PAUSED_NEW", "PAUSED_ALL"}]
      BY <2>4 DEF HandlePause, EngineTypes
    <3>3. /\ engines_running' \in [Engines -> BOOLEAN] /\ pending_pause' \in [Engines -> BOOLEAN]
          /\ idle_callback' \in [Engines -> BOOLEAN]
      BY <2>4 DEF HandlePause, EngineTypes
    <3> QED
      BY <2>4, <3>1, <3>2, <3>3 DEF HandlePause, EngineTypes
  <2>5. CASE HandleResume(e, c)
    <3>1. /\ pc' \in [Engines -> {"input", "forward", "sync", "resume"}]
          /\ pause_state' \in [Engines -> {"UNPAUSED", "PAUSED_NEW", "PAUSED_ALL"}]
          /\ ignore_start_dp_wave' \in [Engines -> BOOLEAN]
      BY <2>5 DEF HandleResume, EngineTypes
    <3> QED
      BY <2>5, <3>1 DEF HandleResume, EngineTypes
  <2> QED
    BY <1>2, <2>1, <2>3, <2>4, <2>5 DEF Handle
<1>3. ASSUME NEW e \in Engines, HandleStart(e) \/ NotifyIdle(e) \/ Step(e)
      PROVE  EngineTypes'
  <2>1. CASE HandleStart(e)
    <3>1. engines_running' \in [Engines -> BOOLEAN]
      BY <2>1 DEF HandleStart, EngineTypes
    <3> QED
      BY <2>1, <3>1 DEF HandleStart, EngineTypes
  <2>2. CASE NotifyIdle(e)
    BY <2>2 DEF NotifyIdle, EngineTypes
  <2>3. CASE Step(e)
    <3>1. /\ pc' \in [Engines -> {"input", "forward", "sync", "resume"}]
          /\ finished_req_ids' \in [Engines -> BOOLEAN]
      BY <2>3 DEF Step, EngineTypes
    <3> QED
      BY <2>3, <3>1 DEF Step, EngineTypes
  <2> QED
    BY <1>3, <2>1, <2>2, <2>3
<1>4. CASE Forward
  <2>1. step_counter' \in [Engines -> 0 .. config.sync_interval - 1]
    <3>1. config \in Configs /\ step_counter \in [Engines -> 0 .. config.sync_interval - 1]
      BY DEF EngineTypes
    <3>2. \A e \in Engines : Advance(step_counter[e]) \in 0 .. config.sync_interval - 1
      BY <3>1, AdvanceType
    <3> QED
      BY <1>4, <3>2 DEF Forward
  <2>2. /\ pc' \in [Engines -> {"input", "forward", "sync", "resume"}]
        /\ engines_running' \in [Engines -> BOOLEAN]
    BY <1>4 DEF Forward, EngineTypes
  <2>3. finished_req_ids' \in [Engines -> BOOLEAN]
    BY <1>4 DEF Forward
  <2> QED
    BY <1>4, <2>1, <2>2, <2>3 DEF Forward, EngineTypes
<1>5. CASE AllReduce
  <2>1. sync_dp_state.has_unfinished \in BOOLEAN
    BY DEF sync_dp_state
  <2>2. engines_running' \in [Engines -> BOOLEAN]
    BY <1>5, <2>1 DEF AllReduce
  <2>3. pc' \in [Engines -> {"input", "forward", "sync", "resume"}]
    BY <1>5 DEF AllReduce
  <2>4. ignore_start_dp_wave' \in [Engines -> BOOLEAN] /\ pending_pause' \in [Engines -> BOOLEAN]
    <3>1. \/ UNCHANGED <<ignore_start_dp_wave, pending_pause>>
          \/ /\ ignore_start_dp_wave' = [e \in Engines |-> TRUE]
             /\ pending_pause' = [e \in Engines |-> FALSE]
      BY <1>5 DEF AllReduce
    <3> QED
      BY <3>1 DEF EngineTypes
  <2> QED
    BY <1>5, <2>2, <2>3, <2>4 DEF AllReduce, EngineTypes
<1>6. CASE ResumeBarrier
  <2>1. engines_running' \in [Engines -> BOOLEAN]
    BY <1>6 DEF ResumeBarrier
  <2>2. pc' \in [Engines -> {"input", "forward", "sync", "resume"}]
    BY <1>6 DEF ResumeBarrier
  <2> QED
    BY <1>6, <2>1, <2>2 DEF ResumeBarrier, EngineTypes
<1> QED
  BY <1>1, <1>2, <1>3, <1>4, <1>5, <1>6, EnginesAlone DEF Next

\* Every step keeps the types of the wave numbers and of the messages that carry them.
LEMMA WaveTypesStep ==
  ASSUME EngineTypes, WaveTypes, FrontTypes, [Next]_vars
  PROVE  WaveTypes'
<1> DEFINE State == [wave : Nat, running : BOOLEAN]
           Notice == [exclude : Engines, wave : Nat]
           Start == [wave : Nat, exclude : Nat]
           Output == [type : {"start_wave", "wave_complete"}, wave : Nat]
<1>0. /\ config \in Configs
      /\ current_wave \in [Engines -> Nat] /\ coord \in State /\ client \in [Clients -> State]
      /\ first_req \in [Clients -> Seq(Engines)] /\ to_coord \in [Clients -> Seq(Notice)]
      /\ start_dp_wave \in [Engines -> Seq(Start)] /\ from_engine \in [Engines -> Seq(Output)]
      /\ stats \in [Clients -> Seq(State)]
  BY DEF WaveTypes, EngineTypes
<1>1. SUFFICES /\ current_wave' \in [Engines -> Nat] /\ coord' \in State
               /\ client' \in [Clients -> State]
               /\ first_req' \in [Clients -> Seq(Engines)] /\ to_coord' \in [Clients -> Seq(Notice)]
               /\ start_dp_wave' \in [Engines -> Seq(Start)]
               /\ from_engine' \in [Engines -> Seq(Output)]
               /\ stats' \in [Clients -> Seq(State)]
  BY DEF WaveTypes
<1> USE DEF channels, clientVars, engineVars
<1>2. CASE UNCHANGED <<current_wave, coord, client, first_req, to_coord, start_dp_wave,
                       from_engine, stats>>
  BY <1>0, <1>2
<1>3. ASSUME NEW c \in Clients, NEW r \in Requests, AddRequest(c, r)
      PROVE  WaveTypes'
  <2>1. first_req' \in [Clients -> Seq(Engines)]
    <3>1. PICK e \in Engines : first_req' = FirstRequest(c, e)
      BY <1>3 DEF AddRequest
    <3>2. Send(first_req, c, e) \in [Clients -> Seq(Engines)]
      BY <1>0, SendType
    <3> QED
      BY <1>0, <3>1, <3>2 DEF FirstRequest
  <2> QED
    BY <1>0, <1>3, <2>1 DEF AddRequest, WaveTypes
<1>4. ASSUME NEW c \in Clients, NotifyCoordinator(c)
      PROVE  WaveTypes'
  <2>1. Pop(first_req, c) \in [Clients -> Seq(Engines)] /\ Head(first_req[c]) \in Engines
    BY <1>0, <1>4, PopType DEF NotifyCoordinator
  <2>2. client[c] \in State
    BY <1>0
  <2>3. [exclude |-> Head(first_req[c]), wave |-> client[c].wave] \in Notice
    BY <2>1, <2>2
  <2>4. to_coord' \in [Clients -> Seq(Notice)]
    <3> HIDE DEF Notice
    <3> QED
      BY <1>0, <1>4, <2>3, SendType DEF NotifyCoordinator
  <2>5. client' \in [Clients -> State]
    BY <1>0, <1>4, <2>2 DEF NotifyCoordinator
  <2> QED
    BY <1>0, <1>4, <2>1, <2>4, <2>5 DEF NotifyCoordinator, WaveTypes
<1>5. ASSUME NEW c \in Clients, UpdateStats(c)
      PROVE  WaveTypes'
  <2>1. stats[c] \in Seq(State) /\ Len(stats[c]) \in Nat /\ DOMAIN stats[c] = 1 .. Len(stats[c])
    <3> HIDE DEF State
    <3>1. stats[c] \in Seq(State)
      BY <1>0
    <3> QED
      BY <3>1, LenProperties
  <2>2. PICK n \in 1 .. Len(stats[c]) :
          /\ client' = [client EXCEPT ![c] = stats[c][n]]
          /\ stats' = [stats EXCEPT ![c] = SubSeq(@, n + 1, Len(@))]
    BY <1>5, <2>1 DEF UpdateStats
  <2>3. stats[c][n] \in State /\ SubSeq(stats[c], n + 1, Len(stats[c])) \in Seq(State)
    <3> HIDE DEF State
    <3>1. stats[c][n] \in State
      BY <2>1, ElementOfSeq
    <3>2. \A i \in n + 1 .. Len(stats[c]) : stats[c][i] \in State
      <4>1. \A i \in n + 1 .. Len(stats[c]) : i \in 1 .. Len(stats[c])
        BY <2>1
      <4> QED
        BY <2>1, <4>1, ElementOfSeq
    <3>3. SubSeq(stats[c], n + 1, Len(stats[c])) \in Seq(State)
      BY <2>1, <3>2, SubSeqProperties
    <3> QED
      BY <3>1, <3>3
  <2>4. client' \in [Clients -> State] /\ stats' \in [Clients -> Seq(State)]
    <3> HIDE DEF State
    <3> QED
      BY <1>0, <2>2, <2>3
  <2> QED
    BY <1>0, <1>5, <2>4 DEF UpdateStats, WaveTypes
<1>6. ASSUME NEW s \in State
      PROVE  Told(s) \in [Clients -> Seq(State)]
  <2> HIDE DEF State
  <2>1. ASSUME NEW c \in Clients
        PROVE  Append(stats[c], s) \in Seq(State) /\ stats[c] \in Seq(State)
    <3>1. stats[c] \in Seq(State)
      BY <1>0
    <3> QED
      BY <3>1, AppendProperties
  <2> QED
    BY <2>1 DEF Told
<1>7. ASSUME NEW c \in Clients, HandleNewRequest(c)
      PROVE  WaveTypes'
  <2>1. Pop(to_coord, c) \in [Clients -> Seq(Notice)] /\ Head(to_coord[c]) \in Notice
    <3> HIDE DEF Notice
    <3> QED
      BY <1>0, <1>7, PopType DEF HandleNewRequest
  <2>2. Excluded(Head(to_coord[c])) \in Nat
    BY <1>0, <2>1, ConfigTypes DEF Excluded
  <2>3. [wave |-> coord.wave, exclude |-> Excluded(Head(to_coord[c]))] \in Start
    BY <1>0, <2>2
  <2>4. [coord EXCEPT !.running = TRUE] \in State
    BY <1>0
  <2>5. coord' \in State /\ stats' \in [Clients -> Seq(State)]
    <3> HIDE DEF State
    <3> QED
      BY <1>0, <1>6, <1>7, <2>4 DEF HandleNewRequest, Publish
  <2>6. start_dp_wave' \in [Engines -> Seq(Start)]
    <3> HIDE DEF Start
    <3>1. Broadcast(start_dp_wave, [wave |-> coord.wave, exclude |-> Excluded(Head(to_coord[c]))])
            \in [Engines -> Seq(Start)]
      BY <1>0, <2>3, BroadcastType
    <3> QED
      BY <1>0, <1>7, <3>1 DEF HandleNewRequest
  <2>7. to_coord' \in [Clients -> Seq(Notice)]
    BY <1>7, <2>1 DEF HandleNewRequest
  <2> QED
    BY <1>0, <1>7, <2>5, <2>6, <2>7 DEF HandleNewRequest, WaveTypes
<1>8. ASSUME NEW e \in Engines, HandleEngineOutput(e)
      PROVE  WaveTypes'
  <2>1. Pop(from_engine, e) \in [Engines -> Seq(Output)] /\ Head(from_engine[e]) \in Output
    <3> HIDE DEF Output
    <3> QED
      BY <1>0, <1>8, PopType DEF HandleEngineOutput
  <2> DEFINE msg == Head(from_engine[e])
  <2>2. msg.wave \in Nat /\ e \in Nat
    BY <1>0, <2>1, ConfigTypes
  <2>3. /\ [wave |-> msg.wave + 1, running |-> FALSE] \in State
        /\ [wave |-> msg.wave, running |-> TRUE] \in State
        /\ [wave |-> msg.wave, exclude |-> e] \in Start
    BY <2>2
  <2>4. \/ Publish([wave |-> msg.wave + 1, running |-> FALSE]) /\ UNCHANGED start_dp_wave
        \/ /\ Publish([wave |-> msg.wave, running |-> TRUE])
           /\ start_dp_wave' = Broadcast(start_dp_wave, [wave |-> msg.wave, exclude |-> e])
        \/ UNCHANGED <<coord, stats, start_dp_wave>>
    BY <1>8 DEF HandleEngineOutput
  <2>5. coord' \in State /\ stats' \in [Clients -> Seq(State)]
    <3> HIDE DEF State, msg
    <3> QED
      BY <1>0, <1>6, <2>3, <2>4 DEF Publish
  <2>6. start_dp_wave' \in [Engines -> Seq(Start)]
    <3> HIDE DEF Start, msg
    <3>1. Broadcast(start_dp_wave, [wave |-> msg.wave, exclude |-> e]) \in [Engines -> Seq(Start)]
      BY <1>0, <2>3, BroadcastType
    <3> QED
      BY <1>0, <2>4, <3>1
  <2>7. from_engine' \in [Engines -> Seq(Output)]
    BY <1>8, <2>1 DEF HandleEngineOutput
  <2> QED
    BY <1>0, <1>8, <2>5, <2>6, <2>7 DEF HandleEngineOutput, WaveTypes
<1>9. CASE PublishStats
  <2>1. stats' \in [Clients -> Seq(State)]
    <3> HIDE DEF State
    <3> QED
      BY <1>0, <1>6, <1>9 DEF PublishStats
  <2> QED
    BY <1>0, <1>9, <2>1 DEF PublishStats, WaveTypes
<1>10. ASSUME NEW e \in Engines, NEW c \in Clients, HandleAdd(e, c)
       PROVE  WaveTypes'
  <2>1. Head(input[c][e]).wave \in Nat
    <3>1. Head(input[c][e]) \in InputMsg /\ Head(input[c][e]).type = "ADD"
      <4>1. ChannelTypes
        BY DEF ChannelTypes, FrontTypes, WaveTypes
      <4>2. Takes(e, c, "ADD")
        BY <1>10 DEF HandleAdd
      <4> QED
        BY <4>1, <4>2, InputTakes
    <3> QED
      BY <3>1, InputFields
  <2>2. current_wave' \in [Engines -> Nat]
    BY <1>0, <1>10, <2>1 DEF HandleAdd
  <2>3. [type |-> "start_wave", wave |-> current_wave[e]] \in Output
    BY <1>0
  <2>4. from_engine' \in [Engines -> Seq(Output)]
    <3> HIDE DEF Output
    <3>1. Send(from_engine, e, [type |-> "start_wave", wave |-> current_wave[e]])
            \in [Engines -> Seq(Output)]
      BY <1>0, <2>3, SendType
    <3> QED
      BY <1>0, <1>10, <3>1 DEF HandleAdd
  <2> QED
    BY <1>0, <1>10, <2>2, <2>4 DEF HandleAdd, WaveTypes
<1>11. ASSUME NEW e \in Engines, HandleStart(e)
       PROVE  WaveTypes'
  <2>1. Pop(start_dp_wave, e) \in [Engines -> Seq(Start)] /\ Head(start_dp_wave[e]) \in Start
    <3> HIDE DEF Start
    <3> QED
      BY <1>0, <1>11, PopType DEF HandleStart
  <2>2. current_wave' \in [Engines -> Nat]
    BY <1>0, <1>11, <2>1 DEF HandleStart
  <2>3. start_dp_wave' \in [Engines -> Seq(Start)]
    BY <1>11, <2>1 DEF HandleStart
  <2> QED
    BY <1>0, <1>11, <2>2, <2>3 DEF HandleStart, WaveTypes
<1>12. CASE AllReduce
  <2>1. current_wave' \in [Engines -> Nat]
    BY <1>0, <1>12 DEF AllReduce
  <2>2. 0 \in Engines /\ [type |-> "wave_complete", wave |-> current_wave[0]] \in Output
    BY <1>0, ConfigTypes
  <2>3. from_engine' \in [Engines -> Seq(Output)]
    <3> HIDE DEF Output
    <3>1. Send(from_engine, 0, [type |-> "wave_complete", wave |-> current_wave[0]])
            \in [Engines -> Seq(Output)]
      BY <1>0, <2>2, SendType
    <3> QED
      BY <1>0, <1>12, <3>1 DEF AllReduce
  <2> QED
    BY <1>0, <1>12, <2>1, <2>3 DEF AllReduce, WaveTypes
<1>13. CASE \/ \E r \in Requests : AbortRequest(r)
            \/ \E c \in Clients, mode \in config.modes : PauseScheduler(c, mode)
            \/ PauseReturns
            \/ \E c \in Clients : ResumeScheduler(c)
            \/ UNCHANGED vars
  BY <1>2, <1>13 DEF AbortRequest, PauseScheduler, PauseReturns, ResumeScheduler, vars
<1>14. ASSUME NEW e \in Engines, NEW c \in Clients,
              HandleAbort(e, c) \/ HandlePause(e, c) \/ HandleResume(e, c)
       PROVE  WaveTypes'
  BY <1>0, <1>14 DEF HandleAbort, HandlePause, HandleResume, WaveTypes
<1>15. CASE (\E e \in Engines : NotifyIdle(e) \/ Step(e)) \/ Forward \/ ResumeBarrier
  BY <1>2, <1>15 DEF NotifyIdle, Step, Forward, ResumeBarrier
<1> QED
  BY <1>3, <1>4, <1>5, <1>7, <1>8, <1>9, <1>10, <1>11, <1>12, <1>13, <1>14, <1>15
     DEF Next, Handle, WaveTypes

\* Every step keeps the types of what the front-ends keep and send.
LEMMA FrontTypesStep ==
  ASSUME EngineTypes, WaveTypes, FrontTypes, [Next]_vars
  PROVE  FrontTypes'
<1>0. ChannelTypes /\ config \in Configs /\ MaxPauses \in Nat
  BY WavesAssumption DEF ChannelTypes, WaveTypes, FrontTypes, EngineTypes
<1>1. CASE UNCHANGED <<pausing, pauses, sent, input>>
  BY <1>1 DEF FrontTypes
<1>2. ASSUME NEW c \in Clients, NEW r \in Requests, AddRequest(c, r)
      PROVE  FrontTypes'
  <2>1. PICK e \in Engines :
          /\ sent' = [sent EXCEPT ![r] = <<c, e>>]
          /\ Sends(c, e, [type |-> "ADD", req |-> r, wave |-> client[c].wave])
    BY <1>2 DEF AddRequest, Sends
  <2>2. client[c].wave \in Nat
    BY DEF WaveTypes
  <2>3. [type |-> "ADD", req |-> r, wave |-> client[c].wave] \in InputMsg
    BY <2>2 DEF InputMsg
  <2>4. input' \in [Clients -> [Engines -> Seq(InputMsg)]]
    BY <1>0, <2>1, <2>3, InputSend
  <2>5. sent' \in [Requests -> {<< >>} \cup (Clients \X Engines)]
    BY <2>1 DEF FrontTypes
  <2> QED
    BY <1>2, <2>4, <2>5 DEF AddRequest, FrontTypes
<1>3. ASSUME NEW r \in Requests, AbortRequest(r)
      PROVE  FrontTypes'
  <2>1. sent[r] \in Clients \X Engines
    BY <1>3 DEF AbortRequest, Unserved, FrontTypes
  <2>2. sent[r][1] \in Clients /\ sent[r][2] \in Engines
    BY <2>1
  <2>3. [type |-> "ABORT", req |-> r] \in InputMsg
    BY DEF InputMsg
  <2>4. Sends(sent[r][1], sent[r][2], [type |-> "ABORT", req |-> r])
    BY <1>3 DEF AbortRequest, Sends
  <2>5. input' \in [Clients -> [Engines -> Seq(InputMsg)]]
    BY <1>0, <2>2, <2>3, <2>4, InputSend
  <2> QED
    BY <1>3, <2>5 DEF AbortRequest, FrontTypes
<1>4. ASSUME NEW c \in Clients, NEW mode \in config.modes, PauseScheduler(c, mode)
      PROVE  FrontTypes'
  <2>1. [type |-> "PAUSE", mode |-> mode] \in InputMsg
    BY <1>0, ConfigTypes DEF InputMsg
  <2>2. input' \in [Clients -> [Engines -> Seq(InputMsg)]]
    BY <1>0, <1>4, <2>1, InputCallAll DEF PauseScheduler
  <2>3. pauses' \in 0 .. MaxPauses
    BY <1>0, <1>4 DEF PauseScheduler, FrontTypes
  <2> QED
    BY <1>4, <2>2, <2>3 DEF PauseScheduler, FrontTypes
<1>5. ASSUME NEW c \in Clients, ResumeScheduler(c)
      PROVE  FrontTypes'
  <2>1. [type |-> "RESUME"] \in InputMsg
    BY DEF InputMsg
  <2>2. input' \in [Clients -> [Engines -> Seq(InputMsg)]]
    BY <1>0, <1>5, <2>1, InputCallAll DEF ResumeScheduler
  <2> QED
    BY <1>5, <2>2 DEF ResumeScheduler, FrontTypes
<1>6. CASE PauseReturns \/ ResumeBarrier
  BY <1>6 DEF PauseReturns, ResumeBarrier, channels, FrontTypes
<1>7. ASSUME NEW e \in Engines, NEW c \in Clients, Handle(e, c)
      PROVE  FrontTypes'
  <2>1. \E type \in {"ADD", "ABORT", "PAUSE", "RESUME"} : Takes(e, c, type)
    BY <1>7 DEF Handle, HandleAdd, HandleAbort, HandlePause, HandleResume
  <2>2. input' \in [Clients -> [Engines -> Seq(InputMsg)]]
    BY <1>0, <2>1, InputTakes
  <2>3. UNCHANGED <<pausing, pauses, sent>>
    BY <1>7 DEF Handle, HandleAdd, HandleAbort, HandlePause, HandleResume, clientVars
  <2> QED
    BY <2>2, <2>3 DEF FrontTypes
<1>8. CASE \E c \in Clients : NotifyCoordinator(c) \/ UpdateStats(c) \/ HandleNewRequest(c)
  BY <1>1, <1>8 DEF NotifyCoordinator, UpdateStats, HandleNewRequest, clientVars
<1>9. CASE (\E e \in Engines : HandleEngineOutput(e)) \/ PublishStats \/ UNCHANGED vars
  BY <1>1, <1>9 DEF HandleEngineOutput, PublishStats, vars, clientVars, channels
<1>10. CASE \E e \in Engines : HandleStart(e) \/ NotifyIdle(e) \/ Step(e)
  BY <1>1, <1>10 DEF HandleStart, NotifyIdle, Step, clientVars, channels
<1>11. CASE Forward \/ AllReduce
  BY <1>1, <1>11 DEF Forward, AllReduce, clientVars, channels
<1> QED
  BY <1>2, <1>3, <1>4, <1>5, <1>6, <1>7, <1>8, <1>9, <1>10, <1>11 DEF Next
-----------------------------------------------------------------------------
(* What the queues of an engine hold.                                      *)

\* A message that is appended to a queue.
LEMMA QueueAppend ==
  ASSUME NEW q \in Seq(InputMsg), NEW m \in InputMsg
  PROVE  /\ \A r : HasAdd(Append(q, m), r) <=> HasAdd(q, r) \/ Adds(m, r)
         /\ AddsOnce(q) /\ (m.type = "ADD" => ~ HasAdd(q, m.req)) => AddsOnce(Append(q, m))
         /\ NoCallIn(q) /\ ~ IsCall(m) => NoCallIn(Append(q, m))
         /\ \A type : OneCallIn(q, type) /\ ~ IsCall(m) => OneCallIn(Append(q, m), type)
         /\ NoCallIn(q) => OneCallIn(Append(q, m), m.type)
<1> DEFINE a == Append(q, m)
<1>1. /\ Len(a) = Len(q) + 1
      /\ \A i \in 1 .. Len(q) : a[i] = q[i]
      /\ a[Len(q) + 1] = m
  BY AppendProperties
<1>2. Len(q) \in Nat
  BY LenProperties
<1> HIDE DEF a
<1>3. /\ \A i \in 1 .. Len(a) : i \in 1 .. Len(q) \/ i = Len(q) + 1
      /\ \A i \in 1 .. Len(q) : i \in 1 .. Len(a) /\ i # Len(q) + 1
      /\ Len(q) + 1 \in 1 .. Len(a)
  BY <1>1, <1>2
<1> DEFINE k == Len(q) + 1
<1> HIDE DEF k
<1>4. /\ \A i \in 1 .. Len(a) : i \in 1 .. Len(q) \/ i = k
      /\ \A i \in 1 .. Len(q) : i \in 1 .. Len(a) /\ i # k /\ a[i] = q[i]
      /\ k \in 1 .. Len(a) /\ a[k] = m
  BY <1>1, <1>3 DEF k
<1>5. \A r : HasAdd(a, r) <=> HasAdd(q, r) \/ Adds(m, r)
  BY <1>4 DEF HasAdd
<1>6. ASSUME AddsOnce(q), m.type = "ADD" => ~ HasAdd(q, m.req),
             NEW i \in 1 .. Len(a), NEW j \in 1 .. Len(a), a[i].type = "ADD", Adds(a[j], a[i].req)
      PROVE  i = j
  <2>1. CASE i \in 1 .. Len(q) /\ j \in 1 .. Len(q)
    BY <1>4, <1>6, <2>1 DEF AddsOnce
  <2>2. CASE i = k /\ j \in 1 .. Len(q)
    BY <1>4, <1>6, <2>2 DEF HasAdd
  <2>3. CASE i \in 1 .. Len(q) /\ j = k
    BY <1>4, <1>6, <2>3 DEF HasAdd, Adds
  <2> QED
    BY <1>4, <2>1, <2>2, <2>3
<1>7. NoCallIn(q) /\ ~ IsCall(m) => NoCallIn(a)
  BY <1>4 DEF NoCallIn
<1>8. ASSUME NEW type, OneCallIn(q, type), ~ IsCall(m)
      PROVE  OneCallIn(a, type)
  BY <1>4, <1>8 DEF OneCallIn
<1>9. NoCallIn(q) => OneCallIn(a, m.type)
  BY <1>4 DEF NoCallIn, OneCallIn
<1> QED
  BY <1>5, <1>6, <1>7, <1>8, <1>9 DEF a, AddsOnce

\* The first message of a queue, and the others.
LEMMA QueueTail ==
  ASSUME NEW q \in Seq(InputMsg), q # << >>
  PROVE  /\ \A r : HasAdd(q, r) <=> Adds(Head(q), r) \/ HasAdd(Tail(q), r)
         /\ AddsOnce(q) => AddsOnce(Tail(q))
         /\ AddsOnce(q) /\ Head(q).type = "ADD" => ~ HasAdd(Tail(q), Head(q).req)
         /\ NoCallIn(q) => ~ IsCall(Head(q)) /\ NoCallIn(Tail(q))
         /\ \A type : OneCallIn(q, type) /\ ~ IsCall(Head(q)) /\ type \in {"PAUSE", "RESUME"} =>
              OneCallIn(Tail(q), type)
         /\ \A type : OneCallIn(q, type) /\ IsCall(Head(q)) =>
              Head(q).type = type /\ NoCallIn(Tail(q))
<1> DEFINE t == Tail(q)
<1>1. /\ Head(q) = q[1] /\ Len(t) = Len(q) - 1
      /\ \A i \in 1 .. Len(t) : t[i] = q[i + 1]
  BY HeadTailProperties
<1>2. Len(q) \in Nat /\ Len(q) # 0
  BY LenProperties, EmptySeq
<1> HIDE DEF t
<1>3. 1 \in 1 .. Len(q)
  BY <1>2
<1>4. ASSUME NEW i \in 1 .. Len(t)
      PROVE  i + 1 \in 1 .. Len(q) /\ i + 1 # 1 /\ t[i] = q[i + 1]
  BY <1>1, <1>2
<1>5. ASSUME NEW i \in 1 .. Len(q), i # 1
      PROVE  \E j \in 1 .. Len(t) : i = j + 1
  <2>1. i - 1 \in 1 .. Len(t) /\ i = (i - 1) + 1
    BY <1>1, <1>2, <1>5
  <2> QED
    BY <2>1
<1>6. \A r : HasAdd(q, r) <=> Adds(q[1], r) \/ HasAdd(t, r)
  <2>1. ASSUME NEW r, HasAdd(q, r)
        PROVE  Adds(q[1], r) \/ HasAdd(t, r)
    BY <1>4, <1>5, <2>1 DEF HasAdd
  <2>2. ASSUME NEW r, HasAdd(t, r)
        PROVE  HasAdd(q, r)
    BY <1>4, <2>2 DEF HasAdd
  <2>3. ASSUME NEW r, Adds(q[1], r)
        PROVE  HasAdd(q, r)
    BY <1>3, <2>3 DEF HasAdd
  <2> QED
    BY <2>1, <2>2, <2>3
<1>7. ASSUME AddsOnce(q)
      PROVE  AddsOnce(t) /\ (q[1].type = "ADD" => ~ HasAdd(t, q[1].req))
  <2>1. ASSUME NEW i \in 1 .. Len(t), NEW j \in 1 .. Len(t), t[i].type = "ADD", Adds(t[j], t[i].req)
        PROVE  i = j
    <3>1. i + 1 = j + 1
      BY <1>4, <1>7, <2>1 DEF AddsOnce
    <3> QED
      BY <3>1
  <2>2. ASSUME q[1].type = "ADD", NEW i \in 1 .. Len(t), Adds(t[i], q[1].req)
        PROVE  FALSE
    BY <1>3, <1>4, <1>7, <2>2 DEF AddsOnce
  <2> QED
    BY <2>1, <2>2 DEF AddsOnce, HasAdd
<1>8. NoCallIn(q) => ~ IsCall(q[1]) /\ NoCallIn(t)
  BY <1>3, <1>4 DEF NoCallIn
<1>9. ASSUME NEW type \in {"PAUSE", "RESUME"}, OneCallIn(q, type), ~ IsCall(q[1])
      PROVE  OneCallIn(t, type)
  <2>1. PICK i \in 1 .. Len(q) :
          q[i].type = type /\ \A j \in 1 .. Len(q) : j # i => ~ IsCall(q[j])
    BY <1>9 DEF OneCallIn
  <2>2. i # 1
    BY <1>9, <2>1 DEF IsCall
  <2>3. PICK k \in 1 .. Len(t) : i = k + 1
    BY <1>5, <2>2
  <2>4. ASSUME NEW j \in 1 .. Len(t), j # k
        PROVE  ~ IsCall(t[j])
    <3>1. j + 1 # i
      BY <2>3, <2>4
    <3> QED
      BY <1>4, <2>1, <3>1
  <2>5. t[k].type = type
    BY <1>4, <2>1, <2>3
  <2> QED
    BY <2>4, <2>5 DEF OneCallIn
<1>10. ASSUME NEW type, OneCallIn(q, type), IsCall(q[1])
       PROVE  q[1].type = type /\ NoCallIn(t)
  <2>1. PICK i \in 1 .. Len(q) :
          q[i].type = type /\ \A j \in 1 .. Len(q) : j # i => ~ IsCall(q[j])
    BY <1>10 DEF OneCallIn
  <2>2. i = 1
    BY <1>3, <1>10, <2>1
  <2> QED
    BY <1>4, <2>1, <2>2 DEF NoCallIn
<1> QED
  BY <1>1, <1>6, <1>7, <1>8, <1>9, <1>10 DEF t

-----------------------------------------------------------------------------
(* Requests.                                                               *)

\* A step adds no message that adds a request.
NoNewAdds ==
  \A c \in Clients, e \in Engines :
    /\ AddsOnce(input[c][e]) => AddsOnce(input'[c][e])
    /\ \A r : HasAdd(input'[c][e], r) => HasAdd(input[c][e], r)

\* Messages of other types do not.
LEMMA OtherSends ==
  ASSUME ChannelTypes, NEW c \in Clients, NEW m \in InputMsg, m.type # "ADD",
         \/ \E e \in Engines : Sends(c, e, m)
         \/ input' = CallAll(c, m)
  PROVE  NoNewAdds
<1>1. ASSUME NEW d \in Clients, NEW f \in Engines
      PROVE  input[d][f] \in Seq(InputMsg) /\ input'[d][f] \in {input[d][f], Append(input[d][f], m)}
  <2>1. input[d][f] \in Seq(InputMsg)
    BY DEF ChannelTypes
  <2>2. ASSUME NEW e \in Engines, Sends(c, e, m)
        PROVE  input'[d][f] \in {input[d][f], Append(input[d][f], m)}
    <3>1. /\ input'[c][e] = Append(input[c][e], m)
          /\ d # c \/ f # e => input'[d][f] = input[d][f]
      BY <2>2, InputSend
    <3> QED
      BY <3>1
  <2>3. ASSUME input' = CallAll(c, m)
        PROVE  input'[d][f] \in {input[d][f], Append(input[d][f], m)}
    BY <2>3, InputCallAll
  <2> QED
    BY <2>1, <2>2, <2>3
<1>2. \A r : ~ Adds(m, r)
  BY DEF Adds
<1>3. ASSUME NEW q \in Seq(InputMsg)
      PROVE  /\ AddsOnce(q) => AddsOnce(Append(q, m))
             /\ \A r : HasAdd(Append(q, m), r) => HasAdd(q, r)
  BY <1>2, QueueAppend
<1>4. ASSUME NEW d \in Clients, NEW f \in Engines
      PROVE  /\ AddsOnce(input[d][f]) => AddsOnce(input'[d][f])
             /\ \A r : HasAdd(input'[d][f], r) => HasAdd(input[d][f], r)
  <2>1. CASE input'[d][f] = input[d][f]
    BY <2>1
  <2>2. CASE input'[d][f] = Append(input[d][f], m)
    BY <1>1, <1>3, <2>2
  <2> QED
    BY <1>1, <2>1, <2>2
<1> QED
  BY <1>4 DEF NoNewAdds

\* Nor does taking a message.
LEMMA TakesAdds ==
  ASSUME ChannelTypes, NEW c \in Clients, NEW e \in Engines, NEW type, Takes(e, c, type)
  PROVE  NoNewAdds
<1>1. /\ input[c][e] \in Seq(InputMsg) /\ input[c][e] # << >>
      /\ input'[c][e] = Tail(input[c][e])
      /\ \A d \in Clients, f \in Engines : d # c \/ f # e => input'[d][f] = input[d][f]
  BY InputTakes
<1>2. /\ AddsOnce(input[c][e]) => AddsOnce(input'[c][e])
      /\ \A r : HasAdd(input'[c][e], r) => HasAdd(input[c][e], r)
  BY <1>1, QueueTail
<1> QED
  BY <1>1, <1>2 DEF NoNewAdds

\* A step that sends no request, and after which the requests of an engine were its before
\* and have passes left, keeps RequestInv.
LEMMA RequestFrame ==
  ASSUME RequestInv, NoNewAdds, UNCHANGED <<config, sent>>,
         \A r \in Requests : (\A e \in Engines : r \notin waiting[e] \cup running[e]) =>
           left'[r] = left[r],
         \A e \in Engines :
           /\ waiting'[e] \cap running'[e] = {}
           /\ \A r \in waiting'[e] \cup running'[e] :
                r \in waiting[e] \cup running[e] /\ left'[r] > 0
  PROVE  RequestInv'
<1>1. ASSUME NEW r \in Requests, sent[r] = << >>
      PROVE  left'[r] = config.steps
  <2>1. \A e \in Engines : r \notin waiting[e] \cup running[e]
    BY <1>1 DEF RequestInv
  <2> QED
    BY <1>1, <2>1 DEF RequestInv
<1>2. ASSUME NEW c \in Clients, NEW e \in Engines
      PROVE  /\ AddsOnce(input'[c][e])
             /\ \A r \in Requests : HasAdd(input'[c][e], r) =>
                  /\ sent[r] = <<c, e>> /\ left'[r] = config.steps
                  /\ \A f \in Engines : r \notin waiting'[f] \cup running'[f]
  <2>1. AddsOnce(input'[c][e])
    BY DEF RequestInv, NoNewAdds
  <2>2. ASSUME NEW r \in Requests, HasAdd(input'[c][e], r)
        PROVE  /\ sent[r] = <<c, e>> /\ left'[r] = config.steps
               /\ \A f \in Engines : r \notin waiting'[f] \cup running'[f]
    <3>1. HasAdd(input[c][e], r)
      BY <2>2 DEF NoNewAdds
    <3>2. /\ sent[r] = <<c, e>> /\ left[r] = config.steps
          /\ \A f \in Engines : r \notin waiting[f] \cup running[f]
      BY <3>1 DEF RequestInv
    <3> QED
      BY <3>2
  <2> QED
    BY <2>1, <2>2
<1>3. ASSUME NEW e \in Engines
      PROVE  /\ waiting'[e] \cap running'[e] = {}
             /\ \A r \in waiting'[e] \cup running'[e] :
                  sent[r] # << >> /\ sent[r][2] = e /\ left'[r] > 0
  BY DEF RequestInv
<1>4. sent' = sent /\ config' = config
  OBVIOUS
<1>5. \A c \in Clients, e \in Engines :
        AddsOnce(input[c][e])' /\ \A r \in Requests : HasAdd(input[c][e], r)' <=> HasAdd(input'[c][e], r)
  BY <1>2 DEF HasAdd, AddsOnce, Adds
<1> QED
  BY <1>1, <1>2, <1>3, <1>4, <1>5 DEF RequestInv

\* The requests that finish_requests takes from an engine.
LEMMA FinishFrame ==
  ASSUME RequestTypes, config \in Configs, config' = config, RequestInv,
         NEW e \in Engines, NEW reqs, Finish(e, reqs)
  PROVE  /\ RequestTypes'
         /\ \A r \in Requests : (\A f \in Engines : r \notin waiting[f] \cup running[f]) =>
              left'[r] = left[r]
         /\ \A f \in Engines :
              /\ waiting'[f] \cap running'[f] = {}
              /\ \A r \in waiting'[f] \cup running'[f] :
                   r \in waiting[f] \cup running[f] /\ left'[r] > 0
<1> DEFINE gone == reqs \cap (waiting[e] \cup running[e])
<1>1. /\ waiting' = [waiting EXCEPT ![e] = @ \ gone]
      /\ running' = [running EXCEPT ![e] = @ \ gone]
      /\ left' = [r \in Requests |-> IF r \in gone THEN 0 ELSE left[r]]
  BY DEF Finish
<1>2. /\ waiting \in [Engines -> SUBSET Requests] /\ running \in [Engines -> SUBSET Requests]
      /\ left \in [Requests -> 0 .. config.steps] /\ 0 \in 0 .. config.steps
  BY ConfigTypes DEF RequestTypes
<1>3. \A r \in gone : r \in waiting[e] \cup running[e]
  OBVIOUS
<1> HIDE DEF gone
<1>4. RequestTypes'
  <2>1. waiting' \in [Engines -> SUBSET Requests] /\ running' \in [Engines -> SUBSET Requests]
    BY <1>1, <1>2
  <2>2. left' \in [Requests -> 0 .. config.steps]
    BY <1>1, <1>2
  <2> QED
    BY <2>1, <2>2 DEF RequestTypes
<1>5. ASSUME NEW f \in Engines
      PROVE  /\ waiting'[f] \subseteq waiting[f] /\ running'[f] \subseteq running[f]
             /\ \A r \in waiting'[f] \cup running'[f] : r \notin gone
  <2>1. /\ waiting'[f] \subseteq waiting[f] /\ running'[f] \subseteq running[f]
        /\ f = e => waiting'[f] = waiting[f] \ gone /\ running'[f] = running[f] \ gone
    BY <1>1, <1>2
  <2>2. ASSUME NEW r \in waiting'[f] \cup running'[f], r \in gone
        PROVE  FALSE
    <3>1. sent[r][2] = f /\ sent[r][2] = e
      BY <1>3, <2>1, <2>2 DEF RequestInv
    <3> QED
      BY <2>1, <2>2, <3>1
  <2> QED
    BY <2>1, <2>2
<1>6. ASSUME NEW f \in Engines, NEW r \in waiting'[f] \cup running'[f]
      PROVE  r \in waiting[f] \cup running[f] /\ left'[r] > 0
  <2>1. r \in waiting[f] \cup running[f] /\ r \notin gone
    BY <1>5, <1>6
  <2>2. r \in Requests /\ left[r] > 0
    BY <1>2, <2>1 DEF RequestInv
  <2> QED
    BY <1>1, <2>1, <2>2
<1>7. ASSUME NEW f \in Engines
      PROVE  waiting'[f] \cap running'[f] = {}
  BY <1>5 DEF RequestInv
<1>8. ASSUME NEW r \in Requests, \A f \in Engines : r \notin waiting[f] \cup running[f]
      PROVE  left'[r] = left[r]
  BY <1>1, <1>3, <1>8
<1> QED
  BY <1>4, <1>6, <1>7, <1>8

\* Every step keeps the queues of requests.
LEMMA RequestStep ==
  ASSUME TypeOK, ChannelTypes, RequestInv, [Next]_vars
  PROVE  RequestTypes' /\ RequestInv'
<1>0. /\ config \in Configs /\ RequestTypes /\ EngineTypes /\ WaveTypes /\ FrontTypes
      /\ waiting \in [Engines -> SUBSET Requests] /\ running \in [Engines -> SUBSET Requests]
      /\ left \in [Requests -> 0 .. config.steps]
      /\ sent \in [Requests -> {<< >>} \cup (Clients \X Engines)]
      /\ config.steps \in Nat
  BY TypeParts, ConfigTypes DEF TypeOK, ChannelTypes
<1>a. ASSUME UNCHANGED <<config, sent, waiting, running, left>>, NoNewAdds
      PROVE  RequestTypes' /\ RequestInv'
  <2>1. RequestTypes'
    BY <1>0, <1>a DEF RequestTypes
  <2>2. \A e \in Engines :
          /\ waiting'[e] \cap running'[e] = {}
          /\ \A r \in waiting'[e] \cup running'[e] :
               r \in waiting[e] \cup running[e] /\ left'[r] > 0
    BY <1>a DEF RequestInv
  <2>3. \A r \in Requests : left'[r] = left[r]
    BY <1>a
  <2>4. UNCHANGED <<config, sent>> /\ NoNewAdds
    BY <1>a
  <2>5. RequestInv'
    BY <2>2, <2>3, <2>4, RequestFrame
  <2> QED
    BY <2>1, <2>5
<1>b. ASSUME input' = input
      PROVE  NoNewAdds
  BY <1>b DEF NoNewAdds
<1>1. ASSUME NEW c \in Clients, NEW r \in Requests, AddRequest(c, r)
      PROVE  RequestTypes' /\ RequestInv'
  <2> DEFINE m == [type |-> "ADD", req |-> r, wave |-> client[c].wave]
  <2>1. PICK e \in Engines : sent' = [sent EXCEPT ![r] = <<c, e>>]
                             /\ Sends(c, e, m)
    BY <1>1 DEF AddRequest, Sends
  <2>2. /\ UNCHANGED <<config, waiting, running, left>> /\ sent[r] = << >>
    BY <1>1 DEF AddRequest, engineVars
  <2>3. m \in InputMsg /\ m.type = "ADD" /\ \A x : Adds(m, x) <=> x = r
    <3>1. client[c].wave \in Nat
      BY <1>0 DEF WaveTypes
    <3> QED
      BY <3>1 DEF InputMsg, Adds
  <2> HIDE DEF m
  <2>4. /\ input'[c][e] = Append(input[c][e], m)
        /\ \A d \in Clients, f \in Engines : d # c \/ f # e => input'[d][f] = input[d][f]
    BY <2>1, <2>3, InputSend
  <2>5. /\ sent'[r] = <<c, e>> /\ \A x \in Requests : x # r => sent'[x] = sent[x]
    BY <1>0, <2>1
  <2>6. /\ \A d \in Clients, f \in Engines : ~ HasAdd(input[d][f], r)
        /\ \A f \in Engines : r \notin waiting[f] \cup running[f]
        /\ left[r] = config.steps
    BY <2>2 DEF RequestInv
  <2>7. input[c][e] \in Seq(InputMsg)
    BY DEF ChannelTypes
  <2>8. ASSUME NEW d \in Clients, NEW f \in Engines
        PROVE  /\ AddsOnce(input'[d][f])
               /\ \A x \in Requests : HasAdd(input'[d][f], x) =>
                    HasAdd(input[d][f], x) \/ (x = r /\ d = c /\ f = e)
    <3>1. CASE d = c /\ f = e
      <4>1. AddsOnce(Append(input[c][e], m))
        <5>1. AddsOnce(input[c][e]) /\ ~ HasAdd(input[c][e], m.req)
          BY <2>3, <2>6 DEF RequestInv, Adds
        <5> QED
          BY <2>3, <2>7, <5>1, QueueAppend
      <4>2. \A x : HasAdd(Append(input[c][e], m), x) => HasAdd(input[c][e], x) \/ x = r
        BY <2>3, <2>7, QueueAppend
      <4> QED
        BY <2>4, <3>1, <4>1, <4>2
    <3>2. CASE d # c \/ f # e
      BY <2>4, <3>2 DEF RequestInv
    <3> QED
      BY <3>1, <3>2
  <2>9. ASSUME NEW d \in Clients, NEW f \in Engines, NEW x \in Requests, HasAdd(input'[d][f], x)
        PROVE  /\ sent'[x] = <<d, f>> /\ left[x] = config.steps
               /\ \A g \in Engines : x \notin waiting[g] \cup running[g]
    <3>1. CASE x = r
      BY <2>5, <2>6, <2>8, <2>9, <3>1
    <3>2. CASE x # r
      BY <2>5, <2>8, <2>9, <3>2 DEF RequestInv
    <3> QED
      BY <3>1, <3>2
  <2>10. ASSUME NEW f \in Engines, NEW x \in waiting[f] \cup running[f]
         PROVE  sent'[x] # << >> /\ sent'[x][2] = f /\ left[x] > 0
    BY <1>0, <2>5, <2>6, <2>10 DEF RequestInv
  <2>11. \A x \in Requests : sent'[x] = << >> => left[x] = config.steps
    BY <2>5, <2>6 DEF RequestInv
  <2>12. \A d \in Clients, f \in Engines :
           AddsOnce(input[d][f])' /\ \A x \in Requests : HasAdd(input[d][f], x)' <=> HasAdd(input'[d][f], x)
    BY <2>8 DEF HasAdd, AddsOnce, Adds
  <2>13. RequestInv'
    <3>1. \A f \in Engines : waiting[f] \cap running[f] = {}
      BY DEF RequestInv
    <3> QED
      BY <2>2, <2>9, <2>10, <2>11, <2>12, <3>1 DEF RequestInv
  <2> QED
    BY <1>0, <2>2, <2>13 DEF RequestTypes
<1>2. ASSUME NEW r \in Requests, AbortRequest(r)
      PROVE  RequestTypes' /\ RequestInv'
  <2>1. sent[r] \in Clients \X Engines
    BY <1>0, <1>2 DEF AbortRequest, Unserved
  <2>2. sent[r][1] \in Clients /\ sent[r][2] \in Engines
    BY <2>1
  <2>3. [type |-> "ABORT", req |-> r] \in InputMsg
    BY DEF InputMsg
  <2>4. Sends(sent[r][1], sent[r][2], [type |-> "ABORT", req |-> r])
    BY <1>2 DEF AbortRequest, Sends
  <2>5. NoNewAdds
    BY <2>2, <2>3, <2>4, OtherSends
  <2> QED
    BY <1>a, <1>2, <2>5 DEF AbortRequest, engineVars
<1>3. ASSUME NEW c \in Clients, NEW mode \in config.modes, PauseScheduler(c, mode)
      PROVE  RequestTypes' /\ RequestInv'
  <2>1. [type |-> "PAUSE", mode |-> mode] \in InputMsg
    BY <1>0, ConfigTypes DEF InputMsg
  <2>2. NoNewAdds
    BY <1>3, <2>1, OtherSends DEF PauseScheduler
  <2> QED
    BY <1>a, <1>3, <2>2 DEF PauseScheduler, engineVars
<1>4. ASSUME NEW c \in Clients, ResumeScheduler(c)
      PROVE  RequestTypes' /\ RequestInv'
  <2>1. [type |-> "RESUME"] \in InputMsg
    BY DEF InputMsg
  <2>2. NoNewAdds
    BY <1>4, <2>1, OtherSends DEF ResumeScheduler
  <2> QED
    BY <1>a, <1>4, <2>2 DEF ResumeScheduler, engineVars
<1>5. CASE PauseReturns \/ ResumeBarrier \/ AllReduce \/ UNCHANGED vars
  BY <1>a, <1>b, <1>5 DEF PauseReturns, ResumeBarrier, AllReduce, vars, channels, engineVars, clientVars
<1>6. CASE \E c \in Clients : NotifyCoordinator(c) \/ UpdateStats(c) \/ HandleNewRequest(c)
  BY <1>a, <1>b, <1>6 DEF NotifyCoordinator, UpdateStats, HandleNewRequest, engineVars, clientVars
<1>7. CASE (\E e \in Engines : HandleEngineOutput(e) \/ HandleStart(e)) \/ PublishStats
  BY <1>a, <1>b, <1>7 DEF HandleEngineOutput, HandleStart, PublishStats, engineVars, clientVars
<1>8. ASSUME NEW e \in Engines, NEW c \in Clients, HandleAdd(e, c)
      PROVE  RequestTypes' /\ RequestInv'
  <2>1. Takes(e, c, "ADD")
    BY <1>8 DEF HandleAdd
  <2>2. /\ input[c][e] \in Seq(InputMsg) /\ input[c][e] # << >>
        /\ Head(input[c][e]) \in InputMsg /\ Head(input[c][e]).type = "ADD"
        /\ input'[c][e] = Tail(input[c][e])
        /\ \A d \in Clients, f \in Engines : d # c \/ f # e => input'[d][f] = input[d][f]
    BY <2>1, InputTakes
  <2>3. PICK r \in Requests : r = Head(input[c][e]).req
    BY <2>2, InputFields
  <2>4. /\ waiting' = [waiting EXCEPT ![e] = @ \cup {r}]
        /\ UNCHANGED <<config, running, left, sent>>
    BY <1>8, <2>3 DEF HandleAdd, clientVars
  <2>5. HasAdd(input[c][e], r) /\ ~ HasAdd(input'[c][e], r)
    <3>1. AddsOnce(input[c][e])
      BY DEF RequestInv
    <3> QED
      BY <2>2, <2>3, <3>1, QueueTail DEF Adds
  <2>6. /\ sent[r] = <<c, e>> /\ left[r] = config.steps
        /\ \A f \in Engines : r \notin waiting[f] \cup running[f]
    BY <2>5 DEF RequestInv
  <2>7. NoNewAdds
    BY <2>1, TakesAdds
  <2>8. ASSUME NEW d \in Clients, NEW f \in Engines
        PROVE  AddsOnce(input'[d][f]) /\ ~ HasAdd(input'[d][f], r)
    <3>1. AddsOnce(input'[d][f])
      BY <2>7 DEF NoNewAdds, RequestInv
    <3>2. ASSUME HasAdd(input'[d][f], r)
          PROVE  FALSE
      <4>1. HasAdd(input[d][f], r)
        BY <2>7, <3>2 DEF NoNewAdds
      <4>2. sent[r] = <<d, f>>
        BY <4>1 DEF RequestInv
      <4>3. d = c /\ f = e
        BY <2>6, <4>2
      <4> QED
        BY <2>5, <3>2, <4>3
    <3> QED
      BY <3>1, <3>2
  <2>9. \A f \in Engines : waiting'[f] = IF f = e THEN waiting[e] \cup {r} ELSE waiting[f]
    BY <1>0, <2>4
  <2>10. ASSUME NEW d \in Clients, NEW f \in Engines, NEW x \in Requests, HasAdd(input'[d][f], x)
         PROVE  /\ sent[x] = <<d, f>> /\ left[x] = config.steps
                /\ \A g \in Engines : x \notin waiting'[g] \cup running[g]
    <3>1. x # r
      BY <2>8, <2>10
    <3>2. HasAdd(input[d][f], x)
      BY <2>7, <2>10 DEF NoNewAdds
    <3>3. /\ sent[x] = <<d, f>> /\ left[x] = config.steps
          /\ \A g \in Engines : x \notin waiting[g] \cup running[g]
      BY <3>2 DEF RequestInv
    <3> QED
      BY <2>9, <3>1, <3>3
  <2>11. ASSUME NEW f \in Engines
         PROVE  /\ waiting'[f] \cap running[f] = {}
                /\ \A x \in waiting'[f] \cup running[f] :
                     sent[x] # << >> /\ sent[x][2] = f /\ left[x] > 0
    <3>1. /\ waiting[f] \cap running[f] = {}
          /\ \A x \in waiting[f] \cup running[f] :
               sent[x] # << >> /\ sent[x][2] = f /\ left[x] > 0
      BY DEF RequestInv
    <3>2. sent[r] # << >> /\ sent[r][2] = e /\ left[r] > 0
      BY <1>0, <2>6, ConfigTypes
    <3> QED
      BY <2>6, <2>9, <3>1, <3>2
  <2>12. \A d \in Clients, f \in Engines :
           AddsOnce(input[d][f])' /\ \A x \in Requests : HasAdd(input[d][f], x)' <=> HasAdd(input'[d][f], x)
    BY <2>8 DEF HasAdd, AddsOnce, Adds
  <2>13. RequestInv'
    <3>1. \A x \in Requests : sent[x] = << >> => left[x] = config.steps
      BY DEF RequestInv
    <3> QED
      BY <2>4, <2>10, <2>11, <2>12, <3>1 DEF RequestInv
  <2>14. waiting' \in [Engines -> SUBSET Requests]
    BY <1>0, <2>4
  <2> QED
    BY <1>0, <2>4, <2>13, <2>14 DEF RequestTypes
<1>9. ASSUME NEW e \in Engines, NEW reqs, Finish(e, reqs), NoNewAdds, UNCHANGED <<config, sent>>
      PROVE  RequestTypes' /\ RequestInv'
  <2>1. /\ RequestTypes'
        /\ \A r \in Requests : (\A f \in Engines : r \notin waiting[f] \cup running[f]) =>
             left'[r] = left[r]
        /\ \A f \in Engines :
             /\ waiting'[f] \cap running'[f] = {}
             /\ \A r \in waiting'[f] \cup running'[f] :
                  r \in waiting[f] \cup running[f] /\ left'[r] > 0
    BY <1>0, <1>9, FinishFrame
  <2>2. RequestInv'
    BY <1>9, <2>1, RequestFrame
  <2> QED
    BY <2>1, <2>2
<1>10. ASSUME NEW e \in Engines, NEW c \in Clients,
              HandleAbort(e, c) \/ HandlePause(e, c) \/ HandleResume(e, c)
       PROVE  RequestTypes' /\ RequestInv'
  <2>1. NoNewAdds
    BY <1>10, TakesAdds DEF HandleAbort, HandlePause, HandleResume
  <2>2. UNCHANGED <<config, sent>>
    BY <1>10 DEF HandleAbort, HandlePause, HandleResume, clientVars
  <2>3. (\E reqs : Finish(e, reqs)) \/ UNCHANGED <<waiting, running, left>>
    BY <1>10 DEF HandleAbort, HandlePause, HandleResume
  <2> QED
    BY <1>a, <1>9, <2>1, <2>2, <2>3
<1>11. ASSUME NEW e \in Engines, NotifyIdle(e) \/ Step(e)
       PROVE  RequestTypes' /\ RequestInv'
  <2>1. /\ UNCHANGED <<config, sent, left, input>>
    BY <1>11 DEF NotifyIdle, Step, clientVars, channels
  <2>2. Batch(e) \subseteq waiting[e] \cup running[e]
    BY <1>0 DEF Batch, Unfinished
  <2>3. PICK w, u : /\ waiting' = [waiting EXCEPT ![e] = w] /\ running' = [running EXCEPT ![e] = u]
                    /\ w \cap u = {} /\ w \cup u = waiting[e] \cup running[e]
    <3>1. waiting[e] \cap running[e] = {}
      BY DEF RequestInv
    <3>2. CASE NotifyIdle(e)
      <4>1. /\ waiting' = [waiting EXCEPT ![e] = waiting[e] \cup running[e]]
            /\ running' = [running EXCEPT ![e] = {}]
        BY <3>2 DEF NotifyIdle
      <4>2. (waiting[e] \cup running[e]) \cap {} = {}
            /\ (waiting[e] \cup running[e]) \cup {} = waiting[e] \cup running[e]
        OBVIOUS
      <4> QED
        BY <4>1, <4>2
    <3>3. CASE Step(e)
      <4> DEFINE b == Batch(e)
      <4>1. /\ waiting' = [waiting EXCEPT ![e] = waiting[e] \ b]
            /\ running' = [running EXCEPT ![e] = running[e] \cup b]
        BY <3>3 DEF Step
      <4>2. b \subseteq waiting[e] \cup running[e]
        BY <2>2
      <4> HIDE DEF b
      <4>3. (waiting[e] \ b) \cap (running[e] \cup b) = {}
            /\ (waiting[e] \ b) \cup (running[e] \cup b) = waiting[e] \cup running[e]
        BY <3>1, <4>2
      <4> QED
        BY <4>1, <4>3
    <3> QED
      BY <1>11, <3>2, <3>3
  <2>4. w \subseteq Requests /\ u \subseteq Requests
    <3>1. waiting[e] \cup running[e] \subseteq Requests
      BY <1>0
    <3> QED
      BY <2>3, <3>1
  <2>5. waiting' \in [Engines -> SUBSET Requests] /\ running' \in [Engines -> SUBSET Requests]
    BY <1>0, <2>3, <2>4
  <2>6. \A f \in Engines :
          /\ waiting'[f] = IF f = e THEN w ELSE waiting[f]
          /\ running'[f] = IF f = e THEN u ELSE running[f]
    BY <1>0, <2>3
  <2>7. ASSUME NEW f \in Engines
        PROVE  waiting'[f] \cap running'[f] = {}
               /\ waiting'[f] \cup running'[f] = waiting[f] \cup running[f]
    BY <2>3, <2>6 DEF RequestInv
  <2>8. ASSUME NEW f \in Engines, NEW r \in waiting'[f] \cup running'[f]
        PROVE  r \in waiting[f] \cup running[f] /\ left'[r] > 0
    BY <2>1, <2>7, <2>8 DEF RequestInv
  <2>9. NoNewAdds
    BY <1>b, <2>1
  <2>10. RequestInv'
    BY <2>1, <2>7, <2>8, <2>9, RequestFrame
  <2> QED
    BY <1>0, <2>1, <2>5, <2>10 DEF RequestTypes
<1>12. CASE Forward
  <2> DEFINE all == UNION {Computed(e) : e \in Engines}
  <2>1. /\ left' = [r \in Requests |-> IF r \in all THEN left[r] - 1 ELSE left[r]]
        /\ running' = [e \in Engines |-> {r \in running[e] : left'[r] > 0}]
        /\ UNCHANGED <<config, waiting, sent, input>>
    BY <1>12 DEF Forward, clientVars, channels
  <2>2. \A r \in all : \E e \in Engines : r \in running[e]
    BY DEF Computed
  <2> HIDE DEF all
  <2>3. \A r \in all : r \in Requests /\ left[r] > 0
    BY <1>0, <2>2 DEF RequestInv
  <2>4. left' \in [Requests -> 0 .. config.steps]
    <3>1. ASSUME NEW r \in Requests
          PROVE  (IF r \in all THEN left[r] - 1 ELSE left[r]) \in 0 .. config.steps
      <4>1. left[r] \in 0 .. config.steps
        BY <1>0
      <4> QED
        BY <1>0, <2>3, <4>1
    <3> QED
      BY <2>1, <3>1
  <2>5. \A e \in Engines : running'[e] = {r \in running[e] : left'[r] > 0}
    BY <2>1
  <2>6. running' \in [Engines -> SUBSET Requests]
    BY <1>0, <2>1
  <2>7. ASSUME NEW e \in Engines, NEW r \in waiting[e]
        PROVE  left'[r] > 0
    <3>1. r \in Requests /\ left[r] > 0
      BY <1>0 DEF RequestInv
    <3>2. r \notin all
      <4>1. SUFFICES ASSUME r \in all
                     PROVE  FALSE
        OBVIOUS
      <4>2. PICK f \in Engines : r \in running[f]
        BY <2>2, <4>1
      <4>3. sent[r][2] = e /\ sent[r][2] = f
        BY <4>2 DEF RequestInv
      <4> QED
        BY <4>2, <4>3 DEF RequestInv
    <3> QED
      BY <2>1, <3>1, <3>2
  <2>8. ASSUME NEW e \in Engines
        PROVE  /\ waiting'[e] \cap running'[e] = {}
               /\ \A r \in waiting'[e] \cup running'[e] :
                    r \in waiting[e] \cup running[e] /\ left'[r] > 0
    <3>1. waiting[e] \cap running[e] = {} /\ waiting'[e] = waiting[e]
      BY <2>1 DEF RequestInv
    <3> QED
      BY <2>5, <2>7, <3>1
  <2>9. \A r \in Requests : (\A e \in Engines : r \notin waiting[e] \cup running[e]) =>
          left'[r] = left[r]
    BY <2>1, <2>2
  <2>10. NoNewAdds
    BY <1>b, <2>1
  <2>11. RequestInv'
    BY <2>1, <2>8, <2>9, <2>10, RequestFrame
  <2> QED
    BY <1>0, <2>1, <2>4, <2>6, <2>11 DEF RequestTypes
<1> QED
  BY <1>1, <1>2, <1>3, <1>4, <1>5, <1>6, <1>7, <1>8, <1>10, <1>11, <1>12 DEF Next, Handle

-----------------------------------------------------------------------------
(* Collectives.                                                            *)

\* Every step keeps the counters equal and the engines together in the all-reduce.
LEMMA CountStep ==
  ASSUME EngineTypes, CountInv, [Next]_vars
  PROVE  CountInv'
<1>0. pc \in [Engines -> {"input", "forward", "sync", "resume"}] /\ 0 \in Engines
  BY ConfigTypes DEF EngineTypes
<1>1. CASE UNCHANGED <<pc, step_counter>>
  BY <1>1 DEF CountInv
<1>2. ASSUME NEW e \in Engines, pc[e] = "input", step_counter' = step_counter,
             \E p \in {"input", "forward", "resume"} : pc' = [pc EXCEPT ![e] = p]
      PROVE  CountInv'
  <2>1. \A f \in Engines : pc[f] # "sync"
    BY <1>2 DEF CountInv
  <2>2. \A f \in Engines : pc'[f] # "sync"
    BY <1>0, <1>2, <2>1
  <2> QED
    BY <1>2, <2>2 DEF CountInv
<1>3. CASE UNCHANGED <<config, engineVars>>
  BY <1>1, <1>3 DEF engineVars
<1>4. ASSUME NEW e \in Engines, NEW c \in Clients, Handle(e, c)
      PROVE  CountInv'
  <2>1. CASE HandleResume(e, c)
    <3>1. UNCHANGED pc \/ pc' = [pc EXCEPT ![e] = "resume"]
      BY <2>1 DEF HandleResume
    <3>2. step_counter' = step_counter /\ pc[e] = "input"
      BY <2>1 DEF HandleResume, Takes
    <3> QED
      BY <1>1, <1>2, <3>1, <3>2
  <2>2. CASE HandleAdd(e, c) \/ HandleAbort(e, c) \/ HandlePause(e, c)
    BY <1>1, <2>2 DEF HandleAdd, HandleAbort, HandlePause
  <2> QED
    BY <1>4, <2>1, <2>2 DEF Handle
<1>5. ASSUME NEW e \in Engines, Step(e)
      PROVE  CountInv'
  <2>1. \E p \in {"input", "forward"} : pc' = [pc EXCEPT ![e] = p]
    BY <1>0, <1>5 DEF Step
  <2>2. step_counter' = step_counter /\ pc[e] = "input"
    BY <1>5 DEF Step
  <2> QED
    BY <1>2, <2>1, <2>2
<1>6. CASE \E e \in Engines : HandleStart(e) \/ NotifyIdle(e)
  BY <1>1, <1>6 DEF HandleStart, NotifyIdle
<1>7. CASE Forward
  <2>1. \A e \in Engines : /\ step_counter'[e] = Advance(step_counter[e])
                           /\ pc'[e] = IF step_counter'[e] = 0 THEN "sync" ELSE "input"
    BY <1>7 DEF Forward
  <2> QED
    BY <2>1 DEF CountInv
<1>8. CASE AllReduce \/ ResumeBarrier
  <2>1. step_counter' = step_counter /\ \A e \in Engines : pc'[e] = "input"
    BY <1>8 DEF AllReduce, ResumeBarrier
  <2> QED
    BY <2>1 DEF CountInv
<1> QED
  BY <1>3, <1>4, <1>5, <1>6, <1>7, <1>8, EnginesAlone DEF Next

-----------------------------------------------------------------------------
(* Calls on their way.                                                     *)

\* A step neither sends nor takes a call to engine e.
CallsKept(e) ==
  \A c \in Clients :
    /\ NoCallIn(input[c][e]) => NoCallIn(input'[c][e])
    /\ \A type \in {"PAUSE", "RESUME"} : OneCallIn(input[c][e], type) => OneCallIn(input'[c][e], type)

\* What is on its way to the engine is what was.
LEMMA CallsKeptMeans ==
  ASSUME NEW e \in Engines, CallsKept(e)
  PROVE  /\ NoCall(e) => NoCall(e)'
         /\ \A type \in {"PAUSE", "RESUME"} : OneCall(e, type) => OneCall(e, type)'
<1>1. \A c \in Clients : (NoCallIn(input[c][e]))' <=> NoCallIn(input'[c][e])
  BY DEF NoCallIn, IsCall
<1>2. ASSUME NEW type \in {"PAUSE", "RESUME"}
      PROVE  \A c \in Clients : (OneCallIn(input[c][e], type))' <=> OneCallIn(input'[c][e], type)
  BY DEF OneCallIn, IsCall
<1>3. NoCall(e) => NoCall(e)'
  BY <1>1 DEF NoCall, CallsKept
<1>4. ASSUME NEW type \in {"PAUSE", "RESUME"}, OneCall(e, type)
      PROVE  OneCall(e, type)'
  <2>1. PICK c \in Clients :
          OneCallIn(input[c][e], type) /\ \A d \in Clients : d # c => NoCallIn(input[d][e])
    BY <1>4 DEF OneCall
  <2>2. OneCallIn(input'[c][e], type) /\ \A d \in Clients : d # c => NoCallIn(input'[d][e])
    BY <2>1 DEF CallsKept
  <2> QED
    BY <1>1, <1>2, <2>2 DEF OneCall
<1> QED
  BY <1>3, <1>4

\* A message that is no call.
LEMMA CallsKeptSend ==
  ASSUME ChannelTypes, NEW c \in Clients, NEW e \in Engines, NEW m \in InputMsg, ~ IsCall(m),
         Sends(c, e, m), NEW f \in Engines
  PROVE  CallsKept(f)
<1>1. ASSUME NEW d \in Clients
      PROVE  input[d][f] \in Seq(InputMsg) /\ input'[d][f] \in {input[d][f], Append(input[d][f], m)}
  <2>1. input[d][f] \in Seq(InputMsg)
    BY DEF ChannelTypes
  <2>2. input'[d][f] \in {input[d][f], Append(input[d][f], m)}
    <3>1. /\ input'[c][e] = Append(input[c][e], m)
          /\ d # c \/ f # e => input'[d][f] = input[d][f]
      BY InputSend
    <3> QED
      BY <3>1
  <2> QED
    BY <2>1, <2>2
<1>2. ASSUME NEW q \in Seq(InputMsg)
      PROVE  /\ NoCallIn(q) => NoCallIn(Append(q, m))
             /\ \A type : OneCallIn(q, type) => OneCallIn(Append(q, m), type)
  BY QueueAppend
<1>3. ASSUME NEW d \in Clients
      PROVE  /\ NoCallIn(input[d][f]) => NoCallIn(input'[d][f])
             /\ \A type \in {"PAUSE", "RESUME"} :
                  OneCallIn(input[d][f], type) => OneCallIn(input'[d][f], type)
  <2>1. CASE input'[d][f] = input[d][f]
    BY <2>1
  <2>2. CASE input'[d][f] = Append(input[d][f], m)
    BY <1>1, <1>2, <2>2
  <2> QED
    BY <1>1, <2>1, <2>2
<1> QED
  BY <1>3 DEF CallsKept

\* Taking a message: a call on its way is the one that is taken, or is still on its way.
LEMMA CallsTaken ==
  ASSUME ChannelTypes, NEW c \in Clients, NEW e \in Engines, NEW type, Takes(e, c, type)
  PROVE  /\ \A f \in Engines : f # e => CallsKept(f)
         /\ type \notin {"PAUSE", "RESUME"} => CallsKept(e)
         /\ type \in {"PAUSE", "RESUME"} =>
              /\ ~ NoCall(e)
              /\ \A t : OneCall(e, t) => t = type /\ NoCall(e)'
<1>1. /\ input[c][e] \in Seq(InputMsg) /\ input[c][e] # << >>
      /\ Head(input[c][e]).type = type
      /\ input'[c][e] = Tail(input[c][e])
      /\ \A d \in Clients, f \in Engines : d # c \/ f # e => input'[d][f] = input[d][f]
  BY InputTakes
<1>2. \A f \in Engines : f # e => CallsKept(f)
  BY <1>1 DEF CallsKept
<1>3. ASSUME type \notin {"PAUSE", "RESUME"}
      PROVE  CallsKept(e)
  <2>1. ~ IsCall(Head(input[c][e]))
    BY <1>1, <1>3 DEF IsCall
  <2>2. /\ NoCallIn(input[c][e]) => NoCallIn(input'[c][e])
        /\ \A t \in {"PAUSE", "RESUME"} : OneCallIn(input[c][e], t) => OneCallIn(input'[c][e], t)
    BY <1>1, <2>1, QueueTail
  <2>3. \A d \in Clients : d # c => input'[d][e] = input[d][e]
    BY <1>1
  <2> QED
    BY <2>2, <2>3 DEF CallsKept
<1>4. ASSUME type \in {"PAUSE", "RESUME"}
      PROVE  ~ NoCall(e) /\ \A t : OneCall(e, t) => t = type /\ NoCall(e)'
  <2>1. IsCall(Head(input[c][e]))
    BY <1>1, <1>4 DEF IsCall
  <2>2. ~ NoCallIn(input[c][e])
    BY <1>1, <2>1, QueueTail
  <2>3. ASSUME NEW t, OneCall(e, t)
        PROVE  t = type /\ NoCall(e)'
    <3>1. OneCallIn(input[c][e], t) /\ \A d \in Clients : d # c => NoCallIn(input[d][e])
      BY <2>2, <2>3 DEF OneCall
    <3>2. t = type /\ NoCallIn(input'[c][e])
      BY <1>1, <2>1, <3>1, QueueTail
    <3>3. \A d \in Clients : NoCallIn(input'[d][e])
      BY <1>1, <3>1, <3>2
    <3>4. \A d \in Clients : (NoCallIn(input[d][e]))' <=> NoCallIn(input'[d][e])
      BY DEF NoCallIn, IsCall
    <3> QED
      BY <3>2, <3>3, <3>4 DEF NoCall
  <2> QED
    BY <2>2, <2>3 DEF NoCall
<1> QED
  BY <1>2, <1>3, <1>4

\* A call to all engines.
LEMMA CallsMade ==
  ASSUME ChannelTypes, NEW c \in Clients, NEW m \in InputMsg, input' = CallAll(c, m),
         NEW e \in Engines, NoCall(e)
  PROVE  OneCall(e, m.type)'
<1>1. /\ input'[c][e] = Append(input[c][e], m)
      /\ \A d \in Clients : d # c => input'[d][e] = input[d][e]
  BY InputCallAll
<1>2. input[c][e] \in Seq(InputMsg)
  BY DEF ChannelTypes
<1>3. PICK t : t = m.type
  OBVIOUS
<1>4. OneCallIn(input'[c][e], t) /\ \A d \in Clients : d # c => NoCallIn(input'[d][e])
  BY <1>1, <1>2, <1>3, QueueAppend DEF NoCall
<1>5. \A d \in Clients : /\ (NoCallIn(input[d][e]))' <=> NoCallIn(input'[d][e])
                         /\ (OneCallIn(input[d][e], t))' <=> OneCallIn(input'[d][e], t)
  BY DEF NoCallIn, OneCallIn, IsCall
<1>6. OneCall(e, t)'
  BY <1>4, <1>5 DEF OneCall
<1> QED
  BY <1>3, <1>6

-----------------------------------------------------------------------------
(* Pauses.                                                                 *)

\* What PauseInv reads of an engine besides the calls on their way to it.
SameEngine(e) ==
  /\ pc'[e] = pc[e] /\ engines_running'[e] = engines_running[e]
  /\ pending_pause'[e] = pending_pause[e] /\ ignore_start_dp_wave'[e] = ignore_start_dp_wave[e]
  /\ pause_state'[e] = pause_state[e] /\ idle_callback'[e] = idle_callback[e]
  /\ running'[e] \subseteq running[e]

\* A paused engine has no unfinished requests as long as none is scheduled.
LEMMA PausedUnfinished ==
  ASSUME EngineTypes, NEW e \in Engines, pause_state[e] # "UNPAUSED",
         pause_state'[e] = pause_state[e], running'[e] \subseteq running[e], Unfinished(e) = {}
  PROVE  Unfinished(e)' = {}
<1>1. pause_state[e] \in {"PAUSED_NEW", "PAUSED_ALL"}
  BY DEF EngineTypes
<1> QED
  BY <1>1 DEF Unfinished

\* An engine nothing happens to stays in its phase of the pause.
LEMMA SamePhase ==
  ASSUME EngineTypes, NEW e \in Engines, SameEngine(e)
  PROVE  /\ Unpaused(e) => Unpaused(e)'
         /\ Pausing(e) => Pausing(e)'
         /\ Agreed(e) => Agreed(e)'
         /\ Stopped(e) => Stopped(e)'
<1>1. Unpaused(e) => Unpaused(e)'
  BY DEF Unpaused, SameEngine
<1>2. Pausing(e) => Pausing(e)'
  BY DEF Pausing, SameEngine
<1>3. Agreed(e) => Agreed(e)'
  <2>1. ASSUME Agreed(e)
        PROVE  Agreed(e)'
    <3>1. pause_state[e] # "UNPAUSED" /\ (~ engines_running[e] => Unfinished(e) = {})
      BY <2>1 DEF Agreed
    <3>2. ~ engines_running[e] => Unfinished(e)' = {}
      BY <3>1, PausedUnfinished DEF SameEngine
    <3> QED
      BY <2>1, <3>2 DEF Agreed, SameEngine
  <2> QED
    BY <2>1
<1>4. Stopped(e) => Stopped(e)'
  BY <1>3 DEF Stopped, SameEngine
<1> QED
  BY <1>1, <1>2, <1>3, <1>4

\* A step that is none of a pause keeps PauseInv when each engine keeps its phase.
LEMMA PauseFrame ==
  ASSUME PauseInv, FrontTypes, pausing' = pausing, \A e \in Engines : CallsKept(e),
         \A e \in Engines : /\ pc[e] # "resume" => pc'[e] # "resume"
                            /\ pc[e] = "resume" => SameEngine(e)
                            /\ Unpaused(e) => Unpaused(e)'
                            /\ Pausing(e) => Pausing(e)'
                            /\ Agreed(e) => Agreed(e)' /\ engines_running'[e] = engines_running[e]
                            /\ Stopped(e) => Stopped(e)'
  PROVE  PauseInv'
<1>1. ASSUME NEW e \in Engines
      PROVE  /\ NoCall(e) => NoCall(e)'
             /\ OneCall(e, "PAUSE") => OneCall(e, "PAUSE")'
             /\ OneCall(e, "RESUME") => OneCall(e, "RESUME")'
  BY CallsKeptMeans
<1>2. CASE pausing = "no"
  BY <1>1, <1>2 DEF PauseInv
<1>3. CASE pausing = "pausing"
  <2>1. CASE \A e \in Engines : \/ Unpaused(e) /\ pc[e] # "resume" /\ OneCall(e, "PAUSE")
                                \/ Pausing(e) /\ NoCall(e)
    <3>1. ASSUME NEW e \in Engines
          PROVE  \/ Unpaused(e)' /\ pc'[e] # "resume" /\ OneCall(e, "PAUSE")'
                 \/ Pausing(e)' /\ NoCall(e)'
      BY <1>1, <2>1
    <3> QED
      BY <1>3, <3>1 DEF PauseInv
  <2>2. CASE /\ \A e \in Engines : Agreed(e) /\ NoCall(e)
             /\ \A e, f \in Engines : engines_running[e] = engines_running[f]
    <3>1. ASSUME NEW e \in Engines
          PROVE  Agreed(e)' /\ NoCall(e)' /\ engines_running'[e] = engines_running[e]
      BY <1>1, <2>2
    <3>2. \A e, f \in Engines : engines_running'[e] = engines_running'[f]
      BY <2>2, <3>1
    <3> QED
      BY <1>3, <3>1, <3>2 DEF PauseInv
  <2> QED
    BY <1>3, <2>1, <2>2 DEF PauseInv
<1>4. CASE pausing = "paused"
  BY <1>1, <1>4 DEF PauseInv
<1>5. CASE pausing = "resuming"
  <2>1. ASSUME NEW e \in Engines
        PROVE  \/ Stopped(e)' /\ OneCall(e, "RESUME")'
               \/ Unpaused(e)' /\ pc'[e] = "resume" /\ ~ engines_running'[e] /\ NoCall(e)'
    <3>1. CASE Stopped(e) /\ OneCall(e, "RESUME")
      BY <1>1, <3>1
    <3>2. CASE Unpaused(e) /\ pc[e] = "resume" /\ ~ engines_running[e] /\ NoCall(e)
      BY <1>1, <3>2 DEF SameEngine
    <3> QED
      BY <1>5, <3>1, <3>2 DEF PauseInv
  <2> QED
    BY <1>5, <2>1 DEF PauseInv
<1> QED
  BY <1>2, <1>3, <1>4, <1>5 DEF FrontTypes

\* Every step keeps PauseInv.
LEMMA PauseStep ==
  ASSUME TypeOK, ChannelTypes, PauseInv, [Next]_vars
  PROVE  PauseInv'
<1>0. /\ EngineTypes /\ RequestTypes /\ WaveTypes /\ FrontTypes /\ config \in Configs
      /\ 0 \in Engines
  BY TypeParts, ConfigTypes DEF TypeOK
<1>t. /\ pc \in [Engines -> {"input", "forward", "sync", "resume"}]
      /\ engines_running \in [Engines -> BOOLEAN] /\ pending_pause \in [Engines -> BOOLEAN]
      /\ ignore_start_dp_wave \in [Engines -> BOOLEAN]
      /\ pause_state \in [Engines -> {"UNPAUSED", "PAUSED_NEW", "PAUSED_ALL"}]
      /\ idle_callback \in [Engines -> BOOLEAN]
      /\ waiting \in [Engines -> SUBSET Requests] /\ running \in [Engines -> SUBSET Requests]
  BY <1>0 DEF EngineTypes, RequestTypes
<1>a. ASSUME pausing' = pausing, \A f \in Engines : CallsKept(f) /\ SameEngine(f)
      PROVE  PauseInv'
  <2>1. \A f \in Engines : /\ pc[f] # "resume" => pc'[f] # "resume"
                           /\ engines_running'[f] = engines_running[f]
    BY <1>a DEF SameEngine
  <2>2. ASSUME NEW f \in Engines
        PROVE  /\ Unpaused(f) => Unpaused(f)'
               /\ Pausing(f) => Pausing(f)'
               /\ Agreed(f) => Agreed(f)'
               /\ Stopped(f) => Stopped(f)'
    BY <1>0, <1>a, SamePhase
  <2> QED
    BY <1>0, <1>a, <2>1, <2>2, PauseFrame
\* A step of engine e that keeps its phase.
<1>b. ASSUME NEW e \in Engines, pausing' = pausing, \A f \in Engines : CallsKept(f),
             \A f \in Engines : f # e => SameEngine(f),
             pc[e] # "resume", pc'[e] # "resume",
             Unpaused(e) => Unpaused(e)', Pausing(e) => Pausing(e)',
             Agreed(e) => Agreed(e)' /\ engines_running'[e] = engines_running[e],
             Stopped(e) => Stopped(e)'
      PROVE  PauseInv'
  <2>1. ASSUME NEW f \in Engines
        PROVE  /\ pc[f] # "resume" => pc'[f] # "resume"
               /\ pc[f] = "resume" => SameEngine(f)
               /\ Unpaused(f) => Unpaused(f)'
               /\ Pausing(f) => Pausing(f)'
               /\ Agreed(f) => Agreed(f)' /\ engines_running'[f] = engines_running[f]
               /\ Stopped(f) => Stopped(f)'
    <3>1. CASE f = e
      BY <1>b, <3>1
    <3>2. CASE f # e
      <4>1. SameEngine(f)
        BY <1>b, <3>2
      <4>2. /\ Unpaused(f) => Unpaused(f)'
            /\ Pausing(f) => Pausing(f)'
            /\ Agreed(f) => Agreed(f)'
            /\ Stopped(f) => Stopped(f)'
        BY <1>0, <4>1, SamePhase
      <4>3. pc'[f] = pc[f] /\ engines_running'[f] = engines_running[f]
        BY <4>1 DEF SameEngine
      <4> QED
        BY <4>1, <4>2, <4>3
    <3> QED
      BY <3>1, <3>2
  <2> QED
    BY <1>0, <1>b, <2>1, PauseFrame
<1>c. ASSUME UNCHANGED engineVars
      PROVE  \A f \in Engines : SameEngine(f)
  BY <1>c DEF engineVars, SameEngine
<1>d. ASSUME input' = input
      PROVE  \A f \in Engines : CallsKept(f)
  BY <1>d DEF CallsKept
<1>1. ASSUME NEW c \in Clients, NEW r \in Requests, AddRequest(c, r)
      PROVE  PauseInv'
  <2> DEFINE m == [type |-> "ADD", req |-> r, wave |-> client[c].wave]
  <2>1. PICK e \in Engines : Sends(c, e, m)
    BY <1>1 DEF AddRequest, Sends
  <2>2. client[c].wave \in Nat
    BY <1>0 DEF WaveTypes
  <2>3. m \in InputMsg /\ ~ IsCall(m)
    BY <2>2 DEF InputMsg, IsCall
  <2> HIDE DEF m
  <2>4. \A f \in Engines : CallsKept(f)
    BY <2>1, <2>3, CallsKeptSend
  <2>5. pausing' = pausing /\ UNCHANGED engineVars
    BY <1>1 DEF AddRequest
  <2> QED
    BY <1>a, <1>c, <2>4, <2>5
<1>2. ASSUME NEW r \in Requests, AbortRequest(r)
      PROVE  PauseInv'
  <2> DEFINE m == [type |-> "ABORT", req |-> r]
  <2>1. sent[r] \in Clients \X Engines
    BY <1>0, <1>2 DEF AbortRequest, Unserved, FrontTypes
  <2>2. sent[r][1] \in Clients /\ sent[r][2] \in Engines
    BY <2>1
  <2>3. m \in InputMsg /\ ~ IsCall(m)
    BY DEF InputMsg, IsCall
  <2>4. Sends(sent[r][1], sent[r][2], m)
    BY <1>2 DEF AbortRequest, Sends
  <2> HIDE DEF m
  <2>5. \A f \in Engines : CallsKept(f)
    BY <2>2, <2>3, <2>4, CallsKeptSend
  <2>6. pausing' = pausing /\ UNCHANGED engineVars
    BY <1>2 DEF AbortRequest
  <2> QED
    BY <1>a, <1>c, <2>5, <2>6
<1>3. ASSUME NEW c \in Clients, NEW mode \in config.modes, PauseScheduler(c, mode)
      PROVE  PauseInv'
  <2> DEFINE m == [type |-> "PAUSE", mode |-> mode]
  <2>1. m \in InputMsg /\ m.type = "PAUSE"
    BY <1>0, ConfigTypes DEF InputMsg
  <2>2. pausing = "no" /\ pausing' = "pausing" /\ input' = CallAll(c, m) /\ UNCHANGED engineVars
    BY <1>3 DEF PauseScheduler
  <2> HIDE DEF m
  <2>3. ASSUME NEW e \in Engines
        PROVE  Unpaused(e)' /\ pc'[e] # "resume" /\ OneCall(e, "PAUSE")'
    <3>1. Unpaused(e) /\ pc[e] # "resume" /\ NoCall(e)
      BY <2>2 DEF PauseInv
    <3>2. SameEngine(e)
      BY <1>c, <2>2
    <3>3. Unpaused(e)'
      BY <1>0, <3>1, <3>2, SamePhase
    <3>4. OneCall(e, m.type)'
      BY <2>1, <2>2, <3>1, CallsMade
    <3>5. m'.type = "PAUSE"
      BY DEF m
    <3> QED
      BY <2>1, <3>1, <3>2, <3>3, <3>4, <3>5 DEF SameEngine
  <2> QED
    BY <2>2, <2>3 DEF PauseInv
<1>4. CASE PauseReturns
  <2>1. /\ pausing = "pausing" /\ pausing' = "paused" /\ Paused
        /\ UNCHANGED engineVars /\ UNCHANGED input
    BY <1>4 DEF PauseReturns, channels
  <2>2. \A e \in Engines : ~ Unpaused(e) /\ ~ Pausing(e) /\ ~ idle_callback[e]
    BY <2>1 DEF Paused, Unpaused, Pausing
  <2>3. \A e \in Engines : Agreed(e) /\ NoCall(e)
    BY <1>0, <2>1, <2>2 DEF PauseInv
  <2>4. ASSUME NEW e \in Engines
        PROVE  Stopped(e)' /\ NoCall(e)'
    <3>1. Stopped(e)
      BY <2>2, <2>3 DEF Stopped, Agreed
    <3>2. SameEngine(e) /\ CallsKept(e)
      BY <1>c, <1>d, <2>1
    <3> QED
      BY <1>0, <2>3, <3>1, <3>2, SamePhase, CallsKeptMeans
  <2> QED
    BY <2>1, <2>4 DEF PauseInv
<1>5. ASSUME NEW c \in Clients, ResumeScheduler(c)
      PROVE  PauseInv'
  <2> DEFINE m == [type |-> "RESUME"]
  <2>1. m \in InputMsg /\ m.type = "RESUME"
    BY DEF InputMsg
  <2>2. pausing = "paused" /\ pausing' = "resuming" /\ input' = CallAll(c, m) /\ UNCHANGED engineVars
    BY <1>5 DEF ResumeScheduler
  <2> HIDE DEF m
  <2>3. ASSUME NEW e \in Engines
        PROVE  Stopped(e)' /\ OneCall(e, "RESUME")'
    <3>1. Stopped(e) /\ NoCall(e)
      BY <2>2 DEF PauseInv
    <3>2. SameEngine(e)
      BY <1>c, <2>2
    <3>3. Stopped(e)'
      BY <1>0, <3>1, <3>2, SamePhase
    <3>4. OneCall(e, m.type)'
      BY <2>1, <2>2, <3>1, CallsMade
    <3>5. m'.type = "RESUME"
      BY DEF m
    <3> QED
      BY <3>3, <3>4, <3>5
  <2> QED
    BY <2>2, <2>3 DEF PauseInv
<1>6. CASE \/ \E c \in Clients : NotifyCoordinator(c) \/ UpdateStats(c) \/ HandleNewRequest(c)
           \/ \E e \in Engines : HandleEngineOutput(e)
           \/ PublishStats
           \/ UNCHANGED vars
  <2>1. pausing' = pausing /\ UNCHANGED engineVars /\ UNCHANGED input
    BY <1>6 DEF NotifyCoordinator, UpdateStats, HandleNewRequest, HandleEngineOutput, PublishStats,
       vars, clientVars, channels
  <2> QED
    BY <1>a, <1>c, <1>d, <2>1
<1>7. ASSUME NEW e \in Engines, NEW c \in Clients, HandleAdd(e, c)
      PROVE  PauseInv'
  <2>1. Takes(e, c, "ADD") /\ pc[e] = "input"
    BY <1>7 DEF HandleAdd, Takes
  <2>2. \A f \in Engines : CallsKept(f)
    BY <2>1, CallsTaken
  <2>3. /\ pausing' = pausing
        /\ UNCHANGED <<pc, pending_pause, ignore_start_dp_wave, pause_state, running, idle_callback>>
        /\ \/ UNCHANGED engines_running
           \/ /\ pause_state[e] = "UNPAUSED"
              /\ engines_running' = [engines_running EXCEPT ![e] = TRUE]
    BY <1>7 DEF HandleAdd, StaleWave, clientVars
  <2>4. CASE UNCHANGED engines_running
    <3>1. \A f \in Engines : SameEngine(f)
      BY <2>3, <2>4 DEF SameEngine
    <3> QED
      BY <1>a, <2>2, <2>3, <3>1
  <2>5. CASE pause_state[e] = "UNPAUSED" /\ engines_running' = [engines_running EXCEPT ![e] = TRUE]
    <3>1. \A f \in Engines : f # e => SameEngine(f)
      BY <1>t, <2>3, <2>5 DEF SameEngine
    <3>2. ~ Pausing(e) /\ ~ Agreed(e) /\ ~ Stopped(e)
      BY <2>5 DEF Pausing, Agreed, Stopped
    <3>3. Unpaused(e) => Unpaused(e)'
      BY <2>3 DEF Unpaused
    <3>4. pc[e] # "resume" /\ pc'[e] # "resume"
      BY <2>1, <2>3
    <3> QED
      BY <1>b, <2>2, <2>3, <3>1, <3>2, <3>3, <3>4
  <2> QED
    BY <2>3, <2>4, <2>5
<1>8. ASSUME NEW e \in Engines, NEW c \in Clients, HandleAbort(e, c)
      PROVE  PauseInv'
  <2>1. \A f \in Engines : CallsKept(f)
    BY <1>8, CallsTaken DEF HandleAbort
  <2>2. \A f \in Engines : running'[f] \subseteq running[f]
    <3>1. PICK gone : running' = [running EXCEPT ![e] = @ \ gone]
      BY <1>8 DEF HandleAbort, Finish
    <3> QED
      BY <1>t, <3>1
  <2>3. \A f \in Engines : SameEngine(f)
    BY <1>8, <2>2 DEF HandleAbort, SameEngine
  <2> QED
    BY <1>a, <1>8, <2>1, <2>3 DEF HandleAbort, clientVars
<1>9. ASSUME NEW e \in Engines, NEW c \in Clients, HandlePause(e, c)
      PROVE  PauseInv'
  <2>1. Takes(e, c, "PAUSE") /\ pc[e] = "input"
    BY <1>9 DEF HandlePause, Takes
  <2>2. /\ \A f \in Engines : f # e => CallsKept(f)
        /\ ~ NoCall(e)
        /\ \A t : OneCall(e, t) => t = "PAUSE" /\ NoCall(e)'
    BY <2>1, CallsTaken
  <2>3. ~ OneCall(e, "RESUME")
    BY <2>2
  <2>4. pausing = "pausing"
    BY <1>0, <2>2, <2>3 DEF PauseInv, FrontTypes
  <2>5. \A f \in Engines : \/ Unpaused(f) /\ pc[f] # "resume" /\ OneCall(f, "PAUSE")
                           \/ Pausing(f) /\ NoCall(f)
    BY <2>2, <2>4 DEF PauseInv
  <2>6. /\ pausing' = pausing
        /\ UNCHANGED <<pc, ignore_start_dp_wave>>
        /\ pending_pause' = [pending_pause EXCEPT ![e] = TRUE]
        /\ engines_running' = [engines_running EXCEPT ![e] = TRUE]
        /\ idle_callback' = [idle_callback EXCEPT ![e] = TRUE]
    BY <1>9 DEF HandlePause, clientVars
  <2>7. PICK p \in {"PAUSED_ALL", "PAUSED_NEW"} : pause_state' = [pause_state EXCEPT ![e] = p]
    BY <1>9 DEF HandlePause
  <2>8. \A f \in Engines : f # e => running'[f] = running[f]
    <3>1. (\E gone : running' = [running EXCEPT ![e] = @ \ gone]) \/ UNCHANGED running
      BY <1>9 DEF HandlePause, Finish
    <3> QED
      BY <1>t, <3>1
  <2>9. \A f \in Engines : f # e => SameEngine(f)
    BY <1>t, <2>6, <2>7, <2>8 DEF SameEngine
  <2>10. Pausing(e)' /\ NoCall(e)'
    <3>1. NoCall(e)'
      BY <2>2, <2>5
    <3>2. Pausing(e)'
      BY <1>t, <2>1, <2>6, <2>7 DEF Pausing
    <3> QED
      BY <3>1, <3>2
  <2>11. ASSUME NEW f \in Engines
         PROVE  \/ Unpaused(f)' /\ pc'[f] # "resume" /\ OneCall(f, "PAUSE")'
                \/ Pausing(f)' /\ NoCall(f)'
    <3>1. CASE f = e
      BY <2>10, <3>1
    <3>2. CASE f # e
      <4>1. SameEngine(f) /\ CallsKept(f)
        BY <2>2, <2>9, <3>2
      <4>2. /\ Unpaused(f) => Unpaused(f)'
            /\ Pausing(f) => Pausing(f)'
        BY <1>0, <4>1, SamePhase
      <4>3. /\ NoCall(f) => NoCall(f)'
            /\ OneCall(f, "PAUSE") => OneCall(f, "PAUSE")'
        BY <4>1, CallsKeptMeans
      <4>4. pc'[f] = pc[f]
        BY <4>1 DEF SameEngine
      <4> QED
        BY <2>5, <4>2, <4>3, <4>4
    <3> QED
      BY <3>1, <3>2
  <2> QED
    BY <2>4, <2>6, <2>11 DEF PauseInv
<1>10. ASSUME NEW e \in Engines, NEW c \in Clients, HandleResume(e, c)
       PROVE  PauseInv'
  <2>1. Takes(e, c, "RESUME") /\ pc[e] = "input"
    BY <1>10 DEF HandleResume, Takes
  <2>2. /\ \A f \in Engines : f # e => CallsKept(f)
        /\ ~ NoCall(e)
        /\ \A t : OneCall(e, t) => t = "RESUME" /\ NoCall(e)'
    BY <2>1, CallsTaken
  <2>3. ~ OneCall(e, "PAUSE")
    BY <2>2
  <2>4. pausing = "resuming"
    BY <1>0, <2>2, <2>3 DEF PauseInv, FrontTypes
  <2>5. \A f \in Engines :
          \/ Stopped(f) /\ OneCall(f, "RESUME")
          \/ Unpaused(f) /\ pc[f] = "resume" /\ ~ engines_running[f] /\ NoCall(f)
    BY <2>4 DEF PauseInv
  <2>6. Stopped(e) /\ OneCall(e, "RESUME")
    BY <2>2, <2>5
  <2>7. ~ pending_pause[e] /\ ~ engines_running[e] /\ ~ idle_callback[e]
    BY <2>6 DEF Stopped, Agreed
  <2>8. /\ pausing' = pausing
        /\ UNCHANGED <<engines_running, pending_pause, running, idle_callback>>
        /\ pc' = [pc EXCEPT ![e] = "resume"]
        /\ pause_state' = [pause_state EXCEPT ![e] = "UNPAUSED"]
        /\ ignore_start_dp_wave' = [ignore_start_dp_wave EXCEPT ![e] = FALSE]
    BY <1>10, <2>7 DEF HandleResume, clientVars
  <2>9. \A f \in Engines : f # e => SameEngine(f)
    BY <1>t, <2>8 DEF SameEngine
  <2>10. Unpaused(e)' /\ pc'[e] = "resume" /\ ~ engines_running'[e] /\ NoCall(e)'
    <3>1. NoCall(e)'
      BY <2>2, <2>6
    <3>2. Unpaused(e)'
      BY <1>t, <2>7, <2>8 DEF Unpaused
    <3> QED
      BY <1>t, <2>7, <2>8, <3>1, <3>2
  <2>11. ASSUME NEW f \in Engines
         PROVE  \/ Stopped(f)' /\ OneCall(f, "RESUME")'
                \/ Unpaused(f)' /\ pc'[f] = "resume" /\ ~ engines_running'[f] /\ NoCall(f)'
    <3>1. CASE f = e
      BY <2>10, <3>1
    <3>2. CASE f # e
      <4>1. SameEngine(f) /\ CallsKept(f)
        BY <2>2, <2>9, <3>2
      <4>2. /\ Unpaused(f) => Unpaused(f)'
            /\ Stopped(f) => Stopped(f)'
        BY <1>0, <4>1, SamePhase
      <4>3. /\ NoCall(f) => NoCall(f)'
            /\ OneCall(f, "RESUME") => OneCall(f, "RESUME")'
        BY <4>1, CallsKeptMeans
      <4>4. pc'[f] = pc[f] /\ engines_running'[f] = engines_running[f]
        BY <4>1 DEF SameEngine
      <4> QED
        BY <2>5, <4>2, <4>3, <4>4
    <3> QED
      BY <3>1, <3>2
  <2> QED
    BY <2>4, <2>8, <2>11 DEF PauseInv
<1>11. ASSUME NEW e \in Engines, HandleStart(e)
       PROVE  PauseInv'
  <2>1. /\ pausing' = pausing /\ UNCHANGED input /\ pc[e] = "input"
        /\ UNCHANGED <<pc, pending_pause, ignore_start_dp_wave, pause_state, running, idle_callback>>
        /\ \/ UNCHANGED engines_running
           \/ /\ ~ ignore_start_dp_wave[e]
              /\ engines_running' = [engines_running EXCEPT ![e] = TRUE]
    BY <1>11 DEF HandleStart, Ignored, clientVars
  <2>2. \A f \in Engines : CallsKept(f)
    BY <1>d, <2>1
  <2>3. CASE UNCHANGED engines_running
    <3>1. \A f \in Engines : SameEngine(f)
      BY <2>1, <2>3 DEF SameEngine
    <3> QED
      BY <1>a, <2>1, <2>2, <3>1
  <2>4. CASE ~ ignore_start_dp_wave[e] /\ engines_running' = [engines_running EXCEPT ![e] = TRUE]
    <3>1. \A f \in Engines : f # e => SameEngine(f)
      BY <1>t, <2>1, <2>4 DEF SameEngine
    <3>2. ~ Agreed(e) /\ ~ Stopped(e)
      BY <2>4 DEF Agreed, Stopped
    <3>3. Unpaused(e) => Unpaused(e)'
      BY <2>1 DEF Unpaused
    <3>4. Pausing(e) => Pausing(e)'
      BY <1>t, <2>1, <2>4 DEF Pausing
    <3>5. pc[e] # "resume" /\ pc'[e] # "resume"
      BY <2>1
    <3> QED
      BY <1>b, <2>1, <2>2, <3>1, <3>2, <3>3, <3>4, <3>5
  <2> QED
    BY <2>1, <2>3, <2>4
<1>12. ASSUME NEW e \in Engines, NotifyIdle(e)
       PROVE  PauseInv'
  <2>1. /\ pausing' = pausing /\ UNCHANGED input /\ pc[e] = "input"
        /\ UNCHANGED <<pc, pending_pause, ignore_start_dp_wave, pause_state, engines_running>>
        /\ ~ engines_running[e] /\ idle_callback[e]
        /\ idle_callback' = [idle_callback EXCEPT ![e] = FALSE]
        /\ running' = [running EXCEPT ![e] = {}]
    BY <1>12 DEF NotifyIdle, has_work, clientVars, channels
  <2>2. \A f \in Engines : CallsKept(f)
    BY <1>d, <2>1
  <2>3. \A f \in Engines : f # e => SameEngine(f)
    BY <1>t, <2>1 DEF SameEngine
  <2>4. ~ Unpaused(e) /\ ~ Pausing(e) /\ ~ Stopped(e)
    BY <2>1 DEF Unpaused, Pausing, Stopped
  <2>5. ASSUME Agreed(e)
        PROVE  Agreed(e)' /\ engines_running'[e] = engines_running[e]
    <3>1. pause_state[e] # "UNPAUSED" /\ Unfinished(e) = {}
      BY <2>1, <2>5 DEF Agreed
    <3>2. running'[e] \subseteq running[e] /\ pause_state'[e] = pause_state[e]
      BY <1>t, <2>1
    <3>3. Unfinished(e)' = {}
      BY <1>0, <3>1, <3>2, PausedUnfinished
    <3> QED
      BY <2>1, <2>5, <3>3 DEF Agreed
  <2>6. pc[e] # "resume" /\ pc'[e] # "resume"
    BY <2>1
  <2> QED
    BY <1>b, <2>1, <2>2, <2>3, <2>4, <2>5, <2>6
<1>13. ASSUME NEW e \in Engines, Step(e)
       PROVE  PauseInv'
  <2>1. /\ pausing' = pausing /\ UNCHANGED input /\ pc[e] = "input"
        /\ UNCHANGED <<pending_pause, ignore_start_dp_wave, pause_state, engines_running,
                       idle_callback>>
        /\ running' = [running EXCEPT ![e] = @ \cup Batch(e)]
        /\ pc' = [pc EXCEPT ![e] = IF Batch(e) # {} \/ RunsDummy(e) THEN "forward" ELSE @]
    BY <1>13 DEF Step, clientVars, channels
  <2>2. \A f \in Engines : CallsKept(f)
    BY <1>d, <2>1
  <2>3. \A f \in Engines : f # e => SameEngine(f)
    BY <1>t, <2>1 DEF SameEngine
  <2>4. pc[e] # "resume" /\ pc'[e] # "resume" /\ pc'[e] \in {"input", "forward"}
    BY <1>t, <2>1
  <2>5. Unpaused(e) => Unpaused(e)'
    BY <2>1 DEF Unpaused
  <2>6. Pausing(e) => Pausing(e)'
    BY <2>1, <2>4 DEF Pausing
  <2>7. ASSUME Agreed(e)
        PROVE  Agreed(e)' /\ engines_running'[e] = engines_running[e]
    <3>1. CASE engines_running[e]
      BY <2>1, <2>4, <2>7, <3>1 DEF Agreed
    <3>2. CASE ~ engines_running[e]
      <4>1. pause_state[e] # "UNPAUSED" /\ Unfinished(e) = {}
        BY <2>7, <3>2 DEF Agreed
      <4>2. Batch(e) = {} /\ ~ RunsDummy(e)
        BY <3>2, <4>1 DEF Batch, RunsDummy
      <4>3. SameEngine(e)
        BY <1>t, <2>1, <4>2 DEF SameEngine
      <4> QED
        BY <1>0, <2>1, <2>7, <4>3, SamePhase
    <3> QED
      BY <3>1, <3>2
  <2>8. Stopped(e) => Stopped(e)'
    BY <2>1, <2>7 DEF Stopped
  <2> QED
    BY <1>b, <2>1, <2>2, <2>3, <2>4, <2>5, <2>6, <2>7, <2>8
<1>14. CASE Forward
  <2>1. /\ pausing' = pausing /\ UNCHANGED input /\ \A f \in Engines : pc[f] = "forward"
        /\ UNCHANGED <<pending_pause, ignore_start_dp_wave, pause_state, idle_callback>>
    BY <1>14 DEF Forward, clientVars, channels
  <2>2. \A f \in Engines : /\ pc'[f] \in {"sync", "input"}
                           /\ engines_running[f] => engines_running'[f]
    BY <1>14 DEF Forward
  <2>3. \A f \in Engines : CallsKept(f)
    BY <1>d, <2>1
  <2>4. \A f \in Engines : ~ Stopped(f)
    BY <2>1 DEF Stopped, Agreed
  <2>5. ASSUME NEW f \in Engines
        PROVE  Unpaused(f) => Unpaused(f)'
    BY <2>1 DEF Unpaused
  <2>6. ASSUME NEW f \in Engines
        PROVE  Pausing(f) => Pausing(f)'
    BY <2>1, <2>2 DEF Pausing
  <2>7. ASSUME NEW f \in Engines, Agreed(f)
        PROVE  Agreed(f)' /\ engines_running'[f] = engines_running[f]
    <3>1. engines_running[f] = TRUE
      BY <1>t, <2>1, <2>7 DEF Agreed
    <3>2. engines_running'[f] = TRUE
      <4>1. engines_running'[f] \in BOOLEAN
        BY <1>14 DEF Forward
      <4> QED
        BY <2>2, <3>1, <4>1
    <3> QED
      BY <2>1, <2>2, <2>7, <3>1, <3>2 DEF Agreed
  <2>8. \A f \in Engines : pc[f] # "resume" /\ pc'[f] # "resume"
    BY <2>1, <2>2
  <2> QED
    BY <1>0, <2>1, <2>3, <2>4, <2>5, <2>6, <2>7, <2>8, PauseFrame
<1>15. CASE AllReduce
  <2> DEFINE unfinished == sync_dp_state.has_unfinished
             consensus == sync_dp_state.pause_consensus
  <2>1. /\ pausing' = pausing /\ UNCHANGED input /\ \A f \in Engines : pc[f] = "sync"
        /\ UNCHANGED <<pause_state, idle_callback, waiting, running>>
        /\ \A f \in Engines : pc'[f] = "input" /\ engines_running'[f] = unfinished
    BY <1>15 DEF AllReduce, clientVars
  <2>2. /\ consensus <=> \A f \in Engines : pending_pause[f]
        /\ unfinished <=> \/ \E f \in Engines : Unfinished(f) # {}
                          \/ {pending_pause[f] : f \in Engines} = {TRUE, FALSE}
        /\ unfinished \in BOOLEAN
    BY DEF sync_dp_state
  <2>3. IF consensus THEN /\ ignore_start_dp_wave' = [f \in Engines |-> TRUE]
                          /\ pending_pause' = [f \in Engines |-> FALSE]
        ELSE UNCHANGED <<ignore_start_dp_wave, pending_pause>>
    BY <1>15 DEF AllReduce
  <2> HIDE DEF unfinished, consensus
  <2>4. ASSUME NEW f \in Engines, NEW g \in Engines, pending_pause[f], ~ pending_pause[g]
        PROVE  unfinished
    <3>1. pending_pause[f] = TRUE /\ pending_pause[g] = FALSE
      BY <1>t, <2>4
    <3>2. \A h \in Engines : pending_pause[h] \in {TRUE, FALSE}
      BY <1>t
    <3>3. {pending_pause[h] : h \in Engines} = {TRUE, FALSE}
      BY <3>1, <3>2
    <3> QED
      BY <2>2, <3>3
  <2>5. ASSUME NEW f \in Engines
        PROVE  NoCall(f) => NoCall(f)'
    BY <1>d, <2>1, CallsKeptMeans
  <2>6. ASSUME NEW f \in Engines
        PROVE  OneCall(f, "PAUSE") => OneCall(f, "PAUSE")'
    BY <1>d, <2>1, CallsKeptMeans
  <2>7. ASSUME NEW f \in Engines, ~ unfinished
        PROVE  Unfinished(f)' = {}
    BY <2>1, <2>2, <2>7 DEF Unfinished
  <2>8. \A f \in Engines : ~ Stopped(f) /\ pc[f] # "resume"
    BY <2>1 DEF Stopped, Agreed
  <2>9. pausing \in {"no", "pausing"}
    BY <1>0, <2>8 DEF PauseInv, FrontTypes
  <2>10. CASE pausing = "no"
    <3>1. \A f \in Engines : Unpaused(f) /\ NoCall(f)
      BY <2>10 DEF PauseInv
    <3>2. ~ consensus
      BY <1>0, <2>2, <3>1 DEF Unpaused
    <3>3. \A f \in Engines : Unpaused(f)'
      BY <2>1, <2>3, <3>1, <3>2 DEF Unpaused
    <3> QED
      BY <2>1, <2>5, <2>10, <3>1, <3>3 DEF PauseInv
  <2>11. CASE /\ pausing = "pausing"
              /\ \A f \in Engines : \/ Unpaused(f) /\ pc[f] # "resume" /\ OneCall(f, "PAUSE")
                                    \/ Pausing(f) /\ NoCall(f)
    <3>1. CASE consensus
      <4>1. \A f \in Engines : Pausing(f) /\ NoCall(f)
        BY <2>2, <2>11, <3>1 DEF Unpaused
      <4>2. ASSUME NEW f \in Engines
            PROVE  Agreed(f)' /\ NoCall(f)' /\ engines_running'[f] = unfinished
        <5>1. /\ pause_state'[f] # "UNPAUSED" /\ ~ pending_pause'[f] /\ ignore_start_dp_wave'[f]
              /\ pc'[f] = "input" /\ idle_callback'[f]
          BY <2>1, <2>3, <3>1, <4>1 DEF Pausing
        <5>2. Agreed(f)'
          BY <2>1, <2>2, <2>7, <5>1 DEF Agreed
        <5> QED
          BY <2>1, <2>5, <4>1, <5>2
      <4>3. \A f, g \in Engines : engines_running'[f] = engines_running'[g]
        BY <4>2
      <4> QED
        BY <2>1, <2>11, <4>2, <4>3 DEF PauseInv
    <3>2. CASE ~ consensus
      <4>1. UNCHANGED <<ignore_start_dp_wave, pending_pause>>
        BY <2>3, <3>2
      <4>2. PICK g \in Engines : ~ pending_pause[g]
        BY <2>2, <3>2
      <4>3. ASSUME NEW f \in Engines, Pausing(f)
            PROVE  Pausing(f)'
        <5>1. unfinished
          BY <2>4, <4>2, <4>3 DEF Pausing
        <5> QED
          BY <2>1, <4>1, <4>3, <5>1 DEF Pausing
      <4>4. ASSUME NEW f \in Engines, Unpaused(f)
            PROVE  Unpaused(f)'
        BY <2>1, <4>1, <4>4 DEF Unpaused
      <4>5. ASSUME NEW f \in Engines
            PROVE  \/ Unpaused(f)' /\ pc'[f] # "resume" /\ OneCall(f, "PAUSE")'
                   \/ Pausing(f)' /\ NoCall(f)'
        BY <2>1, <2>5, <2>6, <2>11, <4>3, <4>4
      <4> QED
        BY <2>1, <2>11, <4>5 DEF PauseInv
    <3> QED
      BY <3>1, <3>2
  <2>12. CASE /\ pausing = "pausing"
              /\ \A f \in Engines : Agreed(f) /\ NoCall(f)
              /\ \A f, g \in Engines : engines_running[f] = engines_running[g]
    <3>1. ~ consensus
      BY <1>0, <2>2, <2>12 DEF Agreed
    <3>2. UNCHANGED <<ignore_start_dp_wave, pending_pause>>
      BY <2>3, <3>1
    <3>3. ASSUME NEW f \in Engines
          PROVE  Agreed(f)' /\ NoCall(f)' /\ engines_running'[f] = unfinished
      <4>1. /\ pause_state'[f] # "UNPAUSED" /\ ~ pending_pause'[f] /\ ignore_start_dp_wave'[f]
            /\ pc'[f] = "input" /\ idle_callback'[f]
        BY <2>1, <2>12, <3>2 DEF Agreed
      <4>2. Agreed(f)'
        BY <2>1, <2>2, <2>7, <4>1 DEF Agreed
      <4> QED
        BY <2>1, <2>5, <2>12, <4>2
    <3>4. \A f, g \in Engines : engines_running'[f] = engines_running'[g]
      BY <3>3
    <3> QED
      BY <2>1, <2>12, <3>3, <3>4 DEF PauseInv
  <2> QED
    BY <2>9, <2>10, <2>11, <2>12 DEF PauseInv
<1>16. CASE ResumeBarrier
  <2>1. /\ pausing' = "no" /\ UNCHANGED input /\ \A f \in Engines : pc[f] = "resume" /\ pc'[f] = "input"
        /\ UNCHANGED <<pending_pause, ignore_start_dp_wave, pause_state, idle_callback>>
    BY <1>16 DEF ResumeBarrier, channels
  <2>2. \A f \in Engines : ~ Stopped(f) /\ ~ Pausing(f) /\ ~ Agreed(f)
    BY <2>1 DEF Stopped, Pausing, Agreed
  <2>3. pausing = "resuming"
    BY <1>0, <2>1, <2>2 DEF PauseInv, FrontTypes
  <2>4. ASSUME NEW f \in Engines
        PROVE  Unpaused(f)' /\ NoCall(f)'
    <3>1. Unpaused(f) /\ NoCall(f)
      BY <2>2, <2>3 DEF PauseInv
    <3>2. NoCall(f)'
      BY <1>d, <2>1, <3>1, CallsKeptMeans
    <3> QED
      BY <2>1, <3>1, <3>2 DEF Unpaused
  <2> QED
    BY <2>1, <2>4 DEF PauseInv
<1> QED
  BY <1>1, <1>2, <1>3, <1>4, <1>5, <1>6, <1>7, <1>8, <1>9, <1>10, <1>11, <1>12, <1>13, <1>14,
     <1>15, <1>16 DEF Next, Handle

-----------------------------------------------------------------------------
(* The theorems.                                                           *)

\* WaveInv holds at the start, with all queues empty.
LEMMA WaveInvInit == Init => WaveInv
<1> SUFFICES ASSUME Init
             PROVE  WaveInv
  OBVIOUS
<1>1. /\ config \in Configs /\ config.steps \in Nat \ {0} /\ config.sync_interval \in Nat \ {0}
      /\ MaxPauses \in Nat
  BY ConfigTypes, WavesAssumption DEF Init
<1>2. \A M : << >> \in Seq(M) /\ Len(<< >>) = 0
  OBVIOUS
<1>3. EngineTypes
  BY <1>1 DEF Init, EngineTypes
<1>4. RequestTypes
  BY <1>1 DEF Init, RequestTypes
<1>5. WaveTypes
  BY <1>2 DEF Init, WaveTypes
<1>6. FrontTypes
  BY <1>1, <1>2 DEF Init, FrontTypes
<1>7. \A c \in Clients, e \in Engines : input[c][e] = << >>
  BY DEF Init
<1>8. \A r : AddsOnce(<< >>) /\ ~ HasAdd(<< >>, r) /\ NoCallIn(<< >>)
  BY <1>2 DEF AddsOnce, HasAdd, NoCallIn
<1>9. RequestInv
  <2>1. \A e \in Engines : waiting[e] = {} /\ running[e] = {}
    BY DEF Init
  <2>2. \A r \in Requests : left[r] = config.steps
    BY DEF Init
  <2> QED
    BY <1>7, <1>8, <2>1, <2>2 DEF RequestInv
<1>10. CountInv
  BY DEF Init, CountInv
<1>11. PauseInv
  <2>1. \A e \in Engines : Unpaused(e) /\ pc[e] # "resume" /\ NoCall(e)
    BY <1>7, <1>8 DEF Init, Unpaused, NoCall
  <2>2. pausing = "no"
    BY DEF Init
  <2> QED
    BY <2>1, <2>2 DEF PauseInv
<1> QED
  BY <1>3, <1>4, <1>5, <1>6, <1>9, <1>10, <1>11, TypeParts DEF WaveInv

\* Every step keeps WaveInv.
LEMMA WaveInvStep == WaveInv /\ [Next]_vars => WaveInv'
<1> SUFFICES ASSUME WaveInv, [Next]_vars
             PROVE  WaveInv'
  OBVIOUS
<1>1. /\ TypeOK /\ ChannelTypes /\ RequestInv /\ CountInv /\ PauseInv
      /\ EngineTypes /\ RequestTypes /\ WaveTypes /\ FrontTypes
  BY TypeParts DEF WaveInv
<1>2. EngineTypes' /\ WaveTypes' /\ FrontTypes'
  BY <1>1, EngineTypesStep, WaveTypesStep, FrontTypesStep
<1>3. RequestTypes' /\ RequestInv'
  BY <1>1, RequestStep
<1>4. CountInv' /\ PauseInv'
  BY <1>1, CountStep, PauseStep
<1>5. TypeOK' /\ ChannelTypes'
  BY <1>2, <1>3 DEF TypeOK, ChannelTypes, EngineTypes, RequestTypes, WaveTypes, FrontTypes
<1> QED
  BY <1>3, <1>4, <1>5 DEF WaveInv

\* Engines that are counted alike and in the same phase of a pause are in the same
\* collective, and stopped while the pause holds.
LEMMA WaveInvMeans == WaveInv => EnginesInStep
<1> SUFFICES ASSUME WaveInv
             PROVE  EnginesInStep
  OBVIOUS
<1>1. TypeOK /\ CountInv /\ PauseInv
  BY DEF WaveInv
<1>2. ASSUME NEW e \in Engines, NEW f \in Engines, pc[e] # "input", pc[f] # "input"
      PROVE  pc[e] = pc[f]
  <2>1. pc[e] \in {"input", "forward", "sync", "resume"} /\ pc[f] \in {"input", "forward", "sync", "resume"}
    BY <1>1 DEF TypeOK
  <2>2. pc[e] = "sync" <=> pc[f] = "sync"
    BY <1>1 DEF CountInv
  <2>3. CASE pausing = "resuming"
    BY <1>1, <1>2, <2>3 DEF PauseInv, Stopped, Agreed
  <2>4. CASE pausing # "resuming"
    <3>1. pc[e] # "resume" /\ pc[f] # "resume"
      BY <1>1, <2>4 DEF PauseInv, TypeOK, Stopped, Agreed, Pausing
    <3> QED
      BY <1>2, <2>1, <2>2, <3>1
  <2> QED
    BY <2>3, <2>4
<1>3. PausedMeansStopped
  BY <1>1 DEF PauseInv, PausedMeansStopped, Stopped, Agreed
<1> QED
  BY <1>1, <1>2, <1>3 DEF EnginesInStep, CollectivesMatch

\* WavesInvariance: requests are at one place, all engines count their passes alike, and
\* they go through the phases of a pause together.
THEOREM WavesInvariance == Spec => []WaveInv
  BY WaveInvInit, WaveInvStep, PTL DEF Spec

\* EnginesAlwaysInStep: with any number of engines, front-ends, requests and pauses,
\* engines that wait in a collective wait in the same one, and from the return of
\* pause_scheduler to the call of resume_scheduler every engine is stopped.
THEOREM EnginesAlwaysInStep == Spec => []EnginesInStep
  BY WavesInvariance, WaveInvMeans, PTL

-----------------------------------------------------------------------------
(* The number of the wave.                                                 *)

\* Messages that carry the number of a wave up to n; the end of wave n is not yet known.
StateUpTo(n)  == [wave : 0 .. n, running : BOOLEAN]
StartUpTo(n)  == [wave : 0 .. n, exclude : Nat]
OutputUpTo(n) ==
  [type : {"start_wave"}, wave : 0 .. n] \cup [type : {"wave_complete"}, wave : 0 .. n - 1]
InputUpTo(n)  ==
  [type : {"ADD"}, req : Requests, wave : 0 .. n] \cup [type : {"ABORT"}, req : Requests]
    \cup [type : {"PAUSE"}, mode : {"keep", "abort", "wait"}] \cup [type : {"RESUME"}]

\* All engines are in wave n, and nobody has heard of a later one.
Level(n) ==
  /\ \A e \in Engines : current_wave[e] = n
  /\ coord \in StateUpTo(n) /\ client \in [Clients -> StateUpTo(n)]
  /\ stats \in [Clients -> Seq(StateUpTo(n))]
  /\ start_dp_wave \in [Engines -> Seq(StartUpTo(n))]
  /\ from_engine \in [Engines -> Seq(OutputUpTo(n))]
  /\ input \in [Clients -> [Engines -> Seq(InputUpTo(n))]]

\* A message of the set S is in queue q.
Some(q, S) == \E i \in 1 .. Len(q) : q[i] \in S

\* The coordinator knows of wave n, or will learn that the one before it is complete.
WaveIsKnown(n) ==
  coord.wave = n \/ Some(from_engine[0], {[type |-> "wave_complete", wave |-> n - 1]})

\* Engine e runs, or a message that starts it in wave n is on its way.
WillRun(e, n) ==
  engines_running[e] \/ Some(start_dp_wave[e], [wave : {n}, exclude : Nat \ {e}])

\* When the coordinator believes that wave n runs, it does or is about to.
RunsIfTold(n) ==
  pauses = 0 =>
    /\ pausing = "no"
    /\ coord.running /\ coord.wave = n => \E e \in Engines : WillRun(e, n)

\* The last a front-end has heard, or will hear, is the coordinator's state; only a front-end
\* that has just announced a request believes that the engines run before they do.
Informed(c) ==
  IF stats[c] # << >> THEN stats[c][Len(stats[c])] = coord
  ELSE /\ client[c].wave = coord.wave
       /\ \/ client[c].running = coord.running
          \/ client[c].running /\ to_coord[c] # << >>

AgreeInv(n) ==
  Level(n) /\ WaveIsKnown(n) /\ RunsIfTold(n) /\ \A c \in config.clients : Informed(c)

\* A sequence of messages is one of a larger set of messages.
LEMMA SeqWider ==
  ASSUME NEW A, NEW B, A \subseteq B, NEW q \in Seq(A)
  PROVE  q \in Seq(B)
  OBVIOUS

\* Messages up to n are messages up to n + 1.
LEMMA UpToWider ==
  ASSUME NEW n \in Nat
  PROVE  /\ StateUpTo(n) \subseteq StateUpTo(n + 1) /\ StartUpTo(n) \subseteq StartUpTo(n + 1)
         /\ OutputUpTo(n) \subseteq OutputUpTo(n + 1) /\ InputUpTo(n) \subseteq InputUpTo(n + 1)
<1>1. 0 .. n \subseteq 0 .. n + 1 /\ 0 .. n - 1 \subseteq 0 .. n + 1 - 1
  OBVIOUS
<1>2. StateUpTo(n) \subseteq StateUpTo(n + 1) /\ StartUpTo(n) \subseteq StartUpTo(n + 1)
  BY <1>1 DEF StateUpTo, StartUpTo
<1>3. OutputUpTo(n) \subseteq OutputUpTo(n + 1)
  BY <1>1 DEF OutputUpTo
<1>4. InputUpTo(n) \subseteq InputUpTo(n + 1)
  BY <1>1 DEF InputUpTo
<1> QED
  BY <1>2, <1>3, <1>4

\* A step sends messages of the set M to the engines, if any.
LEMMA InputKeepsType ==
  ASSUME NEW M, input \in [Clients -> [Engines -> Seq(M)]],
         \/ input' = input
         \/ \E c \in Clients, e \in Engines, m \in M : Sends(c, e, m)
         \/ \E c \in Clients, m \in M : input' = CallAll(c, m)
         \/ \E c \in Clients, e \in Engines : \E type : Takes(e, c, type)
  PROVE  input' \in [Clients -> [Engines -> Seq(M)]]
<1>1. ASSUME NEW c \in Clients
      PROVE  input[c] \in [Engines -> Seq(M)] /\ \A e \in Engines : input[c][e] \in Seq(M)
  OBVIOUS
<1>2. ASSUME NEW c \in Clients, NEW e \in Engines, NEW q \in Seq(M), input' = [input EXCEPT ![c][e] = q]
      PROVE  input' \in [Clients -> [Engines -> Seq(M)]]
  BY <1>1, <1>2
<1>3. ASSUME NEW c \in Clients, NEW e \in Engines, NEW m \in M, Sends(c, e, m)
      PROVE  input' \in [Clients -> [Engines -> Seq(M)]]
  <2>1. Append(input[c][e], m) \in Seq(M)
    BY <1>1, AppendProperties
  <2> QED
    BY <1>2, <1>3, <2>1 DEF Sends
<1>4. ASSUME NEW c \in Clients, NEW m \in M, input' = CallAll(c, m)
      PROVE  input' \in [Clients -> [Engines -> Seq(M)]]
  <2>1. Broadcast(input[c], m) \in [Engines -> Seq(M)]
    BY <1>1, BroadcastType
  <2> QED
    BY <1>4, <2>1 DEF CallAll
<1>5. ASSUME NEW c \in Clients, NEW e \in Engines, NEW type, Takes(e, c, type)
      PROVE  input' \in [Clients -> [Engines -> Seq(M)]]
  <2>1. Tail(input[c][e]) \in Seq(M)
    BY <1>1, <1>5, HeadTailProperties DEF Takes
  <2> QED
    BY <1>2, <1>5, <2>1 DEF Takes
<1> QED
  BY <1>3, <1>4, <1>5

\* The steps of the front-ends send the wave they have heard of.
LEMMA LevelFront ==
  ASSUME TypeOK, ChannelTypes, NEW n \in Nat, Level(n),
         \/ \E c \in Clients, r \in Requests : AddRequest(c, r)
         \/ \E r \in Requests : AbortRequest(r)
         \/ \E c \in Clients, mode \in config.modes : PauseScheduler(c, mode)
         \/ \E c \in Clients : ResumeScheduler(c)
  PROVE  Level(n)'
<1>1. input \in [Clients -> [Engines -> Seq(InputUpTo(n))]]
  BY DEF Level
<1>2. SUFFICES input' \in [Clients -> [Engines -> Seq(InputUpTo(n))]]
  BY DEF Level, AddRequest, AbortRequest, PauseScheduler, ResumeScheduler, engineVars
<1>3. ASSUME NEW c \in Clients, NEW r \in Requests, AddRequest(c, r)
      PROVE  input' \in [Clients -> [Engines -> Seq(InputUpTo(n))]]
  <2>1. client[c].wave \in 0 .. n
    BY DEF Level, StateUpTo
  <2>2. [type |-> "ADD", req |-> r, wave |-> client[c].wave] \in InputUpTo(n)
    BY <2>1 DEF InputUpTo
  <2>3. \E e \in Engines : Sends(c, e, [type |-> "ADD", req |-> r, wave |-> client[c].wave])
    BY <1>3 DEF AddRequest, Sends
  <2> QED
    BY <1>1, <2>2, <2>3, InputKeepsType
<1>4. ASSUME NEW r \in Requests, AbortRequest(r)
      PROVE  input' \in [Clients -> [Engines -> Seq(InputUpTo(n))]]
  <2>1. sent[r] \in Clients \X Engines
    BY <1>4 DEF AbortRequest, Unserved, ChannelTypes
  <2>2. sent[r][1] \in Clients /\ sent[r][2] \in Engines
    BY <2>1
  <2>3. [type |-> "ABORT", req |-> r] \in InputUpTo(n)
    BY DEF InputUpTo
  <2>4. Sends(sent[r][1], sent[r][2], [type |-> "ABORT", req |-> r])
    BY <1>4 DEF AbortRequest, Sends
  <2> QED
    BY <1>1, <2>2, <2>3, <2>4, InputKeepsType
<1>5. ASSUME NEW c \in Clients, NEW mode \in config.modes, PauseScheduler(c, mode)
      PROVE  input' \in [Clients -> [Engines -> Seq(InputUpTo(n))]]
  <2>1. mode \in {"keep", "abort", "wait"}
    BY ConfigTypes DEF TypeOK
  <2>2. [type |-> "PAUSE", mode |-> mode] \in InputUpTo(n)
    BY <2>1 DEF InputUpTo
  <2> QED
    BY <1>1, <1>5, <2>2, InputKeepsType DEF PauseScheduler
<1>6. ASSUME NEW c \in Clients, ResumeScheduler(c)
      PROVE  input' \in [Clients -> [Engines -> Seq(InputUpTo(n))]]
  <2>1. [type |-> "RESUME"] \in InputUpTo(n)
    BY DEF InputUpTo
  <2> QED
    BY <1>1, <1>6, <2>1, InputKeepsType DEF ResumeScheduler
<1> QED
  BY <1>3, <1>4, <1>5, <1>6

\* What the front-ends and the coordinator tell each other.
LEMMA LevelStats ==
  ASSUME TypeOK, ChannelTypes, NEW n \in Nat, Level(n), NEW c \in Clients,
         NotifyCoordinator(c) \/ UpdateStats(c)
  PROVE  Level(n)'
<1>1. /\ client \in [Clients -> StateUpTo(n)] /\ client[c] \in StateUpTo(n)
      /\ stats \in [Clients -> Seq(StateUpTo(n))] /\ stats[c] \in Seq(StateUpTo(n))
  BY DEF Level
<1>2. CASE NotifyCoordinator(c)
  <2>1. client' \in [Clients -> StateUpTo(n)]
    BY <1>1, <1>2 DEF NotifyCoordinator, StateUpTo
  <2> QED
    BY <1>2, <2>1 DEF Level, NotifyCoordinator, engineVars
<1>3. CASE UpdateStats(c)
  <2>1. Len(stats[c]) \in Nat /\ DOMAIN stats[c] = 1 .. Len(stats[c])
    BY <1>1, LenProperties
  <2>2. PICK k \in 1 .. Len(stats[c]) :
          /\ client' = [client EXCEPT ![c] = stats[c][k]]
          /\ stats' = [stats EXCEPT ![c] = SubSeq(@, k + 1, Len(@))]
    BY <1>3, <2>1 DEF UpdateStats
  <2>3. stats[c][k] \in StateUpTo(n)
    BY <1>1, <2>1, ElementOfSeq
  <2>4. \A i \in k + 1 .. Len(stats[c]) : stats[c][i] \in StateUpTo(n)
    <3>1. \A i \in k + 1 .. Len(stats[c]) : i \in 1 .. Len(stats[c])
      BY <2>1
    <3> QED
      BY <1>1, <3>1, ElementOfSeq
  <2>5. SubSeq(stats[c], k + 1, Len(stats[c])) \in Seq(StateUpTo(n))
    BY <1>1, <2>1, <2>4, SubSeqProperties
  <2>6. client' \in [Clients -> StateUpTo(n)] /\ stats' \in [Clients -> Seq(StateUpTo(n))]
    BY <1>1, <2>2, <2>3, <2>5
  <2> QED
    BY <1>3, <2>6 DEF Level, UpdateStats, engineVars
<1> QED
  BY <1>2, <1>3

\* Publishing a state tells the front-ends that take part.
LEMMA PublishLevel ==
  ASSUME NEW n \in Nat, Level(n), NEW s \in StateUpTo(n)
  PROVE  Told(s) \in [Clients -> Seq(StateUpTo(n))]
<1>1. ASSUME NEW c \in Clients
      PROVE  stats[c] \in Seq(StateUpTo(n)) /\ Append(stats[c], s) \in Seq(StateUpTo(n))
  <2>1. stats[c] \in Seq(StateUpTo(n))
    BY DEF Level
  <2> QED
    BY <2>1, AppendProperties
<1> QED
  BY <1>1 DEF Told

\* The coordinator takes over a wave the engines have told it of.
LEMMA LevelCoordinator ==
  ASSUME TypeOK, ChannelTypes, NEW n \in Nat, Level(n),
         \/ \E c \in Clients : HandleNewRequest(c)
         \/ \E e \in Engines : HandleEngineOutput(e)
         \/ PublishStats
  PROVE  Level(n)'
<1>1. /\ coord \in StateUpTo(n) /\ start_dp_wave \in [Engines -> Seq(StartUpTo(n))]
      /\ from_engine \in [Engines -> Seq(OutputUpTo(n))]
  BY DEF Level
<1>2. ASSUME NEW s \in StateUpTo(n), Publish(s)
      PROVE  coord' \in StateUpTo(n) /\ stats' \in [Clients -> Seq(StateUpTo(n))]
  BY <1>2, PublishLevel DEF Publish
<1>3. ASSUME NEW w \in 0 .. n, NEW x \in Nat
      PROVE  Broadcast(start_dp_wave, [wave |-> w, exclude |-> x]) \in [Engines -> Seq(StartUpTo(n))]
  <2>1. [wave |-> w, exclude |-> x] \in StartUpTo(n)
    BY DEF StartUpTo
  <2> QED
    BY <1>1, <2>1, BroadcastType
<1>4. ASSUME NEW c \in Clients, HandleNewRequest(c)
      PROVE  Level(n)'
  <2>1. CASE coord.running
    BY <1>4, <2>1 DEF HandleNewRequest, Level, engineVars, clientVars
  <2>2. CASE ~ coord.running
    <3>1. [coord EXCEPT !.running = TRUE] \in StateUpTo(n) /\ coord.wave \in 0 .. n
      BY <1>1 DEF StateUpTo
    <3>2. Excluded(Head(to_coord[c])) \in Nat
      <4>1. to_coord \in [Clients -> Seq([exclude : Engines, wave : Nat])] /\ to_coord[c] # << >>
        BY <1>4 DEF HandleNewRequest, ChannelTypes
      <4>2. Head(to_coord[c]) \in [exclude : Engines, wave : Nat]
        BY <4>1, PopType
      <4>3. None \in Nat /\ \A e \in Engines : e \in Nat
        BY ConfigTypes DEF TypeOK
      <4> QED
        BY <4>2, <4>3 DEF Excluded
    <3>3. Publish([coord EXCEPT !.running = TRUE])
      BY <1>4, <2>2 DEF HandleNewRequest
    <3>4. start_dp_wave' \in [Engines -> Seq(StartUpTo(n))]
      BY <1>3, <1>4, <2>2, <3>1, <3>2 DEF HandleNewRequest
    <3>5. coord' \in StateUpTo(n) /\ stats' \in [Clients -> Seq(StateUpTo(n))]
      BY <1>2, <3>1, <3>3
    <3> QED
      BY <1>4, <3>4, <3>5 DEF HandleNewRequest, Level, engineVars, clientVars
  <2> QED
    BY <2>1, <2>2
<1>5. ASSUME NEW e \in Engines, HandleEngineOutput(e)
      PROVE  Level(n)'
  <2> DEFINE msg == Head(from_engine[e])
  <2>1. Pop(from_engine, e) \in [Engines -> Seq(OutputUpTo(n))] /\ msg \in OutputUpTo(n)
    BY <1>1, <1>5, PopType DEF HandleEngineOutput
  <2> HIDE DEF msg
  <2>2. from_engine' \in [Engines -> Seq(OutputUpTo(n))]
    BY <1>5, <2>1 DEF HandleEngineOutput
  <2>3. msg.wave \in 0 .. n /\ (msg.type = "wave_complete" => msg.wave + 1 \in 0 .. n)
    BY <2>1 DEF OutputUpTo
  <2>4. e \in Nat
    BY ConfigTypes DEF TypeOK
  <2>5. CASE msg.type = "wave_complete" /\ CompletesWave(msg.wave)
    <3>1. [wave |-> msg.wave + 1, running |-> FALSE] \in StateUpTo(n)
      BY <2>3, <2>5 DEF StateUpTo
    <3>2. Publish([wave |-> msg.wave + 1, running |-> FALSE]) /\ start_dp_wave' = start_dp_wave
      BY <1>5, <2>5 DEF HandleEngineOutput, msg
    <3>3. coord' \in StateUpTo(n) /\ stats' \in [Clients -> Seq(StateUpTo(n))]
      BY <1>2, <3>1, <3>2
    <3> QED
      BY <1>5, <2>2, <3>2, <3>3 DEF HandleEngineOutput, Level, engineVars, clientVars
  <2>6. CASE msg.type = "start_wave" /\ StartsWave(msg.wave)
    <3>1. [wave |-> msg.wave, running |-> TRUE] \in StateUpTo(n)
      BY <2>3 DEF StateUpTo
    <3>2. /\ Publish([wave |-> msg.wave, running |-> TRUE])
          /\ start_dp_wave' = Broadcast(start_dp_wave, [wave |-> msg.wave, exclude |-> e])
      BY <1>5, <2>6 DEF HandleEngineOutput, msg
    <3>3. coord' \in StateUpTo(n) /\ stats' \in [Clients -> Seq(StateUpTo(n))]
      BY <1>2, <3>1, <3>2
    <3>4. start_dp_wave' \in [Engines -> Seq(StartUpTo(n))]
      BY <1>3, <2>3, <2>4, <3>2
    <3> QED
      BY <1>5, <2>2, <3>3, <3>4 DEF HandleEngineOutput, Level, engineVars, clientVars
  <2>7. CASE /\ ~ (msg.type = "wave_complete" /\ CompletesWave(msg.wave))
             /\ ~ (msg.type = "start_wave" /\ StartsWave(msg.wave))
    <3>1. UNCHANGED <<coord, stats, start_dp_wave>>
      BY <1>5, <2>7 DEF HandleEngineOutput, msg
    <3> QED
      BY <1>5, <2>2, <3>1 DEF HandleEngineOutput, Level, engineVars, clientVars
  <2> QED
    BY <2>5, <2>6, <2>7
<1>6. CASE PublishStats
  <2>1. stats' \in [Clients -> Seq(StateUpTo(n))]
    BY <1>1, <1>6, PublishLevel DEF PublishStats
  <2> QED
    BY <1>6, <2>1 DEF PublishStats, Level, engineVars, clientVars
<1> QED
  BY <1>4, <1>5, <1>6

\* The engines take over no other wave, and begin the next one together.
LEMMA LevelEngines ==
  ASSUME TypeOK, ChannelTypes, NEW n \in Nat, Level(n), NEW e \in Engines,
         \/ \E c \in Clients : Handle(e, c)
         \/ HandleStart(e) \/ NotifyIdle(e) \/ Step(e)
  PROVE  Level(n)'
<1>1. /\ current_wave \in [Engines -> Nat] /\ \A f \in Engines : current_wave[f] = n
      /\ start_dp_wave \in [Engines -> Seq(StartUpTo(n))]
      /\ from_engine \in [Engines -> Seq(OutputUpTo(n))]
      /\ input \in [Clients -> [Engines -> Seq(InputUpTo(n))]]
  BY DEF Level, TypeOK
<1>2. ASSUME NEW c \in Clients, Handle(e, c)
      PROVE  Level(n)'
  <2>1. \E type : Takes(e, c, type)
    BY <1>2 DEF Handle, HandleAdd, HandleAbort, HandlePause, HandleResume
  <2>2. input' \in [Clients -> [Engines -> Seq(InputUpTo(n))]]
    BY <1>1, <2>1, InputKeepsType
  <2>3. CASE HandleAdd(e, c)
    <3>1. Takes(e, c, "ADD")
      BY <2>3 DEF HandleAdd
    <3>2. input[c][e] \in Seq(InputUpTo(n)) /\ input[c][e] # << >> /\ Head(input[c][e]).type = "ADD"
      BY <1>1, <3>1 DEF Takes
    <3>3. Head(input[c][e]) \in InputUpTo(n)
      BY <3>2, HeadTailProperties
    <3>4. PICK w : w = Head(input[c][e]).wave
      OBVIOUS
    <3>5. w \in 0 .. n
      BY <3>2, <3>3, <3>4 DEF InputUpTo
    <3>6. current_wave' = [current_wave EXCEPT ![e] = IF w > @ THEN w ELSE @]
      BY <2>3, <3>4 DEF HandleAdd
    <3>7. \A f \in Engines : current_wave'[f] = n
      BY <1>1, <3>5, <3>6
    <3>8. [type |-> "start_wave", wave |-> current_wave[e]] \in OutputUpTo(n)
      BY <1>1 DEF OutputUpTo
    <3>9. Send(from_engine, e, [type |-> "start_wave", wave |-> current_wave[e]])
            \in [Engines -> Seq(OutputUpTo(n))]
      BY <1>1, <3>8, SendType
    <3>10. from_engine' \in [Engines -> Seq(OutputUpTo(n))]
      BY <1>1, <2>3, <3>9 DEF HandleAdd
    <3> QED
      BY <2>2, <2>3, <3>7, <3>10 DEF HandleAdd, Level, clientVars
  <2>4. CASE HandleAbort(e, c) \/ HandlePause(e, c) \/ HandleResume(e, c)
    BY <2>2, <2>4 DEF HandleAbort, HandlePause, HandleResume, Level, clientVars
  <2> QED
    BY <1>2, <2>3, <2>4 DEF Handle
<1>3. CASE HandleStart(e)
  <2>1. Pop(start_dp_wave, e) \in [Engines -> Seq(StartUpTo(n))]
        /\ Head(start_dp_wave[e]) \in StartUpTo(n)
    BY <1>1, <1>3, PopType DEF HandleStart
  <2>2. PICK w : w = Head(start_dp_wave[e]).wave
    OBVIOUS
  <2>3. w \in 0 .. n
    BY <2>1, <2>2 DEF StartUpTo
  <2>4. \/ current_wave' = current_wave
        \/ w >= n /\ current_wave' = [current_wave EXCEPT ![e] = w]
    BY <1>1, <1>3, <2>2 DEF HandleStart
  <2>5. \A f \in Engines : current_wave'[f] = n
    BY <1>1, <2>3, <2>4
  <2> QED
    BY <1>3, <2>1, <2>5 DEF HandleStart, Level, clientVars
<1>4. CASE NotifyIdle(e) \/ Step(e)
  BY <1>4 DEF NotifyIdle, Step, Level, clientVars, channels
<1> QED
  BY <1>2, <1>3, <1>4

\* The end of wave n.
EndsWave == AllReduce /\ ~ sync_dp_state.has_unfinished

\* Every step leaves the engines in wave n, except its end.
LEMMA LevelStep ==
  ASSUME TypeOK, ChannelTypes, NEW n \in Nat, Level(n), [Next]_vars
  PROVE  IF EndsWave THEN Level(n + 1)' ELSE Level(n)'
<1>1. CASE EndsWave
  <2>1. /\ \A e \in Engines : current_wave[e] = n
        /\ coord \in StateUpTo(n) /\ client \in [Clients -> StateUpTo(n)]
        /\ stats \in [Clients -> Seq(StateUpTo(n))]
        /\ start_dp_wave \in [Engines -> Seq(StartUpTo(n))]
        /\ from_engine \in [Engines -> Seq(OutputUpTo(n))]
        /\ input \in [Clients -> [Engines -> Seq(InputUpTo(n))]]
    BY DEF Level
  <2>2. /\ StateUpTo(n) \subseteq StateUpTo(n + 1)
        /\ Seq(StateUpTo(n)) \subseteq Seq(StateUpTo(n + 1))
        /\ Seq(StartUpTo(n)) \subseteq Seq(StartUpTo(n + 1))
        /\ Seq(OutputUpTo(n)) \subseteq Seq(OutputUpTo(n + 1))
        /\ Seq(InputUpTo(n)) \subseteq Seq(InputUpTo(n + 1))
    BY UpToWider, SeqWider
  <2>3. /\ coord \in StateUpTo(n + 1) /\ client \in [Clients -> StateUpTo(n + 1)]
        /\ stats \in [Clients -> Seq(StateUpTo(n + 1))]
        /\ start_dp_wave \in [Engines -> Seq(StartUpTo(n + 1))]
        /\ from_engine \in [Engines -> Seq(OutputUpTo(n + 1))]
    BY <2>1, <2>2
  <2>4. input \in [Clients -> [Engines -> Seq(InputUpTo(n + 1))]]
    <3>1. \A c \in Clients : input[c] \in [Engines -> Seq(InputUpTo(n + 1))]
      BY <2>1, <2>2
    <3> QED
      BY <2>1, <3>1
  <2>5. 0 \in Engines
    BY ConfigTypes DEF TypeOK
  <2>6. /\ current_wave' = [e \in Engines |-> current_wave[e] + 1]
        /\ from_engine' = Send(from_engine, 0, [type |-> "wave_complete", wave |-> current_wave[0]])
        /\ UNCHANGED <<coord, client, stats, start_dp_wave, input>>
    BY <1>1 DEF EndsWave, AllReduce, clientVars
  <2>7. [type |-> "wave_complete", wave |-> current_wave[0]] \in OutputUpTo(n + 1)
    BY <2>1, <2>5 DEF OutputUpTo
  <2>8. from_engine' \in [Engines -> Seq(OutputUpTo(n + 1))]
    BY <2>3, <2>5, <2>6, <2>7, SendType
  <2>9. \A e \in Engines : current_wave'[e] = n + 1
    BY <2>1, <2>6
  <2>10. Level(n + 1)'
    BY <2>3, <2>4, <2>6, <2>8, <2>9 DEF Level
  <2> QED
    BY <1>1, <2>10
<1>2. ASSUME ~ EndsWave
      PROVE  Level(n)'
  <2>1. CASE AllReduce
    BY <1>2, <2>1 DEF EndsWave, AllReduce, Level, clientVars
  <2>2. CASE Forward \/ ResumeBarrier \/ PauseReturns \/ UNCHANGED vars
    BY <2>2 DEF Forward, ResumeBarrier, PauseReturns, vars, Level, engineVars, clientVars, channels
  <2> QED
    BY <2>1, <2>2, LevelFront, LevelStats, LevelCoordinator, LevelEngines DEF Next
<1> QED
  BY <1>1, <1>2

\* Messages stay in a queue until they are taken.
LEMMA SomeAppend ==
  ASSUME NEW M, NEW q \in Seq(M), NEW m \in M, NEW S
  PROVE  /\ Some(q, S) => Some(Append(q, m), S)
         /\ m \in S => Some(Append(q, m), S)
<1>1. /\ Len(Append(q, m)) = Len(q) + 1 /\ Len(q) \in Nat
      /\ \A i \in 1 .. Len(q) : Append(q, m)[i] = q[i]
      /\ Append(q, m)[Len(q) + 1] = m
  BY AppendProperties, LenProperties
<1>2. /\ \A i \in 1 .. Len(q) : i \in 1 .. Len(Append(q, m))
      /\ Len(q) + 1 \in 1 .. Len(Append(q, m))
  BY <1>1
<1> QED
  BY <1>1, <1>2 DEF Some

LEMMA SomeTail ==
  ASSUME NEW M, NEW q \in Seq(M), q # << >>, NEW S, Some(q, S)
  PROVE  Head(q) \in S \/ Some(Tail(q), S)
<1>1. /\ Head(q) = q[1] /\ Len(Tail(q)) = Len(q) - 1 /\ Len(q) \in Nat
      /\ \A i \in 1 .. Len(Tail(q)) : Tail(q)[i] = q[i + 1]
  BY HeadTailProperties, LenProperties
<1>2. PICK i \in 1 .. Len(q) : q[i] \in S
  BY DEF Some
<1>3. CASE i = 1
  BY <1>1, <1>2, <1>3
<1>4. CASE i # 1
  <2>1. PICK j : j = i - 1
    OBVIOUS
  <2>2. j \in 1 .. Len(Tail(q)) /\ j + 1 = i
    BY <1>1, <1>4, <2>1
  <2> QED
    BY <1>1, <1>2, <2>2 DEF Some
<1> QED
  BY <1>3, <1>4

\* Only engine 0 reports the end of a wave, and only the coordinator takes the report.
LEMMA KnownStep ==
  ASSUME TypeOK, ChannelTypes, NEW n \in Nat, Level(n), WaveIsKnown(n), [Next]_vars
  PROVE  IF EndsWave THEN WaveIsKnown(n + 1)' ELSE WaveIsKnown(n)'
<1> DEFINE Output == [type : {"start_wave", "wave_complete"}, wave : Nat]
           End(k) == {[type |-> "wave_complete", wave |-> k - 1]}
<1>0. /\ from_engine \in [Engines -> Seq(Output)] /\ coord \in [wave : Nat, running : BOOLEAN]
      /\ coord \in StateUpTo(n) /\ from_engine \in [Engines -> Seq(OutputUpTo(n))]
      /\ \A e \in Engines : current_wave[e] = n
      /\ 0 \in Engines
  BY ConfigTypes DEF TypeOK, ChannelTypes, Level
<1>1. coord.wave = n \/ Some(from_engine[0], End(n))
  BY DEF WaveIsKnown
<1>2. ASSUME NEW k \in Nat, coord'.wave = k \/ Some(from_engine'[0], End(k))
      PROVE  WaveIsKnown(k)'
  BY <1>2 DEF WaveIsKnown, Some
<1> HIDE DEF End
<1>3. CASE EndsWave
  <2>1. from_engine' = Send(from_engine, 0, [type |-> "wave_complete", wave |-> n])
    BY <1>0, <1>3 DEF EndsWave, AllReduce
  <2>2. /\ [type |-> "wave_complete", wave |-> n] \in Output
        /\ [type |-> "wave_complete", wave |-> n] \in End(n + 1)
    BY DEF End
  <2> HIDE DEF Output
  <2>3. from_engine[0] \in Seq(Output)
        /\ from_engine'[0] = Append(from_engine[0], [type |-> "wave_complete", wave |-> n])
    BY <1>0, <2>1 DEF Send
  <2>4. Some(from_engine'[0], End(n + 1))
    BY <2>2, <2>3, SomeAppend
  <2>5. WaveIsKnown(n + 1)'
    BY <1>2, <2>4
  <2> QED
    BY <1>3, <2>5
<1>4. ASSUME ~ EndsWave, UNCHANGED <<coord, from_engine>>
      PROVE  WaveIsKnown(n)'
  BY <1>1, <1>2, <1>4
<1>5. ASSUME NEW e \in Engines, NEW c \in Clients, HandleAdd(e, c)
      PROVE  WaveIsKnown(n)'
  <2>1. PICK m \in Output : m = [type |-> "start_wave", wave |-> current_wave[e]]
    BY <1>0
  <2> HIDE DEF Output
  <2>2. from_engine' = from_engine \/ from_engine' = Send(from_engine, e, m)
    BY <1>5, <2>1 DEF HandleAdd
  <2>3. from_engine'[0] = from_engine[0] \/ from_engine'[0] = Append(from_engine[0], m)
    BY <1>0, <2>2 DEF Send
  <2>4. from_engine[0] \in Seq(Output)
    BY <1>0
  <2>5. Some(from_engine[0], End(n)) => Some(from_engine'[0], End(n))
    <3>1. m \in Output
      BY <2>1
    <3>2. PICK S : S = End(n)
      OBVIOUS
    <3>3. Some(from_engine[0], S) => Some(Append(from_engine[0], m), S)
      BY <2>4, <3>1, SomeAppend
    <3> QED
      BY <2>3, <3>2, <3>3
  <2>6. coord' = coord
    BY <1>5 DEF HandleAdd
  <2> QED
    BY <1>1, <1>2, <2>5, <2>6
<1>6. ASSUME NEW e \in Engines, HandleEngineOutput(e)
      PROVE  WaveIsKnown(n)'
  <2> DEFINE msg == Head(from_engine[e])
  <2>1. from_engine[e] # << >> /\ from_engine' = Pop(from_engine, e)
    BY <1>6 DEF HandleEngineOutput
  <2>2. msg \in OutputUpTo(n)
    BY <1>0, <2>1, PopType
  <2> HIDE DEF msg
  <2>3. msg.wave \in 0 .. n /\ (msg.type = "wave_complete" => msg.wave + 1 \in 0 .. n)
    BY <2>2 DEF OutputUpTo
  <2>4. coord.wave \in 0 .. n
    BY <1>0 DEF StateUpTo
  <2>5. /\ msg.type = "wave_complete" /\ CompletesWave(msg.wave) => coord'.wave = msg.wave + 1
        /\ msg.type = "start_wave" /\ StartsWave(msg.wave) => coord'.wave = msg.wave
        /\ \/ coord' = coord
           \/ msg.type = "wave_complete" /\ CompletesWave(msg.wave)
           \/ msg.type = "start_wave" /\ StartsWave(msg.wave)
    BY <1>6 DEF HandleEngineOutput, Publish, msg
  <2>6. coord.wave = n => coord'.wave = n
    BY <2>3, <2>4, <2>5 DEF CompletesWave, StartsWave
  <2>7. ASSUME Some(from_engine[0], End(n))
        PROVE  coord'.wave = n \/ Some(from_engine'[0], End(n))
    <3> HIDE DEF Output
    <3>1. from_engine[0] \in Seq(Output) /\ (e # 0 => from_engine'[0] = from_engine[0])
          /\ (e = 0 => from_engine'[0] = Tail(from_engine[0]))
      BY <1>0, <2>1 DEF Pop
    <3>2. CASE e # 0
      BY <2>7, <3>1, <3>2
    <3>3. CASE e = 0
      <4>1. msg \in End(n) \/ Some(from_engine'[0], End(n))
        BY <2>1, <2>7, <3>1, <3>3, SomeTail DEF msg
      <4>2. CASE msg \in End(n)
        <5>1. msg.type = "wave_complete" /\ msg.wave = n - 1
          BY <4>2 DEF End
        <5> QED
          BY <2>3, <2>4, <2>5, <2>6, <5>1 DEF CompletesWave
      <4> QED
        BY <4>1, <4>2
    <3> QED
      BY <3>2, <3>3
  <2> QED
    BY <1>1, <1>2, <2>6, <2>7
<1>7. ASSUME NEW c \in Clients, HandleNewRequest(c)
      PROVE  WaveIsKnown(n)'
  <2>1. coord'.wave = coord.wave /\ from_engine' = from_engine
    BY <1>0, <1>7 DEF HandleNewRequest, Publish
  <2> QED
    BY <1>1, <1>2, <2>1
<1>8. ASSUME ~ EndsWave
      PROVE  WaveIsKnown(n)'
  <2>1. CASE UNCHANGED <<coord, from_engine>>
    BY <1>4, <1>8, <2>1
  <2>2. CASE AllReduce
    BY <1>8, <2>1, <2>2 DEF EndsWave, AllReduce
  <2>3. CASE \/ \E c \in Clients, r \in Requests : AddRequest(c, r)
             \/ \E r \in Requests : AbortRequest(r)
             \/ \E c \in Clients, mode \in config.modes : PauseScheduler(c, mode)
             \/ PauseReturns \/ PublishStats \/ UNCHANGED vars
             \/ \E c \in Clients : ResumeScheduler(c) \/ NotifyCoordinator(c) \/ UpdateStats(c)
    BY <2>1, <2>3 DEF AddRequest, AbortRequest, PauseScheduler, PauseReturns, PublishStats, vars,
       ResumeScheduler, NotifyCoordinator, UpdateStats, channels
  <2>4. CASE \/ \E e \in Engines, c \in Clients :
                  HandleAbort(e, c) \/ HandlePause(e, c) \/ HandleResume(e, c)
             \/ \E e \in Engines : HandleStart(e) \/ NotifyIdle(e) \/ Step(e)
             \/ Forward \/ ResumeBarrier
    BY <2>1, <2>4 DEF HandleAbort, HandlePause, HandleResume, HandleStart, NotifyIdle, Step,
       Forward, ResumeBarrier, channels
  <2> QED
    BY <1>5, <1>6, <1>7, <2>2, <2>3, <2>4 DEF Next, Handle
<1> QED
  BY <1>3, <1>8

\* A message that starts wave n reaches an engine it is not kept from.
LEMMA BroadcastStarts ==
  ASSUME TypeOK, ChannelTypes, NEW n \in Nat, NEW x \in Nat,
         start_dp_wave' = Broadcast(start_dp_wave, [wave |-> n, exclude |-> x])
  PROVE  \E e \in Engines : WillRun(e, n)'
<1>1. PICK e \in Engines : e # x /\ e \in Nat
  <2>1. 0 \in Engines /\ 1 \in Engines
    BY WavesAssumption DEF Engines
  <2> QED
    BY <2>1
<1> DEFINE Start == [wave : Nat, exclude : Nat]
<1>2. PICK m \in Start : m = [wave |-> n, exclude |-> x]
  OBVIOUS
<1>3. m \in [wave : {n}, exclude : Nat \ {e}]
  BY <1>1, <1>2
<1>4. start_dp_wave \in [Engines -> Seq(Start)]
  BY DEF ChannelTypes
<1> HIDE DEF Start
<1>5. start_dp_wave[e] \in Seq(Start) /\ start_dp_wave'[e] = Append(start_dp_wave[e], m)
  BY <1>2, <1>4 DEF Broadcast
<1>6. Some(start_dp_wave'[e], [wave : {n}, exclude : Nat \ {e}])
  <2>1. m \in Start
    BY <1>2
  <2>2. PICK S : S = [wave : {n}, exclude : Nat \ {e}]
    OBVIOUS
  <2>3. m \in S
    BY <1>3, <2>2
  <2>4. Some(Append(start_dp_wave[e], m), S)
    BY <1>5, <2>1, <2>3, SomeAppend
  <2> QED
    BY <1>5, <2>2, <2>4
<1>7. WillRun(e, n)'
  BY <1>6 DEF WillRun, Some
<1> QED
  BY <1>7

\* An engine that runs or is about to does so until the wave ends.
LEMMA WillRunStays ==
  ASSUME TypeOK, ChannelTypes, PauseInv, NEW n \in Nat, Level(n), pausing = "no", [Next]_vars,
         ~ EndsWave, NEW e \in Engines, WillRun(e, n)
  PROVE  WillRun(e, n)'
<1> DEFINE Starts == [wave : {n}, exclude : Nat \ {e}]
           Start == [wave : Nat, exclude : Nat]
<1>0. /\ engines_running \in [Engines -> BOOLEAN] /\ start_dp_wave \in [Engines -> Seq(Start)]
      /\ current_wave[e] = n /\ ~ ignore_start_dp_wave[e] /\ pc[e] # "resume"
  BY DEF TypeOK, ChannelTypes, Level, PauseInv, Unpaused
<1>1. engines_running[e] \/ Some(start_dp_wave[e], Starts)
  BY DEF WillRun
<1>2. ASSUME engines_running'[e] \/ Some(start_dp_wave'[e], Starts)
      PROVE  WillRun(e, n)'
  BY <1>2 DEF WillRun, Some
<1>3. CASE engines_running'[e] = engines_running[e] /\ start_dp_wave' = start_dp_wave
  BY <1>1, <1>2, <1>3
<1>4. CASE engines_running'[e] /\ start_dp_wave' = start_dp_wave
  BY <1>2, <1>4
<1>5. ASSUME NEW m \in Start, engines_running' = engines_running,
             start_dp_wave' = Broadcast(start_dp_wave, m)
      PROVE  WillRun(e, n)'
  <2> HIDE DEF Start, Starts
  <2>1. start_dp_wave[e] \in Seq(Start) /\ start_dp_wave'[e] = Append(start_dp_wave[e], m)
    BY <1>0, <1>5 DEF Broadcast
  <2>2. Some(start_dp_wave[e], Starts) => Some(start_dp_wave'[e], Starts)
    BY <2>1, SomeAppend
  <2> QED
    BY <1>1, <1>2, <1>5, <2>2
<1>6. ASSUME NEW c \in Clients, HandleNewRequest(c)
      PROVE  WillRun(e, n)'
  <2>1. CASE coord.running
    BY <1>3, <1>6, <2>1 DEF HandleNewRequest, engineVars
  <2>2. CASE ~ coord.running
    <3>1. to_coord \in [Clients -> Seq([exclude : Engines, wave : Nat])] /\ to_coord[c] # << >>
      BY <1>6 DEF HandleNewRequest, ChannelTypes
    <3>2. Head(to_coord[c]) \in [exclude : Engines, wave : Nat]
      BY <3>1, PopType
    <3>3. None \in Nat /\ (\A f \in Engines : f \in Nat) /\ coord.wave \in Nat
      BY ConfigTypes DEF TypeOK
    <3>4. [wave |-> coord.wave, exclude |-> Excluded(Head(to_coord[c]))] \in Start
      BY <3>2, <3>3 DEF Excluded
    <3>5. /\ start_dp_wave' = Broadcast(start_dp_wave,
               [wave |-> coord.wave, exclude |-> Excluded(Head(to_coord[c]))])
          /\ engines_running' = engines_running
      BY <1>6, <2>2 DEF HandleNewRequest, engineVars
    <3> HIDE DEF Start
    <3> QED
      BY <1>5, <3>4, <3>5
  <2> QED
    BY <2>1, <2>2
<1>7. ASSUME NEW f \in Engines, HandleEngineOutput(f)
      PROVE  WillRun(e, n)'
  <2>1. engines_running' = engines_running
    BY <1>7 DEF HandleEngineOutput, engineVars
  <2>2. \/ start_dp_wave' = start_dp_wave
        \/ start_dp_wave' = Broadcast(start_dp_wave, [wave |-> Head(from_engine[f]).wave, exclude |-> f])
    BY <1>7 DEF HandleEngineOutput
  <2>3. Head(from_engine[f]) \in OutputUpTo(n) /\ f \in Nat
    BY <1>7, PopType, ConfigTypes DEF HandleEngineOutput, Level, TypeOK
  <2>4. Head(from_engine[f]).wave \in Nat
    BY <2>3 DEF OutputUpTo
  <2>5. [wave |-> Head(from_engine[f]).wave, exclude |-> f] \in Start
    BY <2>3, <2>4
  <2> HIDE DEF Start
  <2> QED
    BY <1>3, <1>5, <2>1, <2>2, <2>5
<1>8. ASSUME NEW f \in Engines, HandleStart(f)
      PROVE  WillRun(e, n)'
  <2>1. CASE f # e
    <3>1. start_dp_wave'[e] = start_dp_wave[e] /\ engines_running'[e] = engines_running[e]
      BY <1>0, <1>8, <2>1 DEF HandleStart, Pop
    <3> QED
      BY <1>1, <1>2, <3>1
  <2>2. CASE f = e
    <3>1. engines_running[e] => engines_running'[e]
      BY <1>0, <1>8, <2>2 DEF HandleStart
    <3>2. start_dp_wave[e] # << >> /\ start_dp_wave'[e] = Tail(start_dp_wave[e])
      BY <1>0, <1>8, <2>2 DEF HandleStart, Pop
    <3>3. Head(start_dp_wave[e]) \in Starts => engines_running'[e]
      BY <1>0, <1>8, <2>2 DEF HandleStart, Ignored
    <3>4. start_dp_wave[e] \in Seq(Start)
      BY <1>0
    <3> HIDE DEF Starts, Start
    <3>5. Some(start_dp_wave[e], Starts) =>
            Head(start_dp_wave[e]) \in Starts \/ Some(start_dp_wave'[e], Starts)
      BY <3>2, <3>4, SomeTail
    <3> QED
      BY <1>1, <1>2, <3>1, <3>3, <3>5
  <2> QED
    BY <2>1, <2>2
<1>9. ASSUME NEW f \in Engines, NEW c \in Clients, Handle(f, c)
      PROVE  WillRun(e, n)'
  <2>1. start_dp_wave' = start_dp_wave
    BY <1>9 DEF Handle, HandleAdd, HandleAbort, HandlePause, HandleResume
  <2>2. \/ engines_running' = engines_running
        \/ engines_running' = [engines_running EXCEPT ![f] = TRUE]
    BY <1>9 DEF Handle, HandleAdd, HandleAbort, HandlePause, HandleResume
  <2>3. engines_running[e] => engines_running'[e]
    BY <1>0, <2>2
  <2> QED
    BY <1>1, <1>2, <2>1, <2>3
<1>10. CASE Forward
  <2>1. engines_running[e] => engines_running'[e]
    BY <1>10 DEF Forward
  <2> QED
    BY <1>1, <1>2, <1>10, <2>1 DEF Forward, channels
<1>11. CASE AllReduce
  <2>1. sync_dp_state.has_unfinished
    BY <1>11 DEF EndsWave
  <2>2. engines_running'[e] /\ start_dp_wave' = start_dp_wave
    BY <1>11, <2>1 DEF AllReduce
  <2> QED
    BY <1>4, <2>2
<1>12. ~ ResumeBarrier
  BY <1>0 DEF ResumeBarrier
<1>13. CASE \/ \E c \in Clients, r \in Requests : AddRequest(c, r)
            \/ \E r \in Requests : AbortRequest(r)
            \/ \E c \in Clients, mode \in config.modes : PauseScheduler(c, mode)
            \/ PauseReturns \/ PublishStats \/ UNCHANGED vars
            \/ \E c \in Clients : ResumeScheduler(c) \/ NotifyCoordinator(c) \/ UpdateStats(c)
  BY <1>3, <1>13 DEF AddRequest, AbortRequest, PauseScheduler, PauseReturns, PublishStats, vars,
     ResumeScheduler, NotifyCoordinator, UpdateStats, channels, engineVars
<1>14. CASE \E f \in Engines : NotifyIdle(f) \/ Step(f)
  BY <1>3, <1>14 DEF NotifyIdle, Step, channels
<1> QED
  BY <1>6, <1>7, <1>8, <1>9, <1>10, <1>11, <1>12, <1>13, <1>14 DEF Next

\* What the coordinator believes of the engines stays true.
LEMMA RunsStep ==
  ASSUME TypeOK, ChannelTypes, PauseInv, NEW n \in Nat, Level(n), RunsIfTold(n), [Next]_vars
  PROVE  IF EndsWave THEN RunsIfTold(n + 1)' ELSE RunsIfTold(n)'
<1>1. pauses \in Nat /\ coord \in StateUpTo(n) /\ coord.wave \in 0 .. n /\ 0 \in Engines
  BY WavesAssumption, ConfigTypes DEF TypeOK, Level, StateUpTo
<1>2. pauses' = pauses \/ pauses' = pauses + 1
  BY DEF Next, AddRequest, AbortRequest, PauseScheduler, PauseReturns, ResumeScheduler,
     NotifyCoordinator, UpdateStats, HandleNewRequest, HandleEngineOutput, PublishStats, Handle,
     HandleAdd, HandleAbort, HandlePause, HandleResume, HandleStart, NotifyIdle, Step, Forward,
     AllReduce, ResumeBarrier, vars, clientVars
<1>3. CASE pauses' # 0
  BY <1>3 DEF RunsIfTold
<1>4. CASE pauses' = 0
  <2>1. pauses = 0 /\ pausing = "no"
    BY <1>1, <1>2, <1>4 DEF RunsIfTold
  <2>2. pausing' = "no"
    <3>1. ~ PauseReturns /\ \A c \in Clients : ~ ResumeScheduler(c)
      BY <2>1 DEF PauseReturns, ResumeScheduler
    <3>2. \A c \in Clients, mode \in config.modes : ~ PauseScheduler(c, mode)
      BY <1>4, <2>1 DEF PauseScheduler
    <3> QED
      BY <2>1, <3>1, <3>2 DEF Next, AddRequest, AbortRequest, NotifyCoordinator, UpdateStats,
         HandleNewRequest, HandleEngineOutput, PublishStats, Handle, HandleAdd, HandleAbort,
         HandlePause, HandleResume, HandleStart, NotifyIdle, Step, Forward, AllReduce,
         ResumeBarrier, vars, clientVars
  <2>3. CASE EndsWave
    <3>1. coord' = coord
      BY <2>3 DEF EndsWave, AllReduce
    <3>2. coord'.wave # n + 1
      BY <1>1, <3>1
    <3>3. RunsIfTold(n + 1)'
      BY <2>2, <3>2 DEF RunsIfTold
    <3> QED
      BY <2>3, <3>3
  <2>4. ASSUME ~ EndsWave
        PROVE  RunsIfTold(n)'
    <3>1. SUFFICES ASSUME coord'.running, coord'.wave = n
                   PROVE  \E e \in Engines : WillRun(e, n)'
      BY <2>2 DEF RunsIfTold
    <3>2. ASSUME coord' = coord
          PROVE  \E e \in Engines : WillRun(e, n)'
      <4>1. PICK e \in Engines : WillRun(e, n)
        BY <2>1, <3>1, <3>2 DEF RunsIfTold
      <4>2. WillRun(e, n)'
        BY <2>1, <2>4, <4>1, WillRunStays
      <4> QED
        BY <4>2
    <3>3. ASSUME NEW c \in Clients, HandleNewRequest(c), ~ coord.running
          PROVE  \E e \in Engines : WillRun(e, n)'
      <4>1. to_coord \in [Clients -> Seq([exclude : Engines, wave : Nat])] /\ to_coord[c] # << >>
        BY <3>3 DEF HandleNewRequest, ChannelTypes
      <4>2. Head(to_coord[c]) \in [exclude : Engines, wave : Nat]
        BY <4>1, PopType
      <4>3. None \in Nat /\ \A e \in Engines : e \in Nat
        BY ConfigTypes DEF TypeOK
      <4>4. Excluded(Head(to_coord[c])) \in Nat
        BY <4>2, <4>3 DEF Excluded
      <4>5. coord' = [coord EXCEPT !.running = TRUE]
        BY <3>3 DEF HandleNewRequest, Publish
      <4>6. coord.wave = n
        BY <1>1, <3>1, <4>5 DEF StateUpTo
      <4>7. start_dp_wave' =
              Broadcast(start_dp_wave, [wave |-> n, exclude |-> Excluded(Head(to_coord[c]))])
        BY <3>3, <4>6 DEF HandleNewRequest
      <4> QED
        BY <4>4, <4>7, BroadcastStarts
    <3>4. ASSUME NEW e \in Engines, HandleEngineOutput(e), coord' # coord
          PROVE  \E f \in Engines : WillRun(f, n)'
      <4>1. e \in Nat
        BY ConfigTypes DEF TypeOK
      <4>2. \/ coord' = [wave |-> Head(from_engine[e]).wave + 1, running |-> FALSE]
            \/ /\ coord' = [wave |-> Head(from_engine[e]).wave, running |-> TRUE]
               /\ start_dp_wave' =
                    Broadcast(start_dp_wave, [wave |-> Head(from_engine[e]).wave, exclude |-> e])
        BY <3>4 DEF HandleEngineOutput, Publish
      <4>3. start_dp_wave' = Broadcast(start_dp_wave, [wave |-> n, exclude |-> e])
        BY <3>1, <4>2
      <4> QED
        BY <4>1, <4>3, BroadcastStarts
    <3>5. \/ coord' = coord
          \/ \E c \in Clients : HandleNewRequest(c) /\ ~ coord.running
          \/ \E e \in Engines : HandleEngineOutput(e)
      BY DEF Next, AddRequest, AbortRequest, PauseScheduler, PauseReturns,
         ResumeScheduler, NotifyCoordinator, UpdateStats, HandleNewRequest,
         PublishStats, Handle, HandleAdd, HandleAbort, HandlePause, HandleResume, HandleStart,
         NotifyIdle, Step, Forward, AllReduce, ResumeBarrier, vars
    <3> QED
      BY <3>2, <3>3, <3>4, <3>5
  <2> QED
    BY <2>3, <2>4
<1> QED
  BY <1>3, <1>4

\* The last message in a queue.
LEMMA LastOf ==
  ASSUME NEW M, NEW q \in Seq(M)
  PROVE  /\ \A m \in M : Append(q, m) # << >> /\ Append(q, m)[Len(Append(q, m))] = m
         /\ \A k \in 1 .. Len(q) :
              LET rest == SubSeq(q, k + 1, Len(q))
              IN IF k = Len(q) THEN rest = << >>
                 ELSE rest # << >> /\ rest[Len(rest)] = q[Len(q)]
<1>1. Len(q) \in Nat
  BY LenProperties
<1>2. ASSUME NEW m \in M
      PROVE  Append(q, m) # << >> /\ Append(q, m)[Len(Append(q, m))] = m
  <2>1. Len(Append(q, m)) = Len(q) + 1 /\ Append(q, m)[Len(q) + 1] = m
    BY AppendProperties
  <2> QED
    BY <1>1, <2>1
<1>3. ASSUME NEW k \in 1 .. Len(q)
      PROVE  LET rest == SubSeq(q, k + 1, Len(q))
             IN IF k = Len(q) THEN rest = << >>
                ELSE rest # << >> /\ rest[Len(rest)] = q[Len(q)]
  <2> DEFINE rest == SubSeq(q, k + 1, Len(q))
  <2>1. /\ rest \in Seq(M) /\ Len(rest) = Len(q) - k
        /\ \A i \in 1 .. Len(q) - k : rest[i] = q[k + i]
    <3>1. \A i \in k + 1 .. Len(q) : q[i] \in M
      <4>1. \A i \in k + 1 .. Len(q) : i \in 1 .. Len(q)
        BY <1>1
      <4> QED
        BY <4>1, ElementOfSeq
    <3>2. k + 1 \in Int /\ Len(q) \in Int
      BY <1>1
    <3> QED
      BY <1>1, <3>1, <3>2, SubSeqProperties
  <2> HIDE DEF rest
  <2>2. CASE k = Len(q)
    <3>1. Len(rest) = 0
      BY <1>1, <2>1, <2>2
    <3> QED
      BY <2>1, <2>2, <3>1, EmptySeq DEF rest
  <2>3. CASE k # Len(q)
    <3>1. Len(q) - k \in 1 .. Len(q) - k /\ k + (Len(q) - k) = Len(q) /\ Len(rest) # 0
      BY <1>1, <2>1, <2>3
    <3>2. rest # << >> /\ rest[Len(rest)] = q[Len(q)]
      BY <2>1, <3>1
    <3> QED
      BY <2>3, <3>2 DEF rest
  <2> QED
    BY <2>2, <2>3
<1> QED
  BY <1>2, <1>3

\* A front-end has heard, or will hear, what the coordinator last published.
LEMMA InformedStep ==
  ASSUME TypeOK, ChannelTypes, NEW c \in config.clients, Informed(c), [Next]_vars
  PROVE  Informed(c)'
<1> DEFINE State == [wave : Nat, running : BOOLEAN]
<1>0. /\ c \in Clients /\ stats \in [Clients -> Seq(State)] /\ coord \in State
      /\ client \in [Clients -> State]
      /\ to_coord \in [Clients -> Seq([exclude : Engines, wave : Nat])]
  BY WavesAssumption DEF TypeOK, ChannelTypes
<1>f. client[c] \in State /\ client[c].running \in BOOLEAN /\ coord.running \in BOOLEAN
  BY <1>0
<1> HIDE DEF State
<1>1. stats[c] \in Seq(State)
  BY <1>0
<1>2. CASE UNCHANGED <<coord, client, stats, to_coord>>
  BY <1>2 DEF Informed
<1>3. ASSUME NEW s \in State, coord' = s, stats' = Told(s)
      PROVE  Informed(c)'
  <2>1. stats'[c] = Append(stats[c], s)
    BY <1>0, <1>3 DEF Told
  <2>2. stats'[c] # << >> /\ stats'[c][Len(stats'[c])] = s
    BY <1>1, <2>1, LastOf
  <2> QED
    BY <1>3, <2>2 DEF Informed
<1>4. ASSUME NEW d \in Clients, NotifyCoordinator(d)
      PROVE  Informed(c)'
  <2>1. UNCHANGED <<coord, stats>>
    BY <1>4 DEF NotifyCoordinator
  <2>2. CASE d # c
    <3>1. client'[c] = client[c] /\ to_coord'[c] = to_coord[c]
      BY <1>0, <1>4, <2>2 DEF NotifyCoordinator, Send
    <3> QED
      BY <2>1, <3>1 DEF Informed
  <2>3. CASE d = c
    <3>1. client'[c].running /\ client'[c].wave = client[c].wave
      BY <1>0, <1>4, <2>3 DEF NotifyCoordinator, State
    <3>2. PICK m \in [exclude : Engines, wave : Nat] : to_coord'[c] = Append(to_coord[c], m)
      <4>1. first_req[c] \in Seq(Engines) /\ first_req[c] # << >>
        BY <1>4, <2>3 DEF NotifyCoordinator, ChannelTypes
      <4>2. Head(first_req[c]) \in Engines
        BY <4>1, HeadTailProperties
      <4>3. [exclude |-> Head(first_req[c]), wave |-> client[c].wave] \in [exclude : Engines, wave : Nat]
        BY <1>f, <4>2 DEF State
      <4>4. to_coord'[c] = Append(to_coord[c], [exclude |-> Head(first_req[c]), wave |-> client[c].wave])
        BY <1>0, <1>4, <2>3 DEF NotifyCoordinator, Send
      <4> QED
        BY <4>3, <4>4
    <3>3. to_coord'[c] # << >>
      <4>1. PICK M : M = [exclude : Engines, wave : Nat]
        OBVIOUS
      <4>2. to_coord[c] \in Seq(M) /\ m \in M
        BY <1>0, <3>2, <4>1
      <4>3. Append(to_coord[c], m) # << >>
        BY <4>2, LastOf
      <4> QED
        BY <3>2, <4>3
    <3> QED
      BY <2>1, <3>1, <3>3 DEF Informed
  <2> QED
    BY <2>2, <2>3
<1>5. ASSUME NEW d \in Clients, UpdateStats(d)
      PROVE  Informed(c)'
  <2>1. UNCHANGED <<coord, to_coord>>
    BY <1>5 DEF UpdateStats
  <2>2. CASE d # c
    <3>1. client'[c] = client[c] /\ stats'[c] = stats[c]
      BY <1>0, <1>5, <2>2 DEF UpdateStats
    <3> QED
      BY <2>1, <3>1 DEF Informed
  <2>3. CASE d = c
    <3>1. DOMAIN stats[c] = 1 .. Len(stats[c]) /\ Len(stats[c]) \in Nat
      BY <1>1, LenProperties
    <3>2. PICK k \in 1 .. Len(stats[c]) :
            client'[c] = stats[c][k] /\ stats'[c] = SubSeq(stats[c], k + 1, Len(stats[c]))
      BY <1>0, <1>5, <2>3, <3>1 DEF UpdateStats
    <3>3. stats[c] # << >>
      BY <3>1, <3>2
    <3>4. stats[c][Len(stats[c])] = coord
      BY <3>3 DEF Informed
    <3>5. IF k = Len(stats[c]) THEN stats'[c] = << >>
          ELSE stats'[c] # << >> /\ stats'[c][Len(stats'[c])] = stats[c][Len(stats[c])]
      <4>1. PICK rest : rest = SubSeq(stats[c], k + 1, Len(stats[c]))
        OBVIOUS
      <4>2. IF k = Len(stats[c]) THEN rest = << >>
            ELSE rest # << >> /\ rest[Len(rest)] = stats[c][Len(stats[c])]
        BY <1>1, <3>2, <4>1, LastOf
      <4> QED
        BY <3>2, <4>1, <4>2
    <3>6. CASE k = Len(stats[c])
      BY <2>1, <3>2, <3>4, <3>5, <3>6 DEF Informed
    <3>7. CASE k # Len(stats[c])
      BY <2>1, <3>4, <3>5, <3>7 DEF Informed
    <3> QED
      BY <3>6, <3>7
  <2> QED
    BY <2>2, <2>3
<1>6. ASSUME NEW d \in Clients, HandleNewRequest(d)
      PROVE  Informed(c)'
  <2>1. client' = client
    BY <1>6 DEF HandleNewRequest, clientVars
  <2>2. CASE coord.running
    <3>1. UNCHANGED <<coord, stats>>
      BY <1>6, <2>2 DEF HandleNewRequest
    <3> QED
      BY <1>f, <2>1, <2>2, <3>1 DEF Informed
  <2>3. CASE ~ coord.running
    <3>1. Publish([coord EXCEPT !.running = TRUE])
      BY <1>6, <2>3 DEF HandleNewRequest
    <3>2. [coord EXCEPT !.running = TRUE] \in State
      BY <1>0 DEF State
    <3> QED
      BY <1>3, <3>1, <3>2 DEF Publish
  <2> QED
    BY <2>2, <2>3
<1>7. ASSUME NEW e \in Engines, HandleEngineOutput(e)
      PROVE  Informed(c)'
  <2>1. Head(from_engine[e]) \in [type : {"start_wave", "wave_complete"}, wave : Nat]
    BY <1>7, PopType DEF HandleEngineOutput, ChannelTypes
  <2>2. PICK w \in Nat : w = Head(from_engine[e]).wave
    BY <2>1
  <2>3. [wave |-> w + 1, running |-> FALSE] \in State /\ [wave |-> w, running |-> TRUE] \in State
    BY DEF State
  <2>4. \/ Publish([wave |-> w + 1, running |-> FALSE])
        \/ Publish([wave |-> w, running |-> TRUE])
        \/ UNCHANGED <<coord, stats>>
    BY <1>7, <2>2 DEF HandleEngineOutput
  <2>5. UNCHANGED <<client, to_coord>>
    BY <1>7 DEF HandleEngineOutput, clientVars
  <2> QED
    BY <1>2, <1>3, <2>3, <2>4, <2>5 DEF Publish
<1>8. CASE PublishStats
  BY <1>0, <1>3, <1>8 DEF PublishStats
<1>9. CASE \/ \E d \in Clients, r \in Requests : AddRequest(d, r)
           \/ \E r \in Requests : AbortRequest(r)
           \/ \E d \in Clients, mode \in config.modes : PauseScheduler(d, mode)
           \/ PauseReturns \/ UNCHANGED vars
           \/ \E d \in Clients : ResumeScheduler(d)
  BY <1>2, <1>9 DEF AddRequest, AbortRequest, PauseScheduler, PauseReturns, vars,
     ResumeScheduler, channels, clientVars
<1>10. CASE \/ \E e \in Engines, d \in Clients : Handle(e, d)
            \/ \E e \in Engines : HandleStart(e) \/ NotifyIdle(e) \/ Step(e)
            \/ Forward \/ AllReduce \/ ResumeBarrier
  <2>1. CASE \E e \in Engines, d \in Clients : Handle(e, d)
    BY <1>2, <2>1 DEF Handle, HandleAdd, HandleAbort, HandlePause, HandleResume, clientVars
  <2>2. CASE \E e \in Engines : HandleStart(e) \/ NotifyIdle(e) \/ Step(e)
    BY <1>2, <2>2 DEF HandleStart, NotifyIdle, Step, channels, clientVars
  <2>3. CASE Forward \/ AllReduce \/ ResumeBarrier
    BY <1>2, <2>3 DEF Forward, AllReduce, ResumeBarrier, channels, clientVars
  <2> QED
    BY <1>10, <2>1, <2>2, <2>3
<1> QED
  BY <1>4, <1>5, <1>6, <1>7, <1>8, <1>9, <1>10 DEF Next

\* The configuration of a behaviour is chosen once.
LEMMA ConfigStays ==
  ASSUME [Next]_vars
  PROVE  config' = config
  BY DEF Next, AddRequest, AbortRequest, PauseScheduler, PauseReturns, ResumeScheduler,
     NotifyCoordinator, UpdateStats, HandleNewRequest, HandleEngineOutput, PublishStats, Handle,
     HandleAdd, HandleAbort, HandlePause, HandleResume, HandleStart, NotifyIdle, Step, Forward,
     AllReduce, ResumeBarrier, vars

\* All engines are in some wave, and everybody will hear of it.
AgreementInv == \E n \in Nat : AgreeInv(n)

LEMMA AgreementInit == Init => AgreementInv
<1> SUFFICES ASSUME Init
             PROVE  AgreeInv(0)
  BY DEF AgreementInv
<1>1. \A M : << >> \in Seq(M)
  OBVIOUS
<1>2. Level(0)
  <2>1. [wave |-> 0, running |-> FALSE] \in StateUpTo(0)
    BY DEF StateUpTo
  <2>2. coord \in StateUpTo(0) /\ client \in [Clients -> StateUpTo(0)]
    BY <2>1 DEF Init
  <2>3. /\ stats \in [Clients -> Seq(StateUpTo(0))]
        /\ start_dp_wave \in [Engines -> Seq(StartUpTo(0))]
        /\ from_engine \in [Engines -> Seq(OutputUpTo(0))]
        /\ input \in [Clients -> [Engines -> Seq(InputUpTo(0))]]
    BY <1>1 DEF Init
  <2>4. \A e \in Engines : current_wave[e] = 0
    BY DEF Init
  <2> QED
    BY <2>2, <2>3, <2>4 DEF Level
<1>3. WaveIsKnown(0) /\ RunsIfTold(0)
  BY DEF Init, WaveIsKnown, RunsIfTold
<1>4. \A c \in config.clients : Informed(c)
  <2>1. \A c \in config.clients : c \in Clients
    BY WavesAssumption DEF Init
  <2> QED
    BY <2>1 DEF Init, Informed
<1> QED
  BY <1>2, <1>3, <1>4 DEF AgreeInv

LEMMA AgreementStep == WaveInv /\ AgreementInv /\ [Next]_vars => AgreementInv'
<1> SUFFICES ASSUME WaveInv, AgreementInv, [Next]_vars
             PROVE  AgreementInv'
  OBVIOUS
<1>1. TypeOK /\ ChannelTypes /\ PauseInv
  BY DEF WaveInv
<1>2. PICK n \in Nat : AgreeInv(n)
  BY DEF AgreementInv
<1>3. Level(n) /\ WaveIsKnown(n) /\ RunsIfTold(n) /\ \A c \in config.clients : Informed(c)
  BY <1>2 DEF AgreeInv
<1>4. \A c \in config.clients : Informed(c)'
  BY <1>1, <1>3, InformedStep
<1>5. \A c \in config'.clients : Informed(c)'
  BY <1>4, ConfigStays
<1>6. /\ IF EndsWave THEN Level(n + 1)' ELSE Level(n)'
      /\ IF EndsWave THEN WaveIsKnown(n + 1)' ELSE WaveIsKnown(n)'
      /\ IF EndsWave THEN RunsIfTold(n + 1)' ELSE RunsIfTold(n)'
  BY <1>1, <1>3, LevelStep, KnownStep, RunsStep
<1>7. CASE EndsWave
  <2>1. AgreeInv(n + 1)'
    BY <1>5, <1>6, <1>7 DEF AgreeInv
  <2>2. n + 1 \in Nat
    OBVIOUS
  <2> QED
    BY <2>1, <2>2 DEF AgreementInv
<1>8. CASE ~ EndsWave
  <2>1. AgreeInv(n)'
    BY <1>5, <1>6, <1>8 DEF AgreeInv
  <2> QED
    BY <2>1 DEF AgreementInv
<1> QED
  BY <1>7, <1>8

\* With nothing on its way, everybody has heard.
LEMMA AgreementMeans == WaveInv /\ AgreementInv => WavesAgree
<1> SUFFICES ASSUME WaveInv, AgreementInv, Quiet, pauses = 0
             PROVE  /\ \A e \in Engines : current_wave[e] = coord.wave
                    /\ ~ coord.running
                    /\ \A c \in config.clients : client[c] = coord
  BY DEF WavesAgree
<1>1. PICK n \in Nat : AgreeInv(n)
  BY DEF AgreementInv
<1>2. /\ TypeOK /\ 0 \in Engines /\ config.clients \subseteq Clients
      /\ coord \in [wave : Nat, running : BOOLEAN]
      /\ client \in [Clients -> [wave : Nat, running : BOOLEAN]]
  BY ConfigTypes, WavesAssumption DEF WaveInv, TypeOK
<1>3. \A S : ~ Some(<< >>, S)
  BY DEF Some
<1>4. coord.wave = n /\ \A e \in Engines : current_wave[e] = n
  BY <1>1, <1>2, <1>3 DEF AgreeInv, Level, WaveIsKnown, Quiet
<1>5. \A e \in Engines : ~ WillRun(e, n)
  BY <1>3 DEF WillRun, Quiet, has_work
<1>6. ~ coord.running
  BY <1>1, <1>4, <1>5 DEF AgreeInv, RunsIfTold
<1>7. ASSUME NEW c \in config.clients
      PROVE  client[c] = coord
  <2>1. c \in Clients /\ client[c] \in [wave : Nat, running : BOOLEAN]
    BY <1>2
  <2>2. client[c].wave = coord.wave /\ client[c].running = coord.running
    BY <1>1, <2>1 DEF AgreeInv, Informed, Quiet
  <2> QED
    BY <1>2, <2>1, <2>2
<1> QED
  BY <1>4, <1>6, <1>7

\* WavesAlwaysAgree: with any number of engines, front-ends and requests, whatever races the
\* end of a wave, engines, coordinator and front-ends agree, once all is quiet, that the
\* engines are stopped and on the number of the next wave, as long as nobody has paused.
THEOREM WavesAlwaysAgree == Spec => []WavesAgree
<1>1. Init => WaveInv /\ AgreementInv
  BY WaveInvInit, AgreementInit
<1>2. WaveInv /\ AgreementInv /\ [Next]_vars => WaveInv' /\ AgreementInv'
  BY WaveInvStep, AgreementStep
<1> QED
  BY <1>1, <1>2, AgreementMeans, PTL DEF Spec
=============================================================================
