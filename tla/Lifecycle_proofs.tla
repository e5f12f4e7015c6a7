-------------------------- MODULE Lifecycle_proofs --------------------------
(***************************************************************************)
(* What Run and Stop guarantee under any scheduling of the goroutines, for *)
(* any number of terms, with any of the elections.                         *)
(***************************************************************************)
EXTENDS Lifecycle, TLAPS

Pcs == {"idle", "etcd.Run", "etcd.Make", "dns.Run", "dns.Make", "dns.Stop",
        "dns.SendSync", "dns.SendLb", "dns.Stopped", "etcd.Stop", "etcd.Wait",
        "return", "done"}

(* A loop is spawned after its channel was made, and has one to close.     *)
ChannelsMade ==
    \A k \in Loop : \A g \in Generation :
        loop[k][g] # "none" => runs[ControllerOf(k)] # 0

TypeInv == Typed /\ ChannelsMade

LEMMA Names ==
    /\ "dns" \in Controller /\ "etcd" \in Controller
    /\ \A c \in Controller : LoopsOf(c) \subseteq Loop
    /\ \A k \in Loop : ControllerOf(k) \in Controller
    /\ \A c \in Controller : \A k \in LoopsOf(c) : ControllerOf(k) = c
BY DEF Controller, LoopsOf, Loop, ControllerOf

(* The channel a field holds is nil or one that was made.                  *)
LEMMA RunsType ==
    ASSUME Typed, NEW c \in Controller
    PROVE  /\ runs[c] \in 0..MaxRuns
           /\ runs[c] # 0 => runs[c] \in Generation
BY ConstantsAssumption DEF Typed, Generation

(* A step of the election changes nothing of the controllers.              *)
LEMMA ElectionTypeInv ==
    TypeInv /\ (RaftChange \/ LeaseGained \/ LeaseLost \/ Signal \/ Killed)
        => TypeInv'
<1> SUFFICES ASSUME TypeInv,
                    RaftChange \/ LeaseGained \/ LeaseLost \/ Signal \/ Killed
             PROVE  TypeInv'
  OBVIOUS
<1>0. /\ inbox \in [Caller -> {"none", "start", "stop"}]
      /\ leading \in BOOLEAN
      /\ changes \in Nat
      /\ process \in {"up", "panicked", "exited"}
  BY DEF TypeInv, Typed
<1>1. inbox' \in [Caller -> {"none", "start", "stop"}]
  BY <1>0 DEF RaftChange, LeaseGained, LeaseLost, Signal, Killed, Tell, callVars
<1>2. leading' \in BOOLEAN
  BY <1>0 DEF RaftChange, LeaseGained, LeaseLost, Signal, Killed,
              LeadershipChanges, envVars
<1>3. changes' \in Nat
  BY <1>0 DEF RaftChange, LeaseGained, LeaseLost, Signal, Killed,
              LeadershipChanges, envVars
<1>4. process' \in {"up", "panicked", "exited"}
  BY <1>0 DEF RaftChange, LeaseGained, LeaseLost, Signal, Killed, Tell
<1>5. UNCHANGED <<ctrlVars, loopVars, sendVars, pc, sendsOn, election>>
  BY DEF RaftChange, LeaseGained, LeaseLost, Signal, Killed, Tell, callVars,
         envVars
<1> QED
  BY <1>1, <1>2, <1>3, <1>4, <1>5
     DEF TypeInv, Typed, ChannelsMade, ctrlVars, loopVars, sendVars

(* New channels: the loops have theirs, and the others keep what they had. *)
LEMMA MakeTypeInv ==
    ASSUME TypeInv, NEW a \in Caller, NEW c \in Controller, MakeChannels(a, c)
    PROVE  TypeInv'
<1> DEFINE n == NewChannel(c)
<1>0. /\ runs \in [Controller -> 0..MaxRuns]
      /\ loop \in [Loop -> [Generation ->
            {"none", "spawned", "select", "working", "told", "leaving"}]]
      /\ pc \in [Caller -> Pcs]
  BY DEF TypeInv, Typed, Pcs
<1>1. /\ pc' = [pc EXCEPT ![a] = AfterRun(c)]
      /\ UNCHANGED <<running, waitsOn, started, sendVars, sendsOn, inbox, envVars,
                     process>>
      /\ runs' = [runs EXCEPT ![c] = n]
      /\ loop' = [k \in Loop |->
            IF k \in LoopsOf(c) THEN [loop[k] EXCEPT ![n] = "spawned"]
                                ELSE loop[k]]
      /\ n \in Generation
  BY DEF MakeChannels, Move
<1>2. n \in 0..MaxRuns /\ n # 0
  BY <1>1, ConstantsAssumption DEF Generation
<1> HIDE DEF n
<1>3. pc' \in [Caller -> Pcs]
  BY <1>0, <1>1 DEF AfterRun, Pcs
<1>4. runs' \in [Controller -> 0..MaxRuns]
  BY <1>0, <1>1, <1>2
<1>5. loop' \in [Loop -> [Generation ->
            {"none", "spawned", "select", "working", "told", "leaving"}]]
  BY <1>0, <1>1
<1>6. \A d \in Controller : runs[d] # 0 => runs'[d] # 0
  BY <1>0, <1>1, <1>2
<1>7. ChannelsMade'
  <2> SUFFICES ASSUME NEW k \in Loop, NEW g \in Generation, loop'[k][g] # "none"
               PROVE  runs'[ControllerOf(k)] # 0
    BY DEF ChannelsMade
  <2>1. CASE k \in LoopsOf(c)
    BY <1>0, <1>1, <1>2, <2>1, Names
  <2>2. CASE k \notin LoopsOf(c)
    <3>1. loop'[k] = loop[k]
      BY <1>1, <2>2
    <3> QED
      BY <1>6, <3>1, Names DEF TypeInv, ChannelsMade
  <2> QED
    BY <2>1, <2>2
<1>8. Typed'
  BY <1>1, <1>3, <1>4, <1>5 DEF TypeInv, Typed, Pcs, sendVars, envVars
<1> QED
  BY <1>7, <1>8 DEF TypeInv

(* Steps of a caller that make no channel and wake no loop.                *)
LEMMA CallerKeeps ==
    ASSUME TypeInv, NEW a \in Caller, NEW from,
           NEW to \in Pcs,
           Move(a, from, to),
           UNCHANGED <<runs, waitsOn, started, closed, changes, election>>,
           running' \in [Controller -> BOOLEAN],
           loop' \in [Loop -> [Generation ->
                {"none", "spawned", "select", "working", "told", "leaving"}]],
           \A k \in Loop : \A g \in Generation :
                loop'[k][g] # "none" => loop[k][g] # "none",
           spawned' \in [Loop -> Nat], sending' = sending,
           inbox' \in [Caller -> {"none", "start", "stop"}],
           leading' \in BOOLEAN,
           process' \in {"up", "panicked", "exited"},
           sendsOn' = sendsOn \/ sendsOn' = [sendsOn EXCEPT ![a] = runs["dns"]]
    PROVE  TypeInv'
<1>0. Typed /\ runs["dns"] \in 0..MaxRuns
  BY RunsType, Names DEF TypeInv
<1>1. pc' \in [Caller -> Pcs]
  BY <1>0 DEF Move, Typed, Pcs
<1>2. sendsOn' \in [Caller -> 0..MaxRuns]
  BY <1>0 DEF Typed
<1>3. ChannelsMade'
  BY DEF TypeInv, ChannelsMade
<1>4. Typed'
  BY <1>0, <1>1, <1>2 DEF Typed, Pcs
<1> QED
  BY <1>3, <1>4 DEF TypeInv

LEMMA DNSSendTypeInv ==
    ASSUME TypeInv, NEW a \in Caller, NEW k \in LoopsOf("dns"), DNSSend(a, k)
    PROVE  TypeInv'
<1>0. /\ Typed /\ k \in Loop
      /\ SendTo(k) \in Pcs /\ AfterSend(k) \in Pcs
  BY Names DEF TypeInv, SendTo, AfterSend, Pcs
<1>2. UNCHANGED <<ctrlVars, waitsOn, started, sendVars, inbox, envVars>>
  BY DEF DNSSend
<1>3. CASE <<k, sendsOn[a]>> \in closed
  <2>1. /\ Move(a, SendTo(k), SendTo(k))
        /\ process' = "panicked"
        /\ UNCHANGED <<loop, sendsOn>>
    BY <1>3 DEF DNSSend, Panic
  <2> QED
    BY <1>0, <1>2, <2>1, CallerKeeps
       DEF Typed, ctrlVars, sendVars, envVars
<1>4. CASE <<k, sendsOn[a]>> \notin closed
  <2>1. /\ Move(a, SendTo(k), AfterSend(k))
        /\ sendsOn' = [sendsOn EXCEPT ![a] = runs["dns"]]
        /\ UNCHANGED process
    BY <1>4 DEF DNSSend
  <2>2. PICK g \in Generation : /\ loop[k][g] = "select"
                                /\ loop' = [loop EXCEPT ![k][g] = "told"]
    BY <1>4 DEF DNSSend, Told
  <2>3. /\ loop' \in [Loop -> [Generation ->
              {"none", "spawned", "select", "working", "told", "leaving"}]]
        /\ \A j \in Loop : \A h \in Generation :
                loop'[j][h] # "none" => loop[j][h] # "none"
    BY <1>0, <2>2 DEF Typed
  <2> QED
    BY <1>0, <1>2, <2>1, <2>3, CallerKeeps
       DEF Typed, ctrlVars, sendVars, envVars
<1> QED
  BY <1>3, <1>4

(* A caller's other steps change no loop.                                  *)
LEMMA CallerTypeInv ==
    ASSUME TypeInv, NEW a \in Caller, CallerStep(a)
    PROVE  TypeInv'
<1>0. Typed
  BY DEF TypeInv
<1>6. CASE \E c \in Controller : Run(a, c)
  <2>1. PICK c \in Controller : Run(a, c)
    BY <1>6
  <2>2. RunOf(c) \in Pcs /\ MakeOf(c) \in Pcs /\ AfterRun(c) \in Pcs
    BY DEF RunOf, MakeOf, AfterRun, Pcs
  <2>3. running' \in [Controller -> BOOLEAN]
    BY <1>0, <2>1 DEF Run, Typed
  <2> QED
    BY <1>0, <2>1, <2>2, <2>3, CallerKeeps
       DEF Run, Typed, loopVars, sendVars, envVars
<1>1. CASE Take(a)
  <2>1. inbox' \in [Caller -> {"none", "start", "stop"}]
    BY <1>0, <1>1 DEF Take, Typed
  <2> QED
    BY <1>0, <1>1, <2>1, CallerKeeps
       DEF Take, Typed, Pcs, ctrlVars, loopVars, sendVars, envVars
<1>2. CASE DNSStop(a)
  BY <1>0, <1>2, CallerKeeps
     DEF DNSStop, SendTo, Typed, Pcs, ctrlVars, loopVars, sendVars, envVars
<1>3. CASE DNSStopped(a) \/ ETCDStopped(a)
  <2>1. running' \in [Controller -> BOOLEAN]
    BY <1>0, <1>3 DEF DNSStopped, ETCDStopped, Typed
  <2> QED
    BY <1>0, <1>3, <2>1, CallerKeeps
       DEF DNSStopped, ETCDStopped, Typed, Pcs, loopVars, sendVars, envVars
<1>4. CASE ETCDStop(a)
  <2>1. spawned' \in [Loop -> Nat]
    BY <1>0, <1>4 DEF ETCDStop, Typed
  <2> QED
    BY <1>0, <1>4, <2>1, CallerKeeps
       DEF ETCDStop, Typed, Pcs, ctrlVars, loopVars, envVars
<1>5. CASE Return(a)
  <2>1. inbox' \in [Caller -> {"none", "start", "stop"}]
    BY <1>0, <1>5 DEF Return, Typed
  <2>2. leading' \in BOOLEAN
    BY <1>0, <1>5 DEF Return, Typed
  <2> QED
    BY <1>0, <1>5, <2>1, <2>2, CallerKeeps
       DEF Return, Typed, Pcs, ctrlVars, loopVars, sendVars
<1> QED
  BY <1>1, <1>2, <1>3, <1>4, <1>5, <1>6, MakeTypeInv DEF CallerStep

(* Steps of the goroutines start no loop and leave the callers alone.      *)
LEMMA GoroutineKeeps ==
    ASSUME TypeInv,
           UNCHANGED <<ctrlVars, callVars, envVars>>,
           loop' \in [Loop -> [Generation ->
                {"none", "spawned", "select", "working", "told", "leaving"}]],
           \A k \in Loop : \A g \in Generation :
                loop'[k][g] # "none" => loop[k][g] # "none",
           waitsOn' \in [Loop -> [Generation -> 0..MaxRuns]],
           started' \in [LoopsOf("etcd") -> BOOLEAN],
           closed' \in SUBSET (Loop \X Generation),
           spawned' \in [Loop -> Nat],
           sending' \in [Loop -> [Generation -> Nat]],
           process' \in {"up", "panicked", "exited"}
    PROVE  TypeInv'
<1>1. ChannelsMade'
  BY DEF TypeInv, ChannelsMade, ctrlVars
<1>2. Typed'
  BY DEF TypeInv, Typed, ctrlVars, callVars, envVars
<1> QED
  BY <1>1, <1>2 DEF TypeInv

(* A loop moves from stage to stage, and nothing else of it changes.       *)
LEMMA AdvanceType ==
    ASSUME Typed, NEW k \in Loop, NEW g \in Generation, NEW from,
           NEW to \in {"none", "spawned", "select", "working", "told", "leaving"},
           Advance(k, g, from, to), "none" \notin from
    PROVE  /\ loop' \in [Loop -> [Generation ->
                {"none", "spawned", "select", "working", "told", "leaving"}]]
           /\ \A j \in Loop : \A h \in Generation :
                loop'[j][h] # "none" => loop[j][h] # "none"
BY DEF Advance, Typed

LEMMA LoopTypeInv ==
    ASSUME TypeInv, NEW k \in Loop, NEW g \in Generation,
           LoopStep(k, g) \/ Work(k, g)
    PROVE  TypeInv'
<1>0. Typed
  BY DEF TypeInv
<1>1. CASE EnterSelect(k, g)
  <2>1. waitsOn' \in [Loop -> [Generation -> 0..MaxRuns]]
    <3>1. runs[ControllerOf(k)] \in 0..MaxRuns
      BY <1>0, RunsType, Names
    <3> QED
      BY <1>0, <1>1, <3>1 DEF EnterSelect, Typed
  <2>2. started' \in [LoopsOf("etcd") -> BOOLEAN]
    BY <1>0, <1>1 DEF EnterSelect, Typed
  <2>3. PICK to \in {"told", "select"} :
           Advance(k, g, {"spawned", "working"}, to)
    BY <1>1 DEF EnterSelect
  <2> QED
    BY <1>0, <1>1, <2>1, <2>2, <2>3, AdvanceType, GoroutineKeeps
       DEF EnterSelect, Typed, sendVars
<1>2. CASE Work(k, g)
  BY <1>0, <1>2, AdvanceType, GoroutineKeeps DEF Work, Typed, sendVars
<1>3. CASE CloseChannel(k, g)
  <2>1. runs[ControllerOf(k)] \in Generation
    <3>1. loop[k][g] # "none"
      BY <1>3 DEF CloseChannel
    <3> QED
      BY <1>0, <3>1, RunsType, Names DEF TypeInv, ChannelsMade
  <2>2. closed' \in SUBSET (Loop \X Generation)
    BY <1>0, <1>3, <2>1 DEF CloseChannel, Typed
  <2>3. process' \in {"up", "panicked", "exited"}
    BY <1>0, <1>3 DEF CloseChannel, Panic, Typed
  <2>4. /\ loop' \in [Loop -> [Generation ->
              {"none", "spawned", "select", "working", "told", "leaving"}]]
        /\ \A j \in Loop : \A h \in Generation :
                loop'[j][h] # "none" => loop[j][h] # "none"
    BY <1>0, <1>3 DEF CloseChannel, Typed
  <2> QED
    BY <1>0, <1>3, <2>2, <2>3, <2>4, GoroutineKeeps
       DEF CloseChannel, Typed
<1>4. CASE LoopReturns(k, g)
  <2>1. started' \in [LoopsOf("etcd") -> BOOLEAN]
    BY <1>0, <1>4 DEF LoopReturns, Typed
  <2> QED
    BY <1>0, <1>4, <2>1, AdvanceType, GoroutineKeeps
       DEF LoopReturns, Typed, sendVars
<1> QED
  BY <1>1, <1>2, <1>3, <1>4 DEF LoopStep

LEMMA SenderTypeInv ==
    ASSUME TypeInv, NEW k \in LoopsOf("etcd"),
           SenderStarts(k) \/ \E n \in Generation : ETCDSend(k, n)
    PROVE  TypeInv'
<1>0. Typed /\ k \in Loop
  BY Names DEF TypeInv
<1>1. CASE SenderStarts(k)
  <2>1. spawned' \in [Loop -> Nat]
    BY <1>0, <1>1 DEF SenderStarts, Typed
  <2>2. sending' \in [Loop -> [Generation -> Nat]]
    <3> DEFINE n == runs["etcd"]
    <3>1. \/ sending' = sending
          \/ sending' = [sending EXCEPT ![k] = [sending[k] EXCEPT ![n] = @ + 1]]
      BY <1>1 DEF SenderStarts
    <3>2. sending[k] \in [Generation -> Nat]
      BY <1>0 DEF Typed
    <3> HIDE DEF n
    <3>3. [sending[k] EXCEPT ![n] = @ + 1] \in [Generation -> Nat]
      <4>1. CASE n \in Generation
        BY <3>2, <4>1
      <4>2. CASE n \notin Generation
        <5>1. [sending[k] EXCEPT ![n] = @ + 1] = sending[k]
          BY <3>2, <4>2
        <5> QED
          BY <3>2, <5>1
      <4> QED
        BY <4>1, <4>2
    <3> QED
      BY <1>0, <3>1, <3>3 DEF Typed
  <2> QED
    BY <1>0, <1>1, <2>1, <2>2, GoroutineKeeps
       DEF SenderStarts, Typed, loopVars
<1>2. ASSUME NEW n \in Generation, ETCDSend(k, n) PROVE TypeInv'
  <2>0. UNCHANGED <<ctrlVars, waitsOn, started, closed, spawned, callVars, envVars>>
    BY <1>2 DEF ETCDSend
  <2>1. CASE <<k, n>> \in closed
    BY <1>0, <1>2, <2>0, <2>1, GoroutineKeeps DEF ETCDSend, Panic, Typed
  <2>2. CASE <<k, n>> \notin closed
    <3>1. PICK g \in Generation : /\ loop[k][g] = "select"
                                  /\ loop' = [loop EXCEPT ![k][g] = "told"]
      BY <1>2, <2>2 DEF ETCDSend, Told
    <3>2. /\ loop' \in [Loop -> [Generation ->
                {"none", "spawned", "select", "working", "told", "leaving"}]]
          /\ \A j \in Loop : \A h \in Generation :
                loop'[j][h] # "none" => loop[j][h] # "none"
      BY <1>0, <3>1 DEF Typed
    <3>3. sending' \in [Loop -> [Generation -> Nat]]
      <4>1. sending' = [sending EXCEPT ![k] = [sending[k] EXCEPT ![n] = @ - 1]]
        BY <1>2, <2>2 DEF ETCDSend
      <4>2. sending[k] \in [Generation -> Nat] /\ sending[k][n] > 0
        BY <1>0, <1>2 DEF Typed, ETCDSend
      <4>3. [sending[k] EXCEPT ![n] = @ - 1] \in [Generation -> Nat]
        BY <4>2
      <4> QED
        BY <1>0, <4>1, <4>3 DEF Typed
    <3> QED
      BY <1>0, <1>2, <2>0, <2>2, <3>2, <3>3, GoroutineKeeps
         DEF ETCDSend, Typed
  <2> QED
    BY <2>1, <2>2
<1> QED
  BY <1>1, <1>2

LEMMA InitTypeInv == Init => TypeInv
<1> SUFFICES ASSUME Init PROVE TypeInv
  OBVIOUS
<1>1. Typed
  <2>1. 0 \in 0..MaxRuns
    BY ConstantsAssumption
  <2>2. /\ running \in [Controller -> BOOLEAN]
        /\ runs \in [Controller -> 0..MaxRuns]
        /\ started \in [LoopsOf("etcd") -> BOOLEAN]
        /\ loop \in [Loop -> [Generation ->
              {"none", "spawned", "select", "working", "told", "leaving"}]]
        /\ waitsOn \in [Loop -> [Generation -> 0..MaxRuns]]
    BY <2>1 DEF Init
  <2>3. /\ spawned \in [Loop -> Nat]
        /\ sending \in [Loop -> [Generation -> Nat]]
        /\ sendsOn \in [Caller -> 0..MaxRuns]
        /\ inbox \in [Caller -> {"none", "start", "stop"}]
    BY <2>1 DEF Init
  <2>4. pc \in [Caller -> Pcs]
    BY DEF Init, Pcs
  <2> QED
    BY <2>2, <2>3, <2>4, ConstantsAssumption DEF Init, Typed, Pcs
<1>2. ChannelsMade
  BY DEF Init, ChannelsMade
<1> QED
  BY <1>1, <1>2 DEF TypeInv

LEMMA NextTypeInv == TypeInv /\ [Next]_vars => TypeInv'
<1> SUFFICES ASSUME TypeInv, [Next]_vars PROVE TypeInv'
  OBVIOUS
<1>1. CASE UNCHANGED vars
  BY <1>1 DEF vars, ctrlVars, loopVars, sendVars, callVars, envVars, TypeInv,
              Typed, ChannelsMade
<1> QED
  BY <1>1, ElectionTypeInv, CallerTypeInv, DNSSendTypeInv, SenderTypeInv,
     LoopTypeInv DEF Next

-----------------------------------------------------------------------------
(* Who calls *)

(* Two callers are at work only with k8s, where OnStartedLeading,          *)
(* OnStoppedLeading and the signal handler have a goroutine each.          *)
CallersOf(e) ==
    CASE e = "raft"      -> {"consumer"}
      [] e = "singleton" -> {"main"}
      [] e = "k8s"       -> {"started", "stopped", "signal"}

OneCaller ==
    \A a \in Caller : a \notin CallersOf(election) =>
        pc[a] = "idle" /\ inbox[a] = "none"

(* What keeps callers apart: that there is only one, or that a command     *)
(* waits for the caller that is busy.                                      *)
Apart == Overlap => "k8s" \notin Election

LEMMA InitOneCaller == Init => OneCaller
BY ConstantsAssumption DEF Init, OneCaller, CallersOf, Caller

LEMMA NextOneCaller ==
    ASSUME TypeInv, OneCaller, [Next]_vars
    PROVE  OneCaller'
<1>0. /\ pc \in [Caller -> Pcs]
      /\ inbox \in [Caller -> {"none", "start", "stop"}]
      /\ election \in {"raft", "k8s", "singleton"}
  BY ConstantsAssumption DEF TypeInv, Typed, Pcs
<1>1. CASE RaftChange \/ LeaseGained \/ LeaseLost \/ Signal
  <2>1. PICK a \in CallersOf(election) : \E command :
           inbox' = [inbox EXCEPT ![a] = command]
    BY <1>1 DEF RaftChange, LeaseGained, LeaseLost, Signal, Tell, CallersOf
  <2>2. UNCHANGED <<pc, election>>
    BY <1>1 DEF RaftChange, LeaseGained, LeaseLost, Signal, Tell
  <2> QED
    BY <1>0, <2>1, <2>2 DEF OneCaller
<1>2. ASSUME NEW a \in Caller,
             CallerStep(a) \/ \E k \in LoopsOf("dns") : DNSSend(a, k)
      PROVE  OneCaller'
  <2>1. a \in CallersOf(election) /\ UNCHANGED election
    BY <1>2 DEF OneCaller, CallerStep, Take, Run, MakeChannels, RunOf, MakeOf,
       DNSStop, DNSStopped, ETCDStop, ETCDStopped, Return, DNSSend, SendTo, Move,
       envVars
  <2>2. PICK to : pc' = [pc EXCEPT ![a] = to]
    BY <1>2 DEF CallerStep, Take, Run, MakeChannels, DNSStop, DNSStopped, ETCDStop,
       ETCDStopped, Return, DNSSend, Move
  <2>3. \A b \in Caller : b \notin CallersOf(election) =>
           b # a /\ inbox'[b] = inbox[b]
    <3>1. CASE Return(a)
      <4>1. Cancels(a) => "stopped" \in CallersOf(election)
        BY <1>0, <2>1 DEF Cancels, CallersOf
      <4> QED
        BY <1>0, <2>1, <3>1, <4>1 DEF Return
    <3>2. CASE ~Return(a)
      BY <1>0, <1>2, <2>1, <3>2 DEF CallerStep, Take, Run, MakeChannels, DNSStop, DNSStopped,
         ETCDStop, ETCDStopped, DNSSend
    <3> QED
      BY <3>1, <3>2
  <2> QED
    BY <1>0, <2>1, <2>2, <2>3 DEF OneCaller
<1>3. ASSUME \/ \E k \in LoopsOf("etcd") :
                   SenderStarts(k) \/ \E n \in Generation : ETCDSend(k, n)
             \/ \E k \in Loop, g \in Generation : LoopStep(k, g) \/ Work(k, g)
             \/ Killed \/ UNCHANGED vars
      PROVE  OneCaller'
  <2>1. UNCHANGED <<pc, inbox, election>>
    BY <1>3 DEF SenderStarts, ETCDSend, LoopStep, EnterSelect,
       CloseChannel, LoopReturns, Work, Killed, vars, callVars, envVars
  <2> QED
    BY <2>1 DEF OneCaller
<1> QED
  BY <1>1, <1>2, <1>3 DEF Next

LEMMA OneCallerHolds == Spec => []OneCaller
BY InitTypeInv, NextTypeInv, InitOneCaller, NextOneCaller, PTL DEF Spec

(* A command is taken when nobody is busy.                                 *)
LEMMA NobodyBusy ==
    ASSUME Apart, Typed, OneCaller, NEW a \in Caller, Take(a)
    PROVE  \A b \in Caller : pc[b] \in {"idle", "done"}
<1>1. pc[a] = "idle" /\ inbox[a] # "none"
  BY DEF Take, Move
<1>2. CASE ~Overlap
  BY <1>2 DEF Take, MayCommand, Busy
<1>3. CASE Overlap
  <2>1. election \in {"raft", "singleton"}
    BY <1>3, ConstantsAssumption DEF Apart, Typed
  <2>2. \A b \in Caller : b # a => pc[b] = "idle"
    BY <1>1, <2>1 DEF OneCaller, CallersOf
  <2> QED
    BY <1>1, <2>2
<1> QED
  BY <1>2, <1>3 DEF Apart

-----------------------------------------------------------------------------
(* A stopped DNS controller is down *)

(* Commands are taken one at a time.                                       *)
OneBusy == \A a, b \in Caller : Busy(a) /\ Busy(b) => a = b

(* Loop k of the DNS controller is alive in the newest term only, and in   *)
(* none once it was told to stop.                                          *)
NewestOnly(k) == Live(k) \subseteq {runs["dns"]}

(* How far the caller that starts or stops the controller has come.        *)
StopProgress(a) ==
    /\ pc[a] \in {"dns.SendSync", "dns.SendLb", "dns.Stopped", "dns.Make"}
            => running["dns"]
    /\ pc[a] \in {"dns.SendLb", "dns.Stopped", "dns.Make"} => Live("sync") = {}
    /\ pc[a] \in {"dns.Stopped", "dns.Make"} => Live("lb") = {}

(* A Stop sends on a channel that was made.                                *)
SendsReady(a) ==
    pc[a] \in {"dns.SendSync", "dns.SendLb"}
        => sendsOn[a] \in Generation /\ runs["dns"] # 0

(* A controller that is not just being started has its channels.           *)
ChannelsReady == running["dns"] /\ ~Starting("dns") => runs["dns"] # 0

DownInv ==
    /\ TypeInv
    /\ OneBusy
    /\ \A k \in LoopsOf("dns") : NewestOnly(k)
    /\ StoppedDNSIsDown
    /\ ChannelsReady
    /\ \A a \in Caller : StopProgress(a) /\ SendsReady(a)

(* A step that wakes no loop, and moves no caller to or from a stop.       *)
LEMMA DownInvKept ==
    ASSUME DownInv, TypeInv', OneBusy',
           \A k \in LoopsOf("dns") : Live(k)' \subseteq Live(k),
           UNCHANGED <<ctrlVars, sendsOn>>,
           \A a \in Caller :
               \/ pc'[a] = pc[a]
               \/ /\ pc[a] # "dns.Make"
                  /\ pc'[a] \notin {"dns.SendSync", "dns.SendLb", "dns.Stopped",
                                    "dns.Make"}
    PROVE  DownInv'
<1>1. \A k \in LoopsOf("dns") : NewestOnly(k)'
  BY DEF DownInv, NewestOnly, ctrlVars
<1>2. StoppedDNSIsDown'
  BY DEF DownInv, StoppedDNSIsDown, ctrlVars
<1>3. \A a \in Caller : StopProgress(a)'
  BY DEF DownInv, StopProgress, LoopsOf, ctrlVars
<1>4. \A a \in Caller : SendsReady(a)'
  BY DEF DownInv, SendsReady, ctrlVars
<1>5. ChannelsReady'
  BY DEF DownInv, ChannelsReady, Starting, MakeOf, ctrlVars
<1> QED
  BY <1>1, <1>2, <1>3, <1>4, <1>5 DEF DownInv

(* A caller that is busy is the only one, and stays the only one.          *)
LEMMA MoveOneBusy ==
    ASSUME TypeInv, OneBusy, NEW a \in Caller, Busy(a), NEW from, NEW to,
           Move(a, from, to)
    PROVE  OneBusy'
BY DEF OneBusy, Busy, Move, TypeInv, Typed

LEMMA TakeDownInv ==
    ASSUME Apart, OneCaller, DownInv, TypeInv', NEW a \in Caller, Take(a)
    PROVE  DownInv'
<1>0. \A b \in Caller : pc[b] \in {"idle", "done"}
  BY NobodyBusy DEF DownInv, TypeInv
<1>1. OneBusy'
  BY <1>0 DEF Take, Move, OneBusy, Busy, DownInv, TypeInv, Typed
<1>2. \A k \in LoopsOf("dns") : Live(k)' = Live(k)
  BY DEF Take, Live, loopVars
<1> QED
  BY <1>1, <1>2, DownInvKept DEF Take, Move, DownInv, TypeInv, Typed

(* The controller is marked as running while nothing of it runs.           *)
LEMMA RunDownInv ==
    ASSUME DownInv, TypeInv', NEW a \in Caller, NEW c \in Controller, Run(a, c)
    PROVE  DownInv'
<1>0. Typed /\ Busy(a) /\ pc[a] = RunOf(c)
  BY DEF Run, Move, Busy, RunOf, DownInv, TypeInv
<1>1. OneBusy'
  BY <1>0, MoveOneBusy DEF Run, DownInv
<1>2. UNCHANGED <<runs, sendsOn>> /\ \A k \in LoopsOf("dns") : Live(k)' = Live(k)
  BY DEF Run, Live, loopVars
<1>3. CASE c = "dns" /\ MayRun(c)
  <2>1. pc' = [pc EXCEPT ![a] = "dns.Make"] /\ running'["dns"]
    BY <1>0, <1>3 DEF Run, Move, MakeOf, Typed, Controller
  <2>2. \A k \in LoopsOf("dns") : Live(k)' = {}
    BY <1>2, <1>3 DEF MayRun, DownInv, StoppedDNSIsDown
  <2>3. \A b \in Caller : b # a => pc'[b] \in {"idle", "done"}
    BY <1>0, <2>1 DEF DownInv, OneBusy, Busy, Typed
  <2>4. pc'[a] = "dns.Make"
    BY <1>0, <2>1 DEF Typed
  <2>5. \A b \in Caller : StopProgress(b)' /\ SendsReady(b)'
    BY <2>1, <2>2, <2>3, <2>4 DEF StopProgress, SendsReady, LoopsOf
  <2>6. Starting("dns")'
    BY <2>4 DEF Starting, MakeOf
  <2> QED
    BY <1>1, <2>1, <2>2, <2>5, <2>6
       DEF DownInv, NewestOnly, StoppedDNSIsDown, ChannelsReady
<1>4. CASE ~(c = "dns" /\ MayRun(c))
  <2>1. running'["dns"] = running["dns"]
    BY <1>0, <1>4 DEF Run, Controller, Typed
  <2>2. PICK to \in {"etcd.Make", "dns.Run", "idle"} :
           pc' = [pc EXCEPT ![a] = to]
    BY <1>4 DEF Run, Move, MakeOf, AfterRun, Controller
  <2>3. \A b \in Caller :
           \/ pc'[b] = pc[b]
           \/ /\ pc[b] # "dns.Make"
              /\ pc'[b] \notin {"dns.SendSync", "dns.SendLb", "dns.Stopped",
                                "dns.Make"}
    BY <1>0, <2>2 DEF RunOf, Typed
  <2>4. \A b \in Caller : StopProgress(b)' /\ SendsReady(b)'
    BY <1>2, <2>1, <2>3 DEF DownInv, StopProgress, SendsReady, LoopsOf
  <2>5. Starting("dns")' <=> Starting("dns")
    BY <2>3 DEF Starting, MakeOf
  <2> QED
    BY <1>1, <1>2, <2>1, <2>4, <2>5
       DEF DownInv, NewestOnly, StoppedDNSIsDown, ChannelsReady
<1> QED
  BY <1>3, <1>4

(* The new loops are the only ones.                                        *)
LEMMA MakeDownInv ==
    ASSUME DownInv, TypeInv', NEW a \in Caller, NEW c \in Controller,
           MakeChannels(a, c)
    PROVE  DownInv'
<1>0. /\ Typed /\ Busy(a) /\ pc[a] = MakeOf(c)
      /\ running' = running /\ sendsOn' = sendsOn
      /\ NewChannel(c) \in Generation
  BY DEF MakeChannels, Move, Busy, MakeOf, DownInv, TypeInv
<1>1. OneBusy'
  BY <1>0, MoveOneBusy DEF MakeChannels, DownInv
<1>2. \A b \in Caller : pc'[b] \in {"idle", "done", "dns.Run"}
  BY <1>0 DEF DownInv, OneBusy, Busy, MakeChannels, Move, AfterRun, Typed
<1>3. ~Starting("dns")' /\ \A b \in Caller : StopProgress(b)' /\ SendsReady(b)'
  BY <1>2 DEF Starting, MakeOf, StopProgress, SendsReady
<1>4. CASE c = "dns"
  <2>1. runs'["dns"] = NewChannel("dns") /\ running["dns"]
    BY <1>0, <1>4 DEF MakeChannels, MakeOf, Typed, DownInv, StopProgress
  <2>2. \A k \in LoopsOf("dns") : Live(k) = {}
    BY <1>0, <1>4 DEF MakeOf, DownInv, StopProgress, LoopsOf
  <2>3. \A k \in LoopsOf("dns") :
           loop'[k] = [loop[k] EXCEPT ![NewChannel("dns")] = "spawned"]
    BY <1>4 DEF MakeChannels, LoopsOf, Loop
  <2>4. \A k \in LoopsOf("dns") : Live(k)' \subseteq {NewChannel("dns")}
    BY <1>0, <2>2, <2>3 DEF Live, Typed, LoopsOf, Loop
  <2>5. NewChannel("dns") # 0
    BY <1>0, <1>4 DEF Generation
  <2> QED
    BY <1>0, <1>1, <1>3, <2>1, <2>4, <2>5
       DEF DownInv, NewestOnly, StoppedDNSIsDown, ChannelsReady
<1>5. CASE c # "dns"
  <2>1. runs'["dns"] = runs["dns"]
    BY <1>0, <1>5 DEF MakeChannels, Controller, Typed
  <2>2. \A k \in LoopsOf("dns") : loop'[k] = loop[k]
    BY <1>0, <1>5 DEF MakeChannels, LoopsOf, Loop, Controller, Typed
  <2>3. \A k \in LoopsOf("dns") : Live(k)' = Live(k)
    BY <2>2 DEF Live
  <2>4. ~Starting("dns")
    BY <1>0, <1>5 DEF Starting, MakeOf, DownInv, OneBusy, Busy, Controller
  <2> QED
    BY <1>0, <1>1, <1>3, <2>1, <2>3, <2>4
       DEF DownInv, NewestOnly, StoppedDNSIsDown, ChannelsReady
<1> QED
  BY <1>4, <1>5

(* The token reaches the one loop there is.                                *)
LEMMA DNSSendDownInv ==
    ASSUME DownInv, TypeInv', NEW a \in Caller, NEW k \in LoopsOf("dns"),
           DNSSend(a, k)
    PROVE  DownInv'
<1>0. Typed /\ Busy(a) /\ pc[a] = SendTo(k)
  BY DEF DNSSend, Move, Busy, SendTo, DownInv, TypeInv
<1>1. OneBusy'
  BY <1>0, MoveOneBusy DEF DNSSend, DownInv
<1>2. CASE UNCHANGED loop
  <2>1. pc' = [pc EXCEPT ![a] = SendTo(k)]
    BY <1>0, <1>2 DEF DNSSend, Move, Told, Typed, LoopsOf, Loop
  <2>2. \A j \in LoopsOf("dns") : Live(j)' = Live(j)
    BY <1>2 DEF Live
  <2>3. UNCHANGED <<ctrlVars, sendsOn>>
    BY <1>0, <1>2 DEF DNSSend, Told, Typed, LoopsOf, Loop
  <2>4. \A b \in Caller : pc'[b] = pc[b]
    BY <1>0, <2>1 DEF Typed
  <2> QED
    BY <1>1, <2>2, <2>3, <2>4, DownInvKept
<1>3. CASE loop' # loop
  <2>1. PICK g \in Generation : /\ loop[k][g] = "select"
                                /\ loop' = [loop EXCEPT ![k][g] = "told"]
    BY <1>3 DEF DNSSend, Told
  <2>2. k \in Loop /\ (\A j \in LoopsOf("dns") : j \in Loop)
    BY DEF LoopsOf, Loop
  <2>3. Live(k) = {g}
    BY <2>1 DEF DownInv, NewestOnly, Live
  <2>4. Live(k)' = {}
    BY <1>0, <2>1, <2>2, <2>3 DEF Live, Typed
  <2>5. \A j \in LoopsOf("dns") : j # k => Live(j)' = Live(j)
    BY <1>0, <2>1, <2>2 DEF Live, Typed
  <2>6. \A j \in LoopsOf("dns") : Live(j)' \subseteq Live(j)
    BY <2>4, <2>5
  <2>7. pc' = [pc EXCEPT ![a] = AfterSend(k)] /\ UNCHANGED ctrlVars
    BY <1>3 DEF DNSSend, Move
  <2>8. running["dns"]
    BY <1>0 DEF DownInv, StopProgress, SendTo
  <2>9. \A j \in LoopsOf("dns") : NewestOnly(j)'
    BY <2>6, <2>7 DEF DownInv, NewestOnly, ctrlVars
  <2>10. StopProgress(a)'
    <3>1. CASE k = "sync"
      BY <1>0, <2>4, <2>7, <2>8, <3>1
         DEF StopProgress, AfterSend, SendTo, ctrlVars, Typed
    <3>2. CASE k = "lb"
      <4>1. Live("sync")' = {}
        BY <1>0, <2>6, <3>2 DEF DownInv, StopProgress, SendTo, LoopsOf
      <4> QED
        BY <1>0, <2>4, <2>7, <2>8, <3>2, <4>1
           DEF StopProgress, AfterSend, SendTo, ctrlVars, Typed
    <3> QED
      BY <3>1, <3>2 DEF LoopsOf
  <2>11. \A b \in Caller : b # a => pc'[b] \in {"idle", "done"}
    BY <1>0, <2>7 DEF DownInv, OneBusy, Busy, Typed
  <2>12. \A b \in Caller : b # a => StopProgress(b)' /\ SendsReady(b)'
    BY <2>11 DEF StopProgress, SendsReady
  <2>13. SendsReady(a)' /\ ChannelsReady'
    <3>1. runs["dns"] # 0 /\ runs["dns"] \in Generation
      BY <1>0, RunsType, Names DEF DownInv, SendsReady, SendTo
    <3>2. sendsOn'[a] = runs["dns"]
      BY <1>0, <1>3 DEF DNSSend, Typed
    <3> QED
      BY <2>7, <3>1, <3>2 DEF SendsReady, ChannelsReady, ctrlVars
  <2> QED
    BY <1>1, <2>7, <2>8, <2>9, <2>10, <2>12, <2>13
       DEF DownInv, StoppedDNSIsDown, ctrlVars
<1> QED
  BY <1>2, <1>3

LEMMA StopDownInv ==
    ASSUME DownInv, TypeInv', NEW a \in Caller,
           \/ DNSStop(a) \/ DNSStopped(a) \/ ETCDStop(a) \/ ETCDStopped(a)
           \/ Return(a)
    PROVE  DownInv'
<1>0. Typed /\ Busy(a)
  BY DEF DNSStop, DNSStopped, ETCDStop, ETCDStopped, Return, Move, Busy, DownInv,
         TypeInv
<1>1. OneBusy'
  BY <1>0, MoveOneBusy
     DEF DNSStop, DNSStopped, ETCDStop, ETCDStopped, Return, DownInv
<1>2. \A k \in LoopsOf("dns") : Live(k)' = Live(k)
  BY DEF DNSStop, DNSStopped, ETCDStop, ETCDStopped, Return, Live, loopVars
<1>3. CASE DNSStop(a)
  <2>1. UNCHANGED ctrlVars
    BY <1>3 DEF DNSStop
  <2>2. pc' = [pc EXCEPT ![a] = IF running["dns"] THEN "dns.SendSync"
                                                  ELSE "etcd.Stop"]
    BY <1>3 DEF DNSStop, Move, MayStop, SendTo
  <2>3. pc[a] = "dns.Stop"
    BY <1>3 DEF DNSStop, Move
  <2>4. \A b \in Caller : b # a => pc'[b] \in {"idle", "done"}
    BY <1>0, <2>2 DEF DownInv, OneBusy, Busy, Typed
  <2>5. \A b \in Caller : StopProgress(b)'
    BY <1>0, <1>2, <2>1, <2>2, <2>4 DEF StopProgress, ctrlVars, Typed
  <2>6. ~Starting("dns") /\ ~Starting("dns")'
    BY <1>0, <2>2, <2>3, <2>4 DEF Starting, MakeOf, DownInv, OneBusy, Busy, Typed
  <2>7. SendsReady(a)'
    <3> SUFFICES ASSUME pc'[a] \in {"dns.SendSync", "dns.SendLb"}
                 PROVE  sendsOn'[a] \in Generation /\ runs'["dns"] # 0
      BY DEF SendsReady
    <3>1. running["dns"]
      BY <1>0, <2>2 DEF Typed
    <3>2. sendsOn'[a] = runs["dns"]
      BY <1>0, <1>3, <3>1 DEF DNSStop, MayStop, Typed
    <3>3. runs["dns"] # 0 /\ runs["dns"] \in Generation
      BY <1>0, <2>6, <3>1, RunsType, Names DEF DownInv, ChannelsReady
    <3> QED
      BY <2>1, <3>2, <3>3 DEF ctrlVars
  <2>8. \A b \in Caller : SendsReady(b)'
    BY <2>4, <2>7 DEF SendsReady
  <2> QED
    BY <1>1, <1>2, <2>1, <2>5, <2>6, <2>8
       DEF DownInv, NewestOnly, StoppedDNSIsDown, ChannelsReady, ctrlVars
<1>4. CASE DNSStopped(a)
  <2>1. \A k \in LoopsOf("dns") : Live(k)' = {}
    BY <1>2, <1>4 DEF DNSStopped, Move, DownInv, StopProgress, LoopsOf
  <2>2. pc' = [pc EXCEPT ![a] = "etcd.Stop"]
    BY <1>4 DEF DNSStopped, Move
  <2>3. \A b \in Caller : pc'[b] \in {"idle", "done", "etcd.Stop"}
    BY <1>0, <2>2 DEF DownInv, OneBusy, Busy, Typed
  <2>4. ~running'["dns"]
    BY <1>0, <1>4 DEF DNSStopped, Typed, Controller
  <2> QED
    BY <1>1, <2>1, <2>3, <2>4
       DEF DownInv, NewestOnly, StoppedDNSIsDown, StopProgress, SendsReady,
           ChannelsReady
<1>5. CASE ETCDStop(a) \/ Return(a)
  <2>1. UNCHANGED <<ctrlVars, sendsOn>>
    BY <1>5 DEF ETCDStop, Return
  <2>2. pc[a] # "dns.Make" /\ \E to \in {"etcd.Wait", "return", "idle", "done"} :
           pc' = [pc EXCEPT ![a] = to]
    BY <1>5 DEF ETCDStop, Return, Move
  <2> QED
    BY <1>0, <1>1, <1>2, <2>1, <2>2, DownInvKept DEF Typed
<1>6. CASE ETCDStopped(a)
  <2>1. runs' = runs /\ running'["dns"] = running["dns"]
    BY <1>0, <1>6 DEF ETCDStopped, Typed, Controller
  <2>2. \A b \in Caller :
           \/ pc'[b] = pc[b]
           \/ pc[b] = "etcd.Wait" /\ pc'[b] = "return"
    BY <1>0, <1>6 DEF ETCDStopped, Move, Typed
  <2>3. sendsOn' = sendsOn
    BY <1>6 DEF ETCDStopped
  <2>4. \A b \in Caller : StopProgress(b)' /\ SendsReady(b)'
    BY <1>2, <2>1, <2>2, <2>3 DEF DownInv, StopProgress, SendsReady, LoopsOf
  <2>5. Starting("dns")' <=> Starting("dns")
    BY <2>2 DEF Starting, MakeOf
  <2> QED
    BY <1>1, <1>2, <2>1, <2>4, <2>5
       DEF DownInv, NewestOnly, StoppedDNSIsDown, ChannelsReady
<1> QED
  BY <1>3, <1>4, <1>5, <1>6

(* No goroutine brings a loop back to life.                                *)
LEMMA GoroutineDownInv ==
    ASSUME DownInv, TypeInv',
           \/ \E k \in LoopsOf("etcd") :
                 SenderStarts(k) \/ \E n \in Generation : ETCDSend(k, n)
           \/ \E k \in Loop, g \in Generation : LoopStep(k, g) \/ Work(k, g)
    PROVE  DownInv'
<1>0. Typed
  BY DEF DownInv, TypeInv
<1>1. UNCHANGED <<ctrlVars, callVars>>
  BY DEF SenderStarts, ETCDSend, LoopStep, EnterSelect, CloseChannel,
         LoopReturns, Work
<1>2. ASSUME NEW j \in LoopsOf("dns") PROVE Live(j)' \subseteq Live(j)
  <2>0. j \in Loop
    BY DEF LoopsOf, Loop
  <2>1. ASSUME NEW k \in LoopsOf("etcd"),
               SenderStarts(k) \/ \E n \in Generation : ETCDSend(k, n)
        PROVE  Live(j)' \subseteq Live(j)
    <3>1. k # j
      BY DEF LoopsOf
    <3>2. loop'[j] = loop[j]
      BY <1>0, <2>0, <2>1, <3>1 DEF SenderStarts, ETCDSend, Told, Typed, loopVars
    <3> QED
      BY <3>2 DEF Live
  <2>2. ASSUME NEW k \in Loop, NEW g \in Generation,
               LoopStep(k, g) \/ Work(k, g)
        PROVE  Live(j)' \subseteq Live(j)
    <3>1. CASE CloseChannel(k, g)
      <4>1. \A h \in Generation :
               loop'[j][h] = loop[j][h] \/ loop'[j][h] \in {"leaving", "told"}
        BY <1>0, <2>0, <3>1 DEF CloseChannel, Typed
      <4> QED
        BY <4>1 DEF Live
    <3>2. CASE ~CloseChannel(k, g)
      <4>1. PICK to : /\ loop' = [loop EXCEPT ![k][g] = to]
                      /\ to \in {"spawned", "select", "working"} =>
                             loop[k][g] \in {"spawned", "select", "working"}
        BY <2>2, <3>2 DEF LoopStep, EnterSelect, LoopReturns, Work, Advance
      <4>2. \A h \in Generation :
               loop'[j][h] = loop[j][h] \/ (j = k /\ h = g /\ loop'[j][h] = to)
        BY <1>0, <2>0, <4>1 DEF Typed
      <4> QED
        BY <4>1, <4>2 DEF Live
    <3> QED
      BY <3>1, <3>2
  <2> QED
    BY <2>1, <2>2
<1>3. OneBusy'
  BY <1>1 DEF DownInv, OneBusy, Busy, callVars
<1> QED
  BY <1>1, <1>2, <1>3, DownInvKept DEF callVars

LEMMA NextDownInv ==
    ASSUME Apart, OneCaller, DownInv, [Next]_vars
    PROVE  DownInv'
<1>0. TypeInv'
  BY NextTypeInv DEF DownInv
<1>1. CASE RaftChange \/ LeaseGained \/ LeaseLost \/ Signal \/ Killed
           \/ UNCHANGED vars
  <2>1. UNCHANGED <<ctrlVars, loop, pc, sendsOn>>
    BY <1>1 DEF RaftChange, LeaseGained, LeaseLost, Signal, Killed, Tell, vars,
                callVars, loopVars
  <2>2. OneBusy' /\ \A k \in LoopsOf("dns") : Live(k)' = Live(k)
    BY <2>1 DEF DownInv, OneBusy, Busy, Live
  <2> QED
    BY <1>0, <2>1, <2>2, DownInvKept
<1>2. ASSUME NEW a \in Caller, CallerStep(a) PROVE DownInv'
  BY <1>0, <1>2, TakeDownInv, RunDownInv, MakeDownInv, StopDownInv DEF CallerStep
<1>3. ASSUME NEW a \in Caller, NEW k \in LoopsOf("dns"), DNSSend(a, k)
      PROVE  DownInv'
  BY <1>0, <1>3, DNSSendDownInv
<1> QED
  BY <1>0, <1>1, <1>2, <1>3, GoroutineDownInv DEF Next

LEMMA InitDownInv == Init => DownInv
<1> SUFFICES ASSUME Init PROVE DownInv
  OBVIOUS
<1>1. \A k \in LoopsOf("dns") : Live(k) = {}
  BY DEF Init, Live, LoopsOf, Loop
<1>2. OneBusy /\ \A a \in Caller : StopProgress(a) /\ SendsReady(a)
  BY DEF Init, OneBusy, Busy, StopProgress, SendsReady
<1>3. ~running["dns"]
  BY DEF Init, Controller
<1> QED
  BY <1>1, <1>2, <1>3, InitTypeInv
     DEF DownInv, NewestOnly, StoppedDNSIsDown, ChannelsReady

LEMMA DownInvHolds ==
    ASSUME Apart
    PROVE  Spec => []DownInv
<1>1. OneCaller /\ DownInv /\ [Next]_vars => DownInv'
  BY NextDownInv
<1> QED
  BY <1>1, InitDownInv, OneCallerHolds, PTL DEF Spec

(* Once DNSController.Stop has run through, none of its loops will touch   *)
(* the provider or the wanted list again, whatever the scheduler does and  *)
(* in whichever term: the loop that takes the token is the only one there  *)
(* is.  Two Stops at once, which only k8s can have, are excluded, and do   *)
(* go wrong.                                                               *)
THEOREM StoppedDNSIsDownHolds ==
    ASSUME Apart
    PROVE  Spec => []StoppedDNSIsDown
<1>1. DownInv => StoppedDNSIsDown
  BY DEF DownInv
<1> QED
  BY <1>1, DownInvHolds, PTL

(* Types; and where callers wait for each other, DNSController.Stop never  *)
(* sends on a nil channel (dnsController.go:355), although Run marks the   *)
(* controller as running before it makes the channels                      *)
(* (dnsController.go:293-296): nobody else is about in between, and a      *)
(* controller that is past that has made them.                             *)
THEOREM TypeCorrect == Spec => []TypeOK
<1>1. CASE Overlap
  <2>1. TypeInv => TypeOK
    BY <1>1 DEF TypeInv, TypeOK
  <2> QED
    BY <2>1, InitTypeInv, NextTypeInv, PTL DEF Spec
<1>2. CASE ~Overlap
  <2>1. DownInv => TypeOK
    BY <1>2 DEF DownInv, TypeInv, TypeOK, SendsReady, SendTo
  <2>2. Apart
    BY <1>2 DEF Apart
  <2> QED
    BY <2>1, <2>2, DownInvHolds, PTL
<1> QED
  BY <1>1, <1>2

=============================================================================
