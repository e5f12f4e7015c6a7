----------------------------- MODULE Lifecycle -----------------------------
(***************************************************************************)
(* How dnsManage (src/main.go) starts and stops the two controllers, and   *)
(* how their Run and Stop manage the four loops:                           *)
(*                                                                         *)
(*   dns   lbUpdateLoop ("lb") and the sync loop ("sync")                  *)
(*   etcd  monitorLoop ("monitor") and statusLoop ("status")               *)
(*                                                                         *)
(* Every Run makes new stop channels and spawns new loops: channel n of a  *)
(* loop is the one its n-th Run made, and the field of the controller      *)
(* holds the newest.  A loop waits on the channel the field held when it   *)
(* entered its select, and closes the one the field holds after it was     *)
(* told to stop.                                                           *)
(*                                                                         *)
(* The callers are the goroutines of dnsManage: the consumer of raft's     *)
(* leader channel, the callbacks of the Kubernetes election and its signal *)
(* handler, or the main goroutine of a singleton.                          *)
(***************************************************************************)
EXTENDS Naturals, FiniteSets

CONSTANTS
    Election,       \* implementations of the election to consider
    MaxRuns,        \* bound on the Runs of a controller
    MaxChanges,     \* bound on gains and losses of leadership
    Prompt,         \* goroutines that can run do so before the next command
    Overlap,        \* may callers be commanded while another one is busy?
    Signals         \* may signals arrive?

(* raft's consumer; OnStartedLeading, OnStoppedLeading and the signal      *)
(* handler of k8s; the main goroutine of a singleton.                      *)
Caller == {"consumer", "started", "stopped", "signal", "main"}

Controller == {"dns", "etcd"}

LoopsOf(c) == IF c = "dns" THEN {"sync", "lb"} ELSE {"monitor", "status"}

Loop == {"sync", "lb", "monitor", "status"}

ControllerOf(k) == IF k \in LoopsOf("dns") THEN "dns" ELSE "etcd"

Generation == 1..MaxRuns

ASSUME ConstantsAssumption ==
    /\ Election \subseteq {"raft", "k8s", "singleton"}
    /\ MaxRuns \in Nat \ {0}
    /\ MaxChanges \in Nat
    /\ Prompt \in BOOLEAN
    /\ {Overlap, Signals} \subseteq BOOLEAN

VARIABLES
    (* fields of the controllers *)
    running,        \* for each controller
    runs,           \* Runs of each controller: the number of its channels
    started,        \* monitorLoopStarted, statusLoopStarted
    (* goroutines *)
    loop,           \* where each loop of each generation is
    waitsOn,        \* the channel it selects on
    closed,         \* closed channels, as <<loop, channel>>
    spawned,        \* senders of ETCDController.Stop not yet at their send
    sending,        \* ... those that send, for each channel
    (* dnsManage *)
    election,       \* the implementation chosen in the configuration
    pc,             \* where each caller is
    sendsOn,        \* the channel it sends on
    inbox,          \* what it is to do next
    leading,        \* does the instance hold the leadership?
    changes,        \* what is left of MaxChanges
    process         \* "up", "panicked" or "exited"

ctrlVars   == <<running, runs>>
loopVars   == <<loop, waitsOn, started>>
sendVars   == <<closed, spawned, sending>>
callVars   == <<pc, sendsOn, inbox>>
envVars    == <<leading, changes, election>>
vars == <<ctrlVars, loopVars, sendVars, callVars, envVars, process>>

-----------------------------------------------------------------------------
(* Loops that have not been told to stop.                                  *)
Live(k) == {g \in Generation : loop[k][g] \in {"spawned", "select", "working"}}

Busy(a) == pc[a] \notin {"idle", "done"}

(* Where DNSController.Stop sends to loop k.                               *)
SendTo(k) == IF k = "sync" THEN "dns.SendSync" ELSE "dns.SendLb"

(* No goroutine is about to take a step without waiting for anything.      *)
Settled ==
    /\ \A k \in Loop : \A g \in Generation :
            loop[k][g] \in {"none", "select", "working"}
    /\ \A k \in Loop : spawned[k] = 0

MayCommand == (Prompt => Settled) /\ (Overlap \/ ~\E a \in Caller : Busy(a))

(* Where a channel is closed or sent on while it is closed, Go panics.     *)
Panic == process' = "panicked"

(* Channel n of loop k has a sender that waits.                            *)
Blocked(k, n) ==
    \/ sending[k][n] > 0
    \/ /\ k \in LoopsOf("dns")
       /\ \E a \in Caller : pc[a] = SendTo(k) /\ sendsOn[a] = n

Init ==
    /\ running = [c \in Controller |-> FALSE]
    /\ runs = [c \in Controller |-> 0]
    /\ started = [k \in LoopsOf("etcd") |-> FALSE]
    /\ loop = [k \in Loop |-> [g \in Generation |-> "none"]]
    /\ waitsOn = [k \in Loop |-> [g \in Generation |-> 0]]
    /\ closed = {}
    /\ spawned = [k \in Loop |-> 0]
    /\ sending = [k \in Loop |-> [n \in Generation |-> 0]]
    /\ pc = [a \in Caller |-> "idle"]
    /\ sendsOn = [a \in Caller |-> 0]
    /\ election \in Election
    /\ inbox = [a \in Caller |-> IF a = "main" /\ election = "singleton"
                                THEN "start" ELSE "none"]
    /\ leading = FALSE
    /\ changes = MaxChanges
    /\ process = "up"

-----------------------------------------------------------------------------
(* The election and the operating system *)

(* Caller a is to be told command, unless it is told something else first. *)
Tell(a, command) ==
    /\ process = "up"
    /\ inbox' = [inbox EXCEPT ![a] = command]
    /\ UNCHANGED <<ctrlVars, loopVars, sendVars, pc, sendsOn, election, process>>

LeadershipChanges ==
    /\ changes > 0
    /\ changes' = changes - 1
    /\ leading' = ~leading

(* raft replaces the value in its leader channel when nobody has taken it. *)
RaftChange ==
    /\ election = "raft"
    /\ LeadershipChanges
    /\ Tell("consumer", IF leading' THEN "start" ELSE "stop")

(* OnStartedLeading is called in a goroutine of its own.                   *)
LeaseGained ==
    /\ election = "k8s"
    /\ ~leading
    /\ LeadershipChanges
    /\ pc["stopped"] = "idle" /\ inbox["stopped"] = "none"
    /\ Tell("started", "start")

(* OnStoppedLeading is called when the lease could not be renewed.         *)
LeaseLost ==
    /\ election = "k8s"
    /\ leading
    /\ LeadershipChanges
    /\ Tell("stopped", "stop")

(* SIGTERM.                                                                *)
Signal ==
    /\ Signals
    /\ \E a \in {"signal", "main"} :
          /\ election = (IF a = "signal" THEN "k8s" ELSE "singleton")
          /\ inbox[a] = "none"
          /\ pc[a] = "idle"
          /\ Tell(a, "stop")
    /\ UNCHANGED <<leading, changes>>

(* The raft branch never asks to be notified of it: the signal kills.      *)
Killed ==
    /\ Signals
    /\ election = "raft"
    /\ process = "up"
    /\ process' = "exited"
    /\ UNCHANGED <<ctrlVars, loopVars, sendVars, callVars, envVars>>

-----------------------------------------------------------------------------
(* The callers *)

Move(a, from, to) ==
    /\ process = "up"
    /\ pc[a] = from
    /\ pc' = [pc EXCEPT ![a] = to]

Take(a) ==
    /\ inbox[a] # "none"
    /\ MayCommand
    /\ Move(a, "idle", IF inbox[a] = "start" THEN "etcd.Run" ELSE "dns.Stop")
    /\ inbox' = [inbox EXCEPT ![a] = "none"]
    /\ UNCHANGED <<ctrlVars, loopVars, sendVars, sendsOn, envVars, process>>

(* Slip: a controller that was stopped does not run again.                 *)
MayRun_Once(c) == runs[c] = 0

(* The checks of running at the start of Run and of Stop.                  *)
MayRun(c) == ~running[c]

(* Slip: Stop does not ask whether the controller runs.                    *)
MayStop_Always(c) == TRUE

MayStop(c) == running[c]

(* Slip: the channels are made once, by the first Run.                     *)
NewChannel_Kept(c) == 1

NewChannel(c) == runs[c] + 1

(* The callers run the etcd controller first.                              *)
RunOf(c) == IF c = "etcd" THEN "etcd.Run" ELSE "dns.Run"

MakeOf(c) == IF c = "etcd" THEN "etcd.Make" ELSE "dns.Make"

AfterRun(c) == IF c = "etcd" THEN "dns.Run" ELSE "idle"

(* Run says that the controller runs before it makes the channels: until   *)
(* then a Stop would find nil in the field, or the channel of an earlier   *)
(* term.                                                                   *)
Run(a, c) ==
    /\ IF MayRun(c)
       THEN /\ Move(a, RunOf(c), MakeOf(c))
            /\ running' = [running EXCEPT ![c] = TRUE]
       ELSE Move(a, RunOf(c), AfterRun(c)) /\ UNCHANGED running
    /\ UNCHANGED <<runs, loopVars, sendVars, sendsOn, inbox, envVars, process>>

(* New channels, new loops.                                                *)
MakeChannels(a, c) ==
    /\ Move(a, MakeOf(c), AfterRun(c))
    /\ NewChannel(c) \in Generation
    /\ runs' = [runs EXCEPT ![c] = NewChannel(c)]
    /\ loop' = [k \in Loop |->
          IF k \in LoopsOf(c)
          THEN [loop[k] EXCEPT ![NewChannel(c)] = "spawned"]
          ELSE loop[k]]
    /\ UNCHANGED <<running, waitsOn, started, sendVars, sendsOn, inbox, envVars,
                   process>>

(* DNSController.Stop sends to the sync loop first.                        *)
DNSStop(a) ==
    /\ IF MayStop("dns")
       THEN /\ Move(a, "dns.Stop", SendTo("sync"))
            /\ sendsOn' = [sendsOn EXCEPT ![a] = runs["dns"]]
       ELSE Move(a, "dns.Stop", "etcd.Stop") /\ UNCHANGED sendsOn
    /\ UNCHANGED <<ctrlVars, loopVars, sendVars, inbox, envVars, process>>

(* A loop that waits on channel n of k takes a token from it.              *)
Told(k, n) ==
    \E g \in Generation :
        /\ loop[k][g] = "select"
        /\ waitsOn[k][g] = n
        /\ loop' = [loop EXCEPT ![k][g] = "told"]

(* Slip: lbUpdateLoop is not told.                                         *)
AfterSend_SyncOnly(k) == "dns.Stopped"

AfterSend(k) == IF k = "sync" THEN SendTo("lb") ELSE "dns.Stopped"

(* The sync loop takes the token; then it is lbUpdateLoop's turn.          *)
DNSSend(a, k) ==
    /\ IF <<k, sendsOn[a]>> \in closed
       THEN /\ Move(a, SendTo(k), SendTo(k))
            /\ Panic
            /\ UNCHANGED <<loop, sendsOn>>
       ELSE /\ Move(a, SendTo(k), AfterSend(k))
            /\ Told(k, sendsOn[a])
            /\ sendsOn' = [sendsOn EXCEPT ![a] = runs["dns"]]
            /\ UNCHANGED process
    /\ UNCHANGED <<ctrlVars, waitsOn, started, sendVars, inbox, envVars>>

DNSStopped(a) ==
    /\ Move(a, "dns.Stopped", "etcd.Stop")
    /\ running' = [running EXCEPT !["dns"] = FALSE]
    /\ UNCHANGED <<runs, loopVars, sendVars, sendsOn, inbox, envVars, process>>

(* ETCDController.Stop leaves the sending to two goroutines.               *)
ETCDStop(a) ==
    /\ IF MayStop("etcd")
       THEN /\ Move(a, "etcd.Stop", "etcd.Wait")
            /\ spawned' = [k \in Loop |-> IF k \in LoopsOf("etcd")
                                          THEN spawned[k] + 1 ELSE spawned[k]]
       ELSE Move(a, "etcd.Stop", "return") /\ UNCHANGED spawned
    /\ UNCHANGED <<ctrlVars, loopVars, closed, sending, sendsOn, inbox,
                   envVars, process>>

(* Slip: it does not wait for the status loop.                             *)
LoopsMarked_Monitor == started["monitor"]

LoopsMarked == \E k \in LoopsOf("etcd") : started[k]

(* It waits until neither loop is marked as started.                       *)
ETCDStopped(a) ==
    /\ Move(a, "etcd.Wait", "return")
    /\ ~LoopsMarked
    /\ running' = [running EXCEPT !["etcd"] = FALSE]
    /\ UNCHANGED <<runs, loopVars, sendVars, sendsOn, inbox, envVars, process>>

(* Slip: the signal handler does not cancel the election's context.        *)
Cancels_Never(a) == FALSE

(* After the signal handler's Stops the election's context is cancelled,   *)
(* which ends leading or waiting for it.                                   *)
Cancels(a) == a = "signal" /\ pc["stopped"] = "idle"

(* After OnStoppedLeading, and the Stops of a singleton, the process ends. *)
Return(a) ==
    /\ Move(a, "return", IF a = "consumer" THEN "idle" ELSE "done")
    /\ IF Cancels(a)
       THEN inbox' = [inbox EXCEPT !["stopped"] = "stop"] /\ leading' = FALSE
       ELSE UNCHANGED <<inbox, leading>>
    /\ process' = IF a \in {"stopped", "main"} THEN "exited" ELSE "up"
    /\ UNCHANGED <<ctrlVars, loopVars, sendVars, sendsOn, changes, election>>

-----------------------------------------------------------------------------
(* The goroutines *)

Advance(k, g, from, to) ==
    /\ process = "up"
    /\ loop[k][g] \in from
    /\ loop' = [loop EXCEPT ![k][g] = to]

(* A loop starts, and marks that it did, or comes back from its work; it   *)
(* enters its select, which ends at once if the channel is closed.         *)
EnterSelect(k, g) ==
    /\ Advance(k, g, {"spawned", "working"},
               IF <<k, runs[ControllerOf(k)]>> \in closed
               THEN "told" ELSE "select")
    /\ waitsOn' = [waitsOn EXCEPT ![k][g] = runs[ControllerOf(k)]]
    /\ started' = [j \in LoopsOf("etcd") |->
                       started[j] \/ (j = k /\ loop[k][g] = "spawned")]
    /\ UNCHANGED <<ctrlVars, sendVars, callVars, envVars, process>>

(* The timer fires or a list arrives.                                      *)
Work(k, g) ==
    /\ Advance(k, g, {"select"}, "working")
    /\ UNCHANGED <<ctrlVars, waitsOn, started, sendVars, callVars, envVars,
                   process>>

(* A sender of ETCDController.Stop reads the field and comes to its send;  *)
(* on a nil channel that never ends.                                       *)
SenderStarts(k) ==
    /\ process = "up"
    /\ spawned[k] > 0
    /\ spawned' = [spawned EXCEPT ![k] = @ - 1]
    /\ sending' = IF runs["etcd"] = 0 THEN sending
                  ELSE [sending EXCEPT ![k][runs["etcd"]] = @ + 1]
    /\ UNCHANGED <<ctrlVars, loopVars, closed, callVars, envVars, process>>

ETCDSend(k, n) ==
    /\ process = "up"
    /\ sending[k][n] > 0
    /\ IF <<k, n>> \in closed
       THEN Panic /\ UNCHANGED <<loop, sending>>
       ELSE /\ Told(k, n)
            /\ sending' = [sending EXCEPT ![k][n] = @ - 1]
            /\ UNCHANGED process
    /\ UNCHANGED <<ctrlVars, waitsOn, started, closed, spawned, callVars,
                   envVars>>

(* The loop that was told to stop closes the channel its field holds now.  *)
(* A loop of another term that waits on the same channel is told by that.  *)
CloseChannel(k, g) ==
    /\ process = "up"
    /\ loop[k][g] = "told"
    /\ LET n == runs[ControllerOf(k)]
       IN  /\ loop' = [loop EXCEPT ![k] = [h \in Generation |->
                IF h = g THEN "leaving"
                ELSE IF loop[k][h] = "select" /\ waitsOn[k][h] = n THEN "told"
                ELSE loop[k][h]]]
           /\ closed' = closed \cup {<<k, n>>}
           /\ IF <<k, n>> \in closed \/ Blocked(k, n)
              THEN Panic ELSE UNCHANGED process
    /\ UNCHANGED <<ctrlVars, waitsOn, started, spawned, sending, callVars,
                   envVars>>

(* It returns; the loops of the etcd controller clear their marks.         *)
LoopReturns(k, g) ==
    /\ Advance(k, g, {"leaving"}, "none")
    /\ started' = [j \in LoopsOf("etcd") |-> started[j] /\ j # k]
    /\ UNCHANGED <<ctrlVars, waitsOn, sendVars, callVars, envVars, process>>

-----------------------------------------------------------------------------
CallerStep(a) ==
    \/ Take(a)
    \/ \E c \in Controller : Run(a, c) \/ MakeChannels(a, c)
    \/ DNSStop(a) \/ DNSStopped(a)
    \/ ETCDStop(a) \/ ETCDStopped(a)
    \/ Return(a)

LoopStep(k, g) ==
    EnterSelect(k, g) \/ CloseChannel(k, g) \/ LoopReturns(k, g)

Next ==
    \/ RaftChange \/ LeaseGained \/ LeaseLost \/ Signal \/ Killed
    \/ \E a \in Caller : CallerStep(a) \/ \E k \in LoopsOf("dns") : DNSSend(a, k)
    \/ \E k \in LoopsOf("etcd") :
          SenderStarts(k) \/ \E n \in Generation : ETCDSend(k, n)
    \/ \E k \in Loop, g \in Generation : LoopStep(k, g) \/ Work(k, g)

Spec == Init /\ [][Next]_vars

(* Go runs every goroutine that can run.  A loop's select chooses at       *)
(* random between a sender and its timer, so that a sender is not passed   *)
(* over forever; its work ends, since every call it makes does.            *)
Fairness ==
    /\ \A a \in Caller :
         /\ WF_vars(CallerStep(a))
         /\ SF_vars(\E k \in LoopsOf("dns") : DNSSend(a, k))
    /\ \A k \in LoopsOf("etcd") :
         /\ WF_vars(SenderStarts(k))
         /\ SF_vars(\E n \in Generation : ETCDSend(k, n))
    /\ \A k \in Loop : WF_vars(\E g \in Generation : LoopStep(k, g))

FairSpec == Spec /\ Fairness

-----------------------------------------------------------------------------
(* Properties *)

Typed ==
    /\ running \in [Controller -> BOOLEAN]
    /\ runs \in [Controller -> 0..MaxRuns]
    /\ started \in [LoopsOf("etcd") -> BOOLEAN]
    /\ loop \in [Loop -> [Generation ->
            {"none", "spawned", "select", "working", "told", "leaving"}]]
    /\ waitsOn \in [Loop -> [Generation -> 0..MaxRuns]]
    /\ closed \in SUBSET (Loop \X Generation)
    /\ spawned \in [Loop -> Nat]
    /\ sending \in [Loop -> [Generation -> Nat]]
    /\ sendsOn \in [Caller -> 0..MaxRuns]
    /\ inbox \in [Caller -> {"none", "start", "stop"}]
    /\ leading \in BOOLEAN
    /\ changes \in Nat
    /\ election \in Election
    /\ process \in {"up", "panicked", "exited"}
    /\ pc \in [Caller ->
          {"idle", "etcd.Run", "etcd.Make", "dns.Run", "dns.Make",
           "dns.Stop", "dns.SendSync", "dns.SendLb", "dns.Stopped",
           "etcd.Stop", "etcd.Wait", "return", "done"}]

(* Types; and as long as callers wait for each other, DNSController.Stop   *)
(* does not send on a nil channel, which would block forever.              *)
TypeOK ==
    /\ Typed
    /\ ~Overlap =>
          \A a \in Caller : pc[a] \in {SendTo("sync"), SendTo("lb")}
                              => sendsOn[a] \in Generation

(* No channel is closed twice or sent on after it was closed.              *)
NoPanic == process # "panicked"

Stopping(c) ==
    \E a \in Caller :
        pc[a] \in IF c = "dns"
                  THEN {"dns.SendSync", "dns.SendLb", "dns.Stopped"}
                  ELSE {"etcd.Wait"}

Starting(c) == \E a \in Caller : pc[a] = MakeOf(c)

(* A controller that does not run has no loop, and one that runs and is    *)
(* neither being started nor stopped has one of each kind, waiting on the  *)
(* channel its next Stop will use: however often leadership comes and      *)
(* goes, no loop of an earlier term goes on next to its successor.         *)
LoopsMatchRunning ==
    \A c \in Controller : \A k \in LoopsOf(c) :
        /\ ~running[c] => Live(k) = {}
        /\ running[c] /\ ~Starting(c) /\ ~Stopping(c) =>
              /\ Live(k) = {runs[c]}
              /\ loop[k][runs[c]] = "select" => waitsOn[k][runs[c]] = runs[c]

(* Whatever the scheduling: once DNSController.Stop is through, neither of *)
(* its loops will touch the provider or the wanted list again ("Stop stops *)
(* the controller", dnsController.go:349).                                 *)
StoppedDNSIsDown ==
    ~running["dns"] => \A k \in LoopsOf("dns") : Live(k) = {}

(* "Stop stops the controller and blocks till everything is down"          *)
(* (etcdController.go:349).                                                *)
StopBlocks ==
    [][\A a \in Caller :
        pc[a] = "etcd.Wait" /\ pc'[a] # "etcd.Wait"
            => \A k \in LoopsOf("etcd") : \A g \in Generation :
                    loop'[k][g] = "none"]_vars

(* With raft, as long as nobody kills the process: once leadership stops   *)
(* changing, the loops run if the instance leads, and do not if it does    *)
(* not.                                                                    *)
AllRun == \A k \in Loop : Live(k) # {}

NoneRuns == \A k \in Loop : \A g \in Generation : loop[k][g] = "none"

FollowsLeadership ==
    election = "raft" =>
        /\ <>[](leading /\ process = "up") => <>[]AllRun
        /\ <>[](~leading /\ process = "up") => <>[]NoneRuns

(* With k8s and for a singleton the process does not end of itself before  *)
(* the controllers are down (main.go:562, main.go:616).                    *)
ExitsDown ==
    process = "exited" /\ election # "raft" => \A k \in Loop : Live(k) = {}

(* With k8s and for a singleton a signal ends the process.                 *)
ExitsCleanly ==
    \A a \in {"signal", "main"} : inbox[a] = "stop" ~> process # "up"

(* Loops of a process that has ended are gone.                             *)
Up == {k \in Loop : process = "up" /\ Live(k) # {}}

Working == {k \in Up : \E g \in Generation : loop[k][g] = "working"}

Ending ==
    \E a \in Caller :
        pc[a] \in {"dns.Stop", "dns.SendSync", "dns.SendLb", "dns.Stopped",
                  "etcd.Stop", "etcd.Wait"}

Term == INSTANCE Terms WITH
    up <- Up, busy <- Working, ending <- Ending /\ Up # {}

(* Whatever order leadership and signals come in, the loops start and stop *)
(* as Terms says (main.go:587 and 598, dnsController.go:349,               *)
(* etcdController.go:349).                                                 *)
KeepsTerms == Term!Spec
=============================================================================
