----------------------- MODULE LifecycleTerms_proofs -----------------------
(***************************************************************************)
(* That however often leadership comes and goes, every term has one loop   *)
(* of each kind, a Stop blocks until everything is down, and no channel is *)
(* closed twice or sent on after it was closed: where a command finds no   *)
(* caller busy (Apart) and the goroutines that can run have done so        *)
(* (Prompt).                                                               *)
(***************************************************************************)
EXTENDS Lifecycle_proofs

Stages == {"none", "spawned", "select", "working", "told", "leaving"}

LiveStage == {"spawned", "select", "working"}

(* Where the loop of the newest generation is.                             *)
Stage(k) ==
    IF runs[ControllerOf(k)] = 0 THEN "none"
                                 ELSE loop[k][runs[ControllerOf(k)]]

(* Nothing is left of the loops of earlier terms.                          *)
OneTerm ==
    \A k \in Loop : \A g \in Generation :
        g # runs[ControllerOf(k)] => loop[k][g] = "none"

WaitsOnNewest ==
    \A k \in Loop : Stage(k) = "select" =>
        waitsOn[k][runs[ControllerOf(k)]] = runs[ControllerOf(k)]

(* The newest channel is closed by its own loop, on the way out.           *)
ClosedWhenTold ==
    \A k \in Loop : \A n \in Generation : <<k, n>> \in closed =>
        /\ n <= runs[ControllerOf(k)]
        /\ n = runs[ControllerOf(k)] => Stage(k) \in {"leaving", "none"}

LiveMatches(c) ==
    \A k \in LoopsOf(c) :
        /\ ~running[c] => Stage(k) \notin LiveStage
        /\ running[c] /\ ~Starting(c) /\ ~Stopping(c) => Stage(k) \in LiveStage

(* A caller runs a controller: the loops of the last term have returned,   *)
(* and none of the new term is there before its channels.                  *)
RunsWhenDown(a) ==
    /\ pc[a] \in {"etcd.Run", "etcd.Make"} =>
          \A k \in Loop : Stage(k) \notin {"told", "leaving"}
    /\ pc[a] = "dns.Run" =>
          \A k \in LoopsOf("dns") : Stage(k) \notin {"told", "leaving"}
    /\ \A c \in Controller : pc[a] = MakeOf(c) =>
          running[c] /\ \A k \in LoopsOf(c) : Stage(k) = "none"

(* How far a caller has come in DNSController.Stop, and after it.          *)
DNSStops(a) ==
    /\ pc[a] \in {"dns.SendSync", "dns.SendLb", "dns.Stopped"} => running["dns"]
    /\ pc[a] \in {"dns.SendSync", "dns.SendLb"} =>
          /\ sendsOn[a] = runs["dns"]
          /\ Stage("lb") \in LiveStage
    /\ pc[a] = "dns.SendSync" => Stage("sync") \in LiveStage
    /\ pc[a] \in {"dns.SendLb", "dns.Stopped"} => Stage("sync") \notin LiveStage
    /\ pc[a] = "dns.Stopped" => Stage("lb") \notin LiveStage
    /\ pc[a] \in {"etcd.Stop", "etcd.Wait", "return"} => ~running["dns"]

(* ... and in ETCDController.Stop.                                         *)
ETCDStops(a) ==
    /\ pc[a] \in {"dns.Stop", "dns.SendSync", "dns.SendLb", "dns.Stopped",
                  "etcd.Stop"}
          => \A k \in LoopsOf("etcd") : Stage(k) # "spawned"
    /\ pc[a] = "etcd.Wait" => running["etcd"]
    /\ pc[a] = "return" => ~running["etcd"]

NoToken(k) == spawned[k] = 0 /\ \A n \in Generation : sending[k][n] = 0

(* The one sender of a Stop has yet to read the field, or sends on the     *)
(* newest channel.                                                         *)
OneToken(k) ==
    \/ spawned[k] = 1 /\ \A n \in Generation : sending[k][n] = 0
    \/ /\ spawned[k] = 0
       /\ \A n \in Generation :
             sending[k][n] = IF n = runs["etcd"] THEN 1 ELSE 0

(* ETCDController.Stop has a sender for each loop until the loop is told.  *)
Tokens ==
    /\ \A k \in LoopsOf("dns") : NoToken(k)
    /\ \A k \in LoopsOf("etcd") :
          /\ ~Stopping("etcd") => NoToken(k)
          /\ Stopping("etcd") =>
                \/ OneToken(k) /\ Stage(k) \in {"select", "working"}
                \/ NoToken(k) /\ Stage(k) \in {"told", "leaving", "none"}

(* A loop is marked from its first select until it returns.                *)
Marks ==
    \A k \in LoopsOf("etcd") :
        started[k] <=> Stage(k) \in {"select", "working", "told", "leaving"}

CallersInv == \A a \in Caller : RunsWhenDown(a) /\ DNSStops(a) /\ ETCDStops(a)

(* What relates loops to channels, and both to callers.                    *)
LoopsInv ==
    /\ OneTerm /\ WaitsOnNewest /\ ClosedWhenTold
    /\ \A c \in Controller : LiveMatches(c)

TermsInv ==
    /\ TypeInv /\ OneBusy /\ NoPanic
    /\ LoopsInv /\ CallersInv /\ Tokens /\ Marks /\ ExitsDown

-----------------------------------------------------------------------------
(* The stage of a loop *)

LEMMA StageType ==
    ASSUME Typed, NEW k \in Loop
    PROVE  /\ Stage(k) \in Stages
           /\ Stage(k) # "none" => /\ runs[ControllerOf(k)] \in Generation
                                   /\ Stage(k) = loop[k][runs[ControllerOf(k)]]
<1>1. /\ runs[ControllerOf(k)] \in 0..MaxRuns
      /\ runs[ControllerOf(k)] # 0 => runs[ControllerOf(k)] \in Generation
  BY Names, RunsType
<1> QED
  BY <1>1 DEF Stage, Stages, Typed

(* A loop that is anywhere is the newest.                                  *)
LEMMA StageOfLoop ==
    ASSUME Typed, OneTerm, NEW k \in Loop, NEW g \in Generation,
           loop[k][g] # "none"
    PROVE  g = runs[ControllerOf(k)] /\ Stage(k) = loop[k][g]
<1>1. g = runs[ControllerOf(k)]
  BY DEF OneTerm
<1>2. g # 0
  BY ConstantsAssumption DEF Generation
<1> QED
  BY <1>1, <1>2 DEF Stage

LEMMA LiveIsStage ==
    ASSUME Typed, OneTerm, NEW k \in Loop
    PROVE  /\ Stage(k) \in LiveStage => Live(k) = {runs[ControllerOf(k)]}
           /\ Stage(k) \notin LiveStage => Live(k) = {}
<1>1. \A g \in Live(k) : /\ g = runs[ControllerOf(k)]
                         /\ Stage(k) \in LiveStage
  BY StageOfLoop DEF Live, LiveStage
<1>2. Stage(k) \in LiveStage => runs[ControllerOf(k)] \in Live(k)
  BY StageType DEF Live, LiveStage
<1> QED
  BY <1>1, <1>2

LEMMA StageNone ==
    ASSUME Typed, OneTerm, NEW k \in Loop, Stage(k) = "none",
           NEW g \in Generation
    PROVE  loop[k][g] = "none"
BY StageOfLoop

LEMMA StageMoves ==
    ASSUME Typed, OneTerm, NEW k \in Loop, NEW g \in Generation, NEW to,
           loop[k][g] # "none",
           loop' = [loop EXCEPT ![k][g] = to], runs' = runs
    PROVE  /\ Stage(k)' = to
           /\ \A j \in Loop \ {k} : Stage(j)' = Stage(j)
           /\ OneTerm'
<1>1. g = runs[ControllerOf(k)] /\ g # 0
  BY StageOfLoop, ConstantsAssumption DEF Generation
<1>2. loop'[k][g] = to
  BY DEF Typed
<1>3. \A j \in Loop : \A h \in Generation :
         j # k \/ h # g => loop'[j][h] = loop[j][h]
  BY DEF Typed
<1>4. \A j \in Loop \ {k} : loop'[j] = loop[j]
  BY DEF Typed
<1>5. OneTerm'
  BY <1>1, <1>3 DEF OneTerm
<1> QED
  BY <1>1, <1>2, <1>4, <1>5 DEF Stage

-----------------------------------------------------------------------------
(* The callers *)

(* The caller that is busy is the one that says which controller is being  *)
(* stopped.                                                                *)
LEMMA CallerMoves ==
    ASSUME Typed, OneBusy, NEW a \in Caller, Busy(a), NEW from, NEW to,
           Move(a, from, to)
    PROVE  /\ pc[a] = from /\ pc'[a] = to
           /\ \A b \in Caller : b # a => /\ pc[b] \in {"idle", "done"}
                                         /\ pc'[b] \in {"idle", "done"}
           /\ OneBusy'
           /\ Stopping("etcd") <=> from = "etcd.Wait"
           /\ Stopping("etcd")' <=> to = "etcd.Wait"
           /\ Stopping("dns") <=>
                 from \in {"dns.SendSync", "dns.SendLb", "dns.Stopped"}
           /\ Stopping("dns")' <=>
                 to \in {"dns.SendSync", "dns.SendLb", "dns.Stopped"}
           /\ \A c \in Controller : /\ Starting(c) <=> from = MakeOf(c)
                                    /\ Starting(c)' <=> to = MakeOf(c)
<1>1. pc[a] = from /\ pc'[a] = to
  BY DEF Move, Typed
<1>2. \A b \in Caller : b # a => pc[b] \in {"idle", "done"} /\ pc'[b] = pc[b]
  BY DEF OneBusy, Busy, Move, Typed
<1>3. OneBusy'
  BY <1>1, <1>2 DEF OneBusy, Busy
<1>4. \A c \in Controller : /\ Starting(c) <=> from = MakeOf(c)
                            /\ Starting(c)' <=> to = MakeOf(c)
  BY <1>1, <1>2 DEF Starting, MakeOf
<1> QED
  BY <1>1, <1>2, <1>3, <1>4 DEF Stopping

(* A step that leaves the loops alone.                                     *)
LEMMA LoopsKept ==
    ASSUME TermsInv, UNCHANGED <<runs, loopVars, closed>>
    PROVE  /\ \A k \in Loop : Stage(k)' = Stage(k)
           /\ OneTerm' /\ WaitsOnNewest' /\ ClosedWhenTold' /\ Marks'
<1>1. \A k \in Loop : Stage(k)' = Stage(k)
  BY DEF Stage, loopVars
<1>2. LoopsOf("etcd") \subseteq Loop
  BY Names
<1> QED
  BY <1>1, <1>2 DEF TermsInv, LoopsInv, OneTerm, WaitsOnNewest, ClosedWhenTold,
     Marks, loopVars

(* The dns controller's Stop leaves the senders of the other alone.        *)
LEMMA TokensKept ==
    ASSUME TermsInv, UNCHANGED <<spawned, sending, runs>>,
           Stopping("etcd")' <=> Stopping("etcd"),
           \A k \in LoopsOf("etcd") : Stage(k)' = Stage(k)
    PROVE  Tokens'
BY DEF TermsInv, Tokens, NoToken, OneToken

(* While the process goes on it has neither panicked nor ended.            *)
LEMMA GoesOn == process = "up" /\ UNCHANGED process => NoPanic' /\ ExitsDown'
BY DEF NoPanic, ExitsDown

LEMMA TakeTerms ==
    ASSUME Prompt, Apart, OneCaller, TermsInv, TypeInv', NEW a \in Caller, Take(a)
    PROVE  TermsInv'
<1>0. Typed /\ (\A c \in Controller : LoopsOf(c) \subseteq Loop)
  BY Names DEF TermsInv, TypeInv
<1>1. /\ UNCHANGED <<ctrlVars, loopVars, sendVars, process>>
      /\ process = "up" /\ Settled
      /\ \A b \in Caller : pc[b] \in {"idle", "done"}
  BY <1>0, NobodyBusy DEF Take, Move, MayCommand
<1>2. PICK to \in {"etcd.Run", "dns.Stop"} : Move(a, "idle", to)
  BY DEF Take
<1>3. pc'[a] = to /\ \A b \in Caller : b # a => pc'[b] \in {"idle", "done"}
  BY <1>0, <1>1, <1>2 DEF Move, Typed
<1>4. /\ OneBusy'
      /\ \A c \in Controller : ~Stopping(c) /\ ~Stopping(c)' /\ ~Starting(c)
  BY <1>1, <1>3 DEF OneBusy, Busy, Stopping, Starting, MakeOf
<1>5. /\ \A k \in Loop : Stage(k)' = Stage(k)
      /\ OneTerm' /\ WaitsOnNewest' /\ ClosedWhenTold' /\ Marks'
  BY <1>1, LoopsKept DEF ctrlVars, sendVars
<1>6. \A k \in Loop : Stage(k) \in {"none", "select", "working"}
  BY <1>0, <1>1, StageType DEF Settled
<1>7. LoopsInv'
  BY <1>0, <1>1, <1>4, <1>5 DEF TermsInv, LoopsInv, LiveMatches, ctrlVars
<1>8. CallersInv'
  BY <1>0, <1>3, <1>5, <1>6, Names
     DEF CallersInv, RunsWhenDown, DNSStops, ETCDStops, MakeOf
<1>9. Tokens'
  BY <1>0, <1>1, <1>4, <1>5, TokensKept, Names DEF ctrlVars, sendVars
<1> QED
  BY <1>1, <1>4, <1>5, <1>7, <1>8, <1>9, GoesOn DEF TermsInv

(* Between the controllers, and where one need not be stopped.             *)
LEMMA DNSStopTerms ==
    ASSUME TermsInv, TypeInv', NEW a \in Caller, DNSStop(a)
    PROVE  TermsInv'
<1>0. Typed /\ OneBusy /\ Busy(a) /\ (\A c \in Controller : LoopsOf(c) \subseteq Loop)
  BY Names DEF TermsInv, TypeInv, DNSStop, Move, Busy
<1>1. /\ UNCHANGED <<ctrlVars, loopVars, sendVars, process>>
      /\ process = "up"
  BY DEF DNSStop, Move
<1>2. /\ \A k \in Loop : Stage(k)' = Stage(k)
      /\ OneTerm' /\ WaitsOnNewest' /\ ClosedWhenTold' /\ Marks'
  BY <1>1, LoopsKept DEF ctrlVars, sendVars
<1>3. PICK to \in {"dns.SendSync", "etcd.Stop"} :
         /\ Move(a, "dns.Stop", to)
         /\ to = "dns.SendSync" =>
               running["dns"] /\ sendsOn' = [sendsOn EXCEPT ![a] = runs["dns"]]
         /\ to = "etcd.Stop" => ~running["dns"]
  BY DEF DNSStop, MayStop, SendTo
<1>4. /\ pc[a] = "dns.Stop" /\ pc'[a] = to
      /\ \A b \in Caller : b # a => pc'[b] \in {"idle", "done"}
      /\ OneBusy'
      /\ ~Stopping("etcd") /\ ~Stopping("etcd")' /\ ~Stopping("dns")
      /\ \A c \in Controller : ~Starting(c)
  BY <1>0, <1>3, CallerMoves DEF MakeOf
<1>5. LoopsInv'
  BY <1>0, <1>1, <1>2, <1>4 DEF TermsInv, LoopsInv, LiveMatches, ctrlVars,
     Controller
<1>6. CallersInv'
  <2>1. to = "dns.SendSync" => sendsOn'[a] = runs["dns"]
    BY <1>0, <1>3 DEF Typed
  <2>2. running["dns"] => \A k \in LoopsOf("dns") : Stage(k) \in LiveStage
    BY <1>4 DEF TermsInv, LoopsInv, LiveMatches, Controller
  <2>3. \A k \in LoopsOf("etcd") : Stage(k) # "spawned"
    BY <1>4 DEF TermsInv, CallersInv, ETCDStops
  <2>4. "sync" \in LoopsOf("dns") /\ "lb" \in LoopsOf("dns") /\ "sync" \in Loop /\ "lb" \in Loop
    BY DEF LoopsOf, Loop
  <2> QED
    BY <1>0, <1>1, <1>2, <1>3, <1>4, <2>1, <2>2, <2>3, <2>4, Names
       DEF CallersInv, RunsWhenDown, DNSStops, ETCDStops, MakeOf, ctrlVars
<1>7. Tokens'
  BY <1>0, <1>1, <1>2, <1>4, TokensKept, Names DEF ctrlVars, sendVars
<1> QED
  BY <1>1, <1>2, <1>4, <1>5, <1>6, <1>7, GoesOn DEF TermsInv

LEMMA DNSStoppedTerms ==
    ASSUME TermsInv, TypeInv', NEW a \in Caller, DNSStopped(a)
    PROVE  TermsInv'
<1>0. Typed /\ OneBusy /\ Busy(a) /\ (\A c \in Controller : LoopsOf(c) \subseteq Loop)
  BY Names DEF TermsInv, TypeInv, DNSStopped, Move, Busy
<1>1. /\ UNCHANGED <<runs, loopVars, sendVars, process>>
      /\ process = "up"
      /\ running' = [running EXCEPT !["dns"] = FALSE]
      /\ Move(a, "dns.Stopped", "etcd.Stop")
  BY DEF DNSStopped, Move
<1>2. /\ \A k \in Loop : Stage(k)' = Stage(k)
      /\ OneTerm' /\ WaitsOnNewest' /\ ClosedWhenTold' /\ Marks'
  BY <1>1, LoopsKept DEF sendVars
<1>3. /\ pc[a] = "dns.Stopped" /\ pc'[a] = "etcd.Stop"
      /\ \A b \in Caller : b # a => pc'[b] \in {"idle", "done"}
      /\ OneBusy'
      /\ ~Stopping("etcd") /\ ~Stopping("etcd")' /\ ~Starting("etcd")
  BY <1>0, <1>1, CallerMoves, Names DEF MakeOf
<1>4. /\ ~running'["dns"]
      /\ running'["etcd"] <=> running["etcd"]
  BY <1>0, <1>1, Names DEF Typed
<1>5. /\ \A k \in LoopsOf("dns") : Stage(k) \notin LiveStage
      /\ \A k \in LoopsOf("etcd") : Stage(k) # "spawned"
  BY <1>3 DEF TermsInv, CallersInv, DNSStops, ETCDStops, LoopsOf
<1>6. LoopsInv'
  <2>1. LiveMatches("dns")'
    BY <1>0, <1>2, <1>4, <1>5, Names DEF LiveMatches
  <2>2. LiveMatches("etcd")'
    BY <1>0, <1>2, <1>3, <1>4, Names DEF TermsInv, LoopsInv, LiveMatches
  <2> QED
    BY <1>2, <2>1, <2>2 DEF LoopsInv, Controller
<1>7. CallersInv'
  BY <1>0, <1>2, <1>3, <1>4, <1>5, Names
     DEF CallersInv, RunsWhenDown, DNSStops, ETCDStops, MakeOf
<1>8. Tokens'
  BY <1>0, <1>1, <1>2, <1>3, TokensKept, Names DEF sendVars
<1> QED
  BY <1>1, <1>2, <1>3, <1>6, <1>7, <1>8, GoesOn DEF TermsInv

(* Each loop of the etcd controller is at its work or its select, marked,  *)
(* and gets its sender.                                                    *)
LEMMA ETCDStopTerms ==
    ASSUME TermsInv, TypeInv', NEW a \in Caller, ETCDStop(a)
    PROVE  TermsInv'
<1>0. Typed /\ OneBusy /\ Busy(a) /\ (\A c \in Controller : LoopsOf(c) \subseteq Loop)
  BY Names DEF TermsInv, TypeInv, ETCDStop, Move, Busy
<1>1. /\ UNCHANGED <<ctrlVars, loopVars, closed, sending, process>>
      /\ process = "up"
  BY DEF ETCDStop, Move
<1>2. /\ \A k \in Loop : Stage(k)' = Stage(k)
      /\ OneTerm' /\ WaitsOnNewest' /\ ClosedWhenTold' /\ Marks'
  BY <1>1, LoopsKept DEF ctrlVars
<1>3. PICK to \in {"etcd.Wait", "return"} :
         /\ Move(a, "etcd.Stop", to)
         /\ to = "etcd.Wait" =>
               /\ running["etcd"]
               /\ spawned' = [k \in Loop |-> IF k \in LoopsOf("etcd")
                                             THEN spawned[k] + 1 ELSE spawned[k]]
         /\ to = "return" => ~running["etcd"] /\ spawned' = spawned
  BY DEF ETCDStop, MayStop
<1>4. /\ pc[a] = "etcd.Stop" /\ pc'[a] = to
      /\ \A b \in Caller : b # a => pc'[b] \in {"idle", "done"}
      /\ OneBusy'
      /\ ~Stopping("etcd") /\ (Stopping("etcd")' <=> to = "etcd.Wait")
      /\ ~Stopping("dns") /\ ~Stopping("dns")'
      /\ \A c \in Controller : ~Starting(c)
  BY <1>0, <1>3, CallerMoves DEF MakeOf
<1>5. LoopsInv'
  BY <1>0, <1>1, <1>2, <1>4 DEF TermsInv, LoopsInv, LiveMatches, ctrlVars,
     Controller
<1>6. ~running["dns"] /\ \A k \in LoopsOf("etcd") : Stage(k) # "spawned"
  BY <1>4 DEF TermsInv, CallersInv, DNSStops, ETCDStops
<1>7. CallersInv'
  BY <1>0, <1>1, <1>3, <1>4, <1>6
     DEF CallersInv, RunsWhenDown, DNSStops, ETCDStops, MakeOf, ctrlVars
<1>8. Tokens'
  <2>1. CASE to = "return"
    BY <1>0, <1>1, <1>2, <1>3, <1>4, <2>1, TokensKept, Names DEF ctrlVars
  <2>2. CASE to = "etcd.Wait"
    <3>1. ASSUME NEW k \in LoopsOf("dns") PROVE NoToken(k)'
      <4>1. k \in Loop /\ k \notin LoopsOf("etcd") /\ NoToken(k)
        BY Names DEF LoopsOf, TermsInv, Tokens
      <4> QED
        BY <1>1, <1>3, <2>2, <4>1 DEF NoToken
    <3>2. ASSUME NEW k \in LoopsOf("etcd")
          PROVE  OneToken(k)' /\ Stage(k)' \in {"select", "working"}
      <4>1. k \in Loop /\ NoToken(k)
        BY <1>4, Names DEF TermsInv, Tokens
      <4>2. Stage(k) \in LiveStage
        BY <1>3, <1>4, <2>2, Names DEF TermsInv, LoopsInv, LiveMatches
      <4>3. spawned'[k] = 1 /\ \A n \in Generation : sending'[k][n] = 0
        BY <1>1, <1>3, <2>2, <4>1 DEF NoToken
      <4> QED
        BY <1>2, <1>6, <4>1, <4>2, <4>3 DEF OneToken, LiveStage
    <3> QED
      BY <1>4, <2>2, <3>1, <3>2 DEF Tokens
  <2> QED
    BY <2>1, <2>2
<1> QED
  BY <1>1, <1>2, <1>4, <1>5, <1>7, <1>8, GoesOn DEF TermsInv

(* Neither loop is marked: both were told, and have returned.              *)
LEMMA LoopsReturned ==
    ASSUME TermsInv, NEW a \in Caller, ETCDStopped(a)
    PROVE  \A k \in LoopsOf("etcd") : Stage(k) = "none" /\ NoToken(k)
<1>1. Stopping("etcd") /\ \A k \in LoopsOf("etcd") : ~started[k]
  BY DEF ETCDStopped, Move, LoopsMarked, Stopping
<1> QED
  BY <1>1 DEF TermsInv, Marks, Tokens

LEMMA ETCDStoppedTerms ==
    ASSUME TermsInv, TypeInv', NEW a \in Caller, ETCDStopped(a)
    PROVE  TermsInv'
<1>0. Typed /\ OneBusy /\ Busy(a) /\ (\A c \in Controller : LoopsOf(c) \subseteq Loop)
  BY Names DEF TermsInv, TypeInv, ETCDStopped, Move, Busy
<1>1. /\ UNCHANGED <<runs, loopVars, sendVars, process>>
      /\ process = "up"
      /\ running' = [running EXCEPT !["etcd"] = FALSE]
      /\ Move(a, "etcd.Wait", "return")
  BY DEF ETCDStopped, Move
<1>2. /\ \A k \in Loop : Stage(k)' = Stage(k)
      /\ OneTerm' /\ WaitsOnNewest' /\ ClosedWhenTold' /\ Marks'
  BY <1>1, LoopsKept DEF sendVars
<1>3. /\ pc[a] = "etcd.Wait" /\ pc'[a] = "return"
      /\ \A b \in Caller : b # a => pc'[b] \in {"idle", "done"}
      /\ OneBusy'
      /\ ~Stopping("etcd")' /\ ~Stopping("dns") /\ ~Stopping("dns")'
      /\ ~Starting("dns")
  BY <1>0, <1>1, CallerMoves, Names DEF MakeOf
<1>4. /\ ~running'["etcd"]
      /\ running'["dns"] <=> running["dns"]
  BY <1>0, <1>1, Names DEF Typed
<1>5. \A k \in LoopsOf("etcd") : Stage(k) = "none" /\ NoToken(k)
  BY LoopsReturned
<1>6. LoopsInv'
  <2>1. LiveMatches("etcd")'
    BY <1>0, <1>2, <1>4, <1>5, Names DEF LiveMatches, LiveStage
  <2>2. LiveMatches("dns")'
    BY <1>0, <1>2, <1>3, <1>4, Names DEF TermsInv, LoopsInv, LiveMatches
  <2> QED
    BY <1>2, <2>1, <2>2 DEF LoopsInv, Controller
<1>7. ~running["dns"]
  BY <1>3 DEF TermsInv, CallersInv, DNSStops
<1>8. CallersInv'
  BY <1>3, <1>4, <1>7 DEF CallersInv, RunsWhenDown, DNSStops, ETCDStops, MakeOf
<1>9. Tokens'
  BY <1>1, <1>3, <1>5 DEF TermsInv, Tokens, NoToken, sendVars
<1> QED
  BY <1>1, <1>2, <1>3, <1>6, <1>8, <1>9, GoesOn DEF TermsInv

(* The process ends after the Stops of both controllers.                   *)
LEMMA ReturnTerms ==
    ASSUME TermsInv, TypeInv', NEW a \in Caller, Return(a)
    PROVE  TermsInv'
<1>0. Typed /\ OneBusy /\ Busy(a) /\ (\A c \in Controller : LoopsOf(c) \subseteq Loop)
  BY Names DEF TermsInv, TypeInv, Return, Move, Busy
<1>1. /\ UNCHANGED <<ctrlVars, loopVars, sendVars>>
      /\ process = "up" /\ process' \in {"up", "exited"}
  BY DEF Return, Move
<1>2. PICK to \in {"idle", "done"} : Move(a, "return", to)
  BY DEF Return
<1>3. /\ pc[a] = "return"
      /\ \A b \in Caller : pc'[b] \in {"idle", "done"}
      /\ OneBusy'
      /\ ~Stopping("etcd") /\ ~Stopping("etcd")'
      /\ ~Stopping("dns") /\ ~Stopping("dns")'
      /\ \A c \in Controller : ~Starting(c)
  BY <1>0, <1>2, CallerMoves DEF MakeOf
<1>4. /\ \A k \in Loop : Stage(k)' = Stage(k)
      /\ OneTerm' /\ WaitsOnNewest' /\ ClosedWhenTold' /\ Marks'
  BY <1>1, LoopsKept DEF ctrlVars, sendVars
<1>5. LoopsInv'
  BY <1>0, <1>1, <1>3, <1>4 DEF TermsInv, LoopsInv, LiveMatches, ctrlVars,
     Controller
<1>6. CallersInv'
  BY <1>3 DEF CallersInv, RunsWhenDown, DNSStops, ETCDStops, MakeOf
<1>7. Tokens'
  BY <1>0, <1>1, <1>3, <1>4, TokensKept, Names DEF ctrlVars, sendVars
<1>8. NoPanic' /\ ExitsDown'
  <2>1. \A c \in Controller : ~running[c]
    BY <1>3 DEF TermsInv, CallersInv, DNSStops, ETCDStops, Controller
  <2>2. \A k \in Loop : Stage(k) \notin LiveStage
    BY <2>1, Names DEF TermsInv, LoopsInv, LiveMatches, Loop, LoopsOf, Controller
  <2>3. \A k \in Loop : Live(k) = {}
    BY <1>0, <2>2, LiveIsStage DEF TermsInv, LoopsInv
  <2>4. \A k \in Loop : Live(k)' = Live(k)
    BY <1>1 DEF Live, loopVars
  <2> QED
    BY <1>1, <2>3, <2>4 DEF NoPanic, ExitsDown
<1> QED
  BY <1>3, <1>4, <1>5, <1>6, <1>7, <1>8 DEF TermsInv

(* Run finds nothing left of earlier loops.                                *)
LEMMA RunStages ==
    ASSUME TermsInv, NEW a \in Caller, NEW c \in Controller, Run(a, c),
           ~running[c]
    PROVE  \A k \in LoopsOf(c) : Stage(k) = "none"
<1>1. Typed /\ pc[a] = RunOf(c) /\ LoopsOf(c) \subseteq Loop
  BY Names DEF Run, Move, RunOf, TermsInv, TypeInv
<1>2. \A k \in LoopsOf(c) : Stage(k) \notin LiveStage
  BY DEF TermsInv, LoopsInv, LiveMatches
<1>3. \A k \in LoopsOf(c) : Stage(k) \notin {"told", "leaving"}
  BY <1>1 DEF TermsInv, CallersInv, RunsWhenDown, RunOf, Controller
<1> QED
  BY <1>1, <1>2, <1>3, StageType DEF Stages, LiveStage

(* It marks the controller as running and starts nothing yet.              *)
LEMMA RunTerms ==
    ASSUME TermsInv, TypeInv', NEW a \in Caller, NEW c \in Controller, Run(a, c)
    PROVE  TermsInv'
<1>0. /\ Typed /\ OneBusy /\ Busy(a) /\ process = "up"
      /\ \A d \in Controller : LoopsOf(d) \subseteq Loop
      /\ "dns" \in Controller /\ "etcd" \in Controller
      /\ UNCHANGED <<runs, loopVars, sendVars, process>>
  BY Names DEF TermsInv, TypeInv, Run, RunOf, Move, Busy
<1>1. PICK to :
         /\ Move(a, RunOf(c), to)
         /\ running[c] => to = AfterRun(c) /\ running' = running
         /\ ~running[c] => /\ to = MakeOf(c)
                           /\ running' = [running EXCEPT ![c] = TRUE]
  BY DEF Run, MayRun
<1>2. /\ pc[a] = RunOf(c) /\ pc'[a] = to
      /\ \A b \in Caller : b # a => pc'[b] \in {"idle", "done"}
      /\ OneBusy'
      /\ \A d \in Controller : ~Stopping(d) /\ ~Stopping(d)' /\ ~Starting(d)
      /\ Starting(c)' <=> to = MakeOf(c)
  <2>1. to \in {"etcd.Make", "dns.Make", "dns.Run", "idle"}
    BY <1>1 DEF MakeOf, AfterRun, Typed
  <2> QED
    BY <1>0, <1>1, <2>1, CallerMoves DEF RunOf, MakeOf, Controller
<1>3. /\ \A k \in Loop : Stage(k)' = Stage(k)
      /\ OneTerm' /\ WaitsOnNewest' /\ ClosedWhenTold' /\ Marks'
  BY <1>0, LoopsKept DEF sendVars
<1>4. /\ running'[c]
      /\ \A d \in Controller : d # c => running'[d] = running[d]
  BY <1>0, <1>1 DEF Typed
<1>5. LoopsInv'
  <2>1. LiveMatches(c)'
    BY <1>0, <1>1, <1>2, <1>3, <1>4
       DEF TermsInv, LoopsInv, LiveMatches
  <2>2. ASSUME NEW d \in Controller, d # c PROVE LiveMatches(d)'
    BY <1>0, <1>2, <1>3, <1>4, <2>2 DEF TermsInv, LoopsInv, LiveMatches
  <2> QED
    BY <1>3, <2>1, <2>2 DEF LoopsInv
<1>6. CallersInv'
  <2>1. RunsWhenDown(a) /\ to \in {"etcd.Make", "dns.Make", "dns.Run", "idle"}
    BY <1>1 DEF TermsInv, CallersInv, MakeOf, AfterRun, Typed
  <2>2. ~running[c] => \A k \in LoopsOf(c) : Stage(k) = "none"
    BY RunStages
  <2>3. RunsWhenDown(a)'
    <3>1. CASE running[c]
      BY <1>0, <1>1, <1>2, <1>3, <2>1, <3>1, Names
         DEF RunsWhenDown, RunOf, AfterRun, MakeOf, Controller
    <3>2. CASE ~running[c]
      BY <1>0, <1>1, <1>2, <1>3, <1>4, <2>1, <2>2, <3>2, Names
         DEF RunsWhenDown, RunOf, MakeOf, Controller
    <3> QED
      BY <3>1, <3>2
  <2> QED
    BY <1>2, <2>1, <2>3 DEF CallersInv, RunsWhenDown, DNSStops, ETCDStops, MakeOf
<1>7. Tokens'
  BY <1>0, <1>2, <1>3, TokensKept DEF sendVars
<1> QED
  BY <1>0, <1>2, <1>3, <1>5, <1>6, <1>7, GoesOn DEF TermsInv

(* The loops of the next channels take the place of none.                  *)
LEMMA MakeStages ==
    ASSUME TermsInv, NEW a \in Caller, NEW c \in Controller, MakeChannels(a, c)
    PROVE  /\ runs[c] + 1 \in Generation /\ runs' = [runs EXCEPT ![c] = runs[c] + 1]
           /\ \A k \in LoopsOf(c) : Stage(k) = "none" /\ Stage(k)' = "spawned"
           /\ \A k \in Loop \ LoopsOf(c) : Stage(k)' = Stage(k)
           /\ OneTerm'
<1> DEFINE n == runs[c] + 1
<1>0. /\ Typed /\ OneTerm /\ runs[c] \in 0..MaxRuns
      /\ pc[a] = MakeOf(c)
      /\ LoopsOf(c) \subseteq Loop
      /\ \A k \in Loop : ControllerOf(k) \in Controller
      /\ \A k \in Loop : k \in LoopsOf(c) <=> ControllerOf(k) = c
  BY Names, RunsType DEF MakeChannels, Move, TermsInv, TypeInv, LoopsInv,
     Controller, Loop, LoopsOf, ControllerOf
<1>1. /\ runs' = [runs EXCEPT ![c] = n]
      /\ loop' = [k \in Loop |->
            IF k \in LoopsOf(c) THEN [loop[k] EXCEPT ![n] = "spawned"]
                                ELSE loop[k]]
      /\ n \in Generation
  BY DEF MakeChannels, NewChannel
<1>2. n # 0 /\ n # runs[c] /\ runs'[c] = n
  BY <1>0, <1>1 DEF Typed
<1>3. \A k \in LoopsOf(c) : Stage(k) = "none"
  BY <1>0 DEF TermsInv, CallersInv, RunsWhenDown
<1>4. \A k \in LoopsOf(c) : \A g \in Generation :
         loop[k][g] = "none" /\ loop'[k][g] = IF g = n THEN "spawned" ELSE "none"
  BY <1>0, <1>1, <1>3, StageNone DEF Typed
<1>5. \A k \in Loop \ LoopsOf(c) :
         loop'[k] = loop[k] /\ runs'[ControllerOf(k)] = runs[ControllerOf(k)]
  BY <1>0, <1>1 DEF Typed
<1> HIDE DEF n
<1>6. \A k \in LoopsOf(c) : Stage(k)' = "spawned"
  BY <1>0, <1>1, <1>2, <1>4 DEF Stage
<1>7. \A k \in Loop \ LoopsOf(c) : Stage(k)' = Stage(k)
  BY <1>5 DEF Stage
<1>8. OneTerm'
  BY <1>0, <1>2, <1>4, <1>5 DEF OneTerm
<1> QED
  BY <1>1, <1>3, <1>6, <1>7, <1>8 DEF n

LEMMA MakeTerms ==
    ASSUME TermsInv, TypeInv', NEW a \in Caller, NEW c \in Controller,
           MakeChannels(a, c)
    PROVE  TermsInv'
<1>0. /\ Typed /\ OneBusy /\ Busy(a) /\ LoopsOf(c) \subseteq Loop
      /\ \A k \in Loop : ControllerOf(k) \in Controller
      /\ \A k \in Loop : k \in LoopsOf(c) <=> ControllerOf(k) = c
      /\ "dns" \in Controller /\ "etcd" \in Controller
  BY Names DEF TermsInv, TypeInv, MakeChannels, MakeOf, Move, Busy, Controller,
     Loop, LoopsOf, ControllerOf
<1>1. /\ UNCHANGED <<running, waitsOn, started, sendVars, process>>
      /\ process = "up"
      /\ Move(a, MakeOf(c), AfterRun(c))
  BY DEF MakeChannels, Move
<1>2. /\ pc[a] = MakeOf(c) /\ pc'[a] = AfterRun(c)
      /\ \A b \in Caller : b # a => pc'[b] \in {"idle", "done"}
      /\ OneBusy'
      /\ \A d \in Controller :
            /\ ~Stopping(d) /\ ~Stopping(d)'
            /\ Starting(d) => d = c
  BY <1>0, <1>1, CallerMoves DEF MakeOf, AfterRun, Controller
<1>3. \A k \in Loop : NoToken(k)'
  BY <1>0, <1>1, <1>2 DEF TermsInv, Tokens, NoToken, sendVars, Loop, LoopsOf
<1>4. Tokens'
  BY <1>0, <1>2, <1>3, Names DEF Tokens
<1>5. running[c]
  BY <1>2 DEF TermsInv, CallersInv, RunsWhenDown
<1>6. /\ runs[c] + 1 \in Generation /\ runs' = [runs EXCEPT ![c] = runs[c] + 1]
      /\ \A k \in LoopsOf(c) : Stage(k) = "none" /\ Stage(k)' = "spawned"
      /\ \A k \in Loop \ LoopsOf(c) : Stage(k)' = Stage(k)
      /\ OneTerm'
  BY MakeStages
<1>7. \A d \in Controller : d # c => runs'[d] = runs[d]
  BY <1>0, <1>6 DEF Typed
<1>8. WaitsOnNewest'
  BY <1>0, <1>1, <1>6, <1>7 DEF TermsInv, LoopsInv, WaitsOnNewest
<1>9. ClosedWhenTold'
  <2>1. runs[c] \in 0..MaxRuns /\ runs'[c] = runs[c] + 1
    BY <1>0, <1>6, RunsType DEF Typed
  <2> SUFFICES ASSUME NEW k \in Loop, NEW n \in Generation, <<k, n>> \in closed
               PROVE  /\ n <= runs'[ControllerOf(k)]
                      /\ n = runs'[ControllerOf(k)]
                            => Stage(k)' \in {"leaving", "none"}
    BY <1>1 DEF ClosedWhenTold, sendVars
  <2>2. /\ n <= runs[ControllerOf(k)]
        /\ n = runs[ControllerOf(k)] => Stage(k) \in {"leaving", "none"}
    BY DEF TermsInv, LoopsInv, ClosedWhenTold
  <2>3. n \in Nat
    BY ConstantsAssumption DEF Generation
  <2>4. CASE k \in LoopsOf(c)
    BY <1>0, <2>1, <2>2, <2>3, <2>4
  <2>5. CASE k \notin LoopsOf(c)
    BY <1>0, <1>6, <1>7, <2>2, <2>5
  <2> QED
    BY <2>4, <2>5
<1>10. Marks'
  BY <1>0, <1>1, <1>6, Names DEF TermsInv, Marks
<1>11. LoopsInv'
  <2>1. LiveMatches(c)'
    BY <1>0, <1>1, <1>5, <1>6 DEF LiveMatches, LiveStage
  <2>2. ASSUME NEW d \in Controller, d # c PROVE LiveMatches(d)'
    <3>1. ~Stopping(d) /\ ~Starting(d)
      BY <1>2, <2>2
    <3>2. \A k \in LoopsOf(d) : Stage(k)' = Stage(k)
      BY <1>0, <1>6, <2>2, Names
    <3> QED
      BY <1>1, <3>1, <3>2 DEF TermsInv, LoopsInv, LiveMatches
  <2> QED
    BY <1>6, <1>8, <1>9, <2>1, <2>2 DEF LoopsInv
<1>12. CallersInv'
  <2>1. pc'[a] = "dns.Run" =>
           \A k \in LoopsOf("dns") : Stage(k)' \notin {"told", "leaving"}
    BY <1>0, <1>2, <1>6, Names
       DEF TermsInv, CallersInv, RunsWhenDown, MakeOf, AfterRun, Controller
  <2>2. pc'[a] \in {"dns.Run", "idle"}
    BY <1>2 DEF AfterRun
  <2> QED
    BY <1>2, <2>1, <2>2 DEF CallersInv, RunsWhenDown, DNSStops, ETCDStops, MakeOf
<1> QED
  BY <1>1, <1>2, <1>4, <1>10, <1>11, <1>12, GoesOn DEF TermsInv

(* The newest channel of a loop that was not told to stop is open.         *)
LEMMA OpenChannel ==
    ASSUME TermsInv, NEW k \in Loop, Stage(k) \notin {"leaving", "none"}
    PROVE  <<k, runs[ControllerOf(k)]>> \notin closed
<1>1. runs[ControllerOf(k)] \in Generation
  BY StageType DEF TermsInv, TypeInv
<1> QED
  BY <1>1 DEF TermsInv, LoopsInv, ClosedWhenTold

(* The newest loop, at its select, takes the token.                        *)
LEMMA ToldNewest ==
    ASSUME TermsInv, NEW k \in Loop, NEW n, Told(k, n), UNCHANGED runs
    PROVE  /\ n = runs[ControllerOf(k)]
           /\ Stage(k) = "select" /\ Stage(k)' = "told"
           /\ \A j \in Loop \ {k} : Stage(j)' = Stage(j)
           /\ OneTerm'
<1>0. Typed /\ OneTerm
  BY DEF TermsInv, TypeInv, LoopsInv
<1>1. PICK g \in Generation : /\ loop[k][g] = "select" /\ waitsOn[k][g] = n
                              /\ loop' = [loop EXCEPT ![k][g] = "told"]
  BY DEF Told
<1>2. g = runs[ControllerOf(k)] /\ Stage(k) = "select"
  BY <1>0, <1>1, StageOfLoop
<1>3. n = runs[ControllerOf(k)]
  BY <1>1, <1>2 DEF TermsInv, LoopsInv, WaitsOnNewest
<1> QED
  BY <1>0, <1>1, <1>2, <1>3, StageMoves

(* The invariant's part on channels, when a loop has been told.            *)
LEMMA ToldChannels ==
    ASSUME TermsInv, NEW k \in Loop, UNCHANGED <<runs, waitsOn, closed>>,
           Stage(k) = "select", Stage(k)' = "told",
           \A j \in Loop \ {k} : Stage(j)' = Stage(j)
    PROVE  WaitsOnNewest' /\ ClosedWhenTold'
BY DEF TermsInv, LoopsInv, WaitsOnNewest, ClosedWhenTold

LEMMA DNSSendTerms ==
    ASSUME TermsInv, TypeInv', NEW a \in Caller, NEW k \in LoopsOf("dns"),
           DNSSend(a, k)
    PROVE  TermsInv'
<1>0. /\ Typed /\ OneBusy /\ Busy(a) /\ pc[a] = SendTo(k)
      /\ k \in Loop /\ ControllerOf(k) = "dns" /\ (k = "sync" \/ k = "lb")
      /\ k \notin LoopsOf("etcd")
      /\ \A c \in Controller : LoopsOf(c) \subseteq Loop
  BY Names DEF TermsInv, TypeInv, DNSSend, Move, Busy, SendTo, LoopsOf
<1>1. /\ UNCHANGED <<ctrlVars, waitsOn, started, sendVars>>
      /\ process = "up"
  BY DEF DNSSend, Move
<1>2. /\ sendsOn[a] = runs["dns"] /\ running["dns"]
      /\ Stage(k) \in LiveStage
  BY <1>0 DEF TermsInv, CallersInv, DNSStops, SendTo
<1>3. <<k, sendsOn[a]>> \notin closed
  BY <1>0, <1>2, OpenChannel DEF LiveStage
<1>4. /\ Move(a, SendTo(k), AfterSend(k)) /\ Told(k, sendsOn[a])
      /\ sendsOn' = [sendsOn EXCEPT ![a] = runs["dns"]]
      /\ UNCHANGED process
  BY <1>3 DEF DNSSend
<1>5. /\ pc'[a] = AfterSend(k)
      /\ \A b \in Caller : b # a => pc'[b] \in {"idle", "done"}
      /\ OneBusy'
      /\ ~Stopping("etcd") /\ ~Stopping("etcd")' /\ Stopping("dns")'
      /\ \A c \in Controller : ~Starting(c)
  BY <1>0, <1>4, CallerMoves DEF SendTo, AfterSend, MakeOf
<1>6. /\ Stage(k) = "select" /\ Stage(k)' = "told"
      /\ \A j \in Loop \ {k} : Stage(j)' = Stage(j)
      /\ OneTerm'
  BY <1>0, <1>1, <1>4, ToldNewest DEF ctrlVars
<1>7. WaitsOnNewest' /\ ClosedWhenTold'
  BY <1>0, <1>1, <1>6, ToldChannels DEF ctrlVars, sendVars
<1>8. LoopsInv'
  <2>1. LiveMatches("dns")'
    BY <1>0, <1>1, <1>2, <1>5, Names DEF LiveMatches, ctrlVars
  <2>2. LiveMatches("etcd")'
    BY <1>0, <1>1, <1>5, <1>6, Names DEF TermsInv, LoopsInv, LiveMatches, ctrlVars
  <2> QED
    BY <1>6, <1>7, <2>1, <2>2 DEF LoopsInv, Controller
<1>9. \A j \in LoopsOf("etcd") : Stage(j)' = Stage(j)
  BY <1>0, <1>6, Names
<1>10. CallersInv'
  <2>1. sendsOn'[a] = runs["dns"]
    BY <1>0, <1>4 DEF Typed
  <2>2. \A j \in LoopsOf("etcd") : Stage(j) # "spawned"
    BY <1>0 DEF TermsInv, CallersInv, ETCDStops, SendTo
  <2>3. RunsWhenDown(a)' /\ ETCDStops(a)'
    BY <1>0, <1>5, <1>9, <2>2 DEF RunsWhenDown, ETCDStops, AfterSend, SendTo, MakeOf
  <2>4. DNSStops(a)'
    <3>1. CASE k = "sync"
      <4>1. Stage("lb") \in LiveStage /\ Stage("lb")' = Stage("lb")
        BY <1>0, <1>6, <3>1 DEF TermsInv, CallersInv, DNSStops, SendTo, Loop
      <4> QED
        BY <1>1, <1>2, <1>5, <1>6, <2>1, <3>1, <4>1
           DEF DNSStops, AfterSend, SendTo, LiveStage, ctrlVars
    <3>2. CASE k = "lb"
      <4>1. Stage("sync") \notin LiveStage /\ Stage("sync")' = Stage("sync")
        BY <1>0, <1>6, <3>2 DEF TermsInv, CallersInv, DNSStops, SendTo, Loop
      <4> QED
        BY <1>1, <1>2, <1>5, <1>6, <3>2, <4>1
           DEF DNSStops, AfterSend, LiveStage, ctrlVars
    <3> QED
      BY <1>0, <3>1, <3>2
  <2> QED
    BY <1>5, <2>3, <2>4 DEF CallersInv, RunsWhenDown, DNSStops, ETCDStops, MakeOf
<1>11. Tokens'
  BY <1>1, <1>5, <1>9, TokensKept DEF ctrlVars, sendVars
<1>12. Marks'
  BY <1>1, <1>9 DEF TermsInv, Marks
<1> QED
  BY <1>1, <1>4, <1>5, <1>8, <1>10, <1>11, <1>12, GoesOn DEF TermsInv

LEMMA CallerTerms ==
    ASSUME Prompt, Apart, OneCaller, TermsInv, TypeInv', NEW a \in Caller,
           CallerStep(a)
    PROVE  TermsInv'
BY TakeTerms, RunTerms, MakeTerms, DNSStopTerms, DNSStoppedTerms, ETCDStopTerms,
   ETCDStoppedTerms, ReturnTerms DEF CallerStep

-----------------------------------------------------------------------------
(* The goroutines *)

(* A goroutine's step disturbs no caller that does not wait for it: the    *)
(* loop that moves stays alive or stays told, and comes back from nowhere. *)
LEMMA LoopMoves ==
    ASSUME TermsInv, TypeInv', NEW k \in Loop, NEW g \in Generation, NEW from,
           NEW to \in {"select", "working", "leaving", "none"},
           Advance(k, g, from, to),
           "none" \notin from,
           \A s \in from : s \in LiveStage <=> to \in LiveStage,
           UNCHANGED <<ctrlVars, callVars, spawned, sending, process>>
    PROVE  /\ g = runs[ControllerOf(k)] /\ Stage(k) \in from /\ Stage(k)' = to
           /\ \A j \in Loop \ {k} : Stage(j)' = Stage(j)
           /\ OneTerm' /\ OneBusy' /\ NoPanic' /\ ExitsDown' /\ CallersInv'
           /\ Tokens'
           /\ \A c \in Controller : LiveMatches(c)'
<1>0. /\ Typed /\ OneTerm /\ process = "up"
      /\ \A c \in Controller : LoopsOf(c) \subseteq Loop
      /\ "dns" \in Controller /\ "etcd" \in Controller
  BY Names DEF TermsInv, TypeInv, LoopsInv, Advance
<1>1. /\ g = runs[ControllerOf(k)] /\ Stage(k) \in from /\ Stage(k)' = to
      /\ \A j \in Loop \ {k} : Stage(j)' = Stage(j)
      /\ OneTerm'
  <2>1. /\ loop[k][g] \in from /\ loop[k][g] # "none"
        /\ loop' = [loop EXCEPT ![k][g] = to] /\ runs' = runs
    BY DEF Advance, ctrlVars
  <2>2. g = runs[ControllerOf(k)] /\ Stage(k) = loop[k][g]
    BY <1>0, <2>1, StageOfLoop
  <2>3. /\ Stage(k)' = to /\ OneTerm'
        /\ \A j \in Loop \ {k} : Stage(j)' = Stage(j)
    BY <1>0, <2>1, StageMoves
  <2> QED
    BY <2>1, <2>2, <2>3
<1>2. \A j \in Loop : /\ Stage(j)' \in LiveStage <=> Stage(j) \in LiveStage
                      /\ Stage(j)' \in {"told", "leaving"} =>
                            Stage(j) \in {"told", "leaving"}
                      /\ Stage(j)' = "spawned" => Stage(j) = "spawned"
                      /\ Stage(j) = "none" => Stage(j)' = "none"
  <2>1. Stage(k) \in Stages
    BY <1>0, StageType
  <2> QED
    BY <1>1, <2>1 DEF LiveStage, Stages
<1>3. /\ OneBusy'
      /\ \A c \in Controller : /\ Stopping(c)' <=> Stopping(c)
                               /\ Starting(c)' <=> Starting(c)
  BY DEF TermsInv, OneBusy, Busy, Stopping, Starting, callVars
<1>4. NoPanic' /\ ExitsDown'
  BY <1>0, GoesOn
<1>5. \A c \in Controller : LiveMatches(c)'
  BY <1>0, <1>2, <1>3 DEF TermsInv, LoopsInv, LiveMatches, ctrlVars
<1>6. CallersInv'
  <2> SUFFICES ASSUME NEW b \in Caller
               PROVE  RunsWhenDown(b)' /\ DNSStops(b)' /\ ETCDStops(b)'
    BY DEF CallersInv
  <2>0. RunsWhenDown(b) /\ DNSStops(b) /\ ETCDStops(b)
    BY DEF TermsInv, CallersInv
  <2>1. RunsWhenDown(b)'
    BY <1>0, <1>2, <2>0 DEF RunsWhenDown, callVars, ctrlVars
  <2>2. DNSStops(b)'
    BY <1>2, <2>0 DEF DNSStops, Loop, callVars, ctrlVars
  <2>3. ETCDStops(b)'
    BY <1>0, <1>2, <2>0 DEF ETCDStops, callVars, ctrlVars
  <2> QED
    BY <2>1, <2>2, <2>3
<1>7. Tokens'
  <2>0. \A j \in LoopsOf("dns") : NoToken(j)'
    BY DEF TermsInv, Tokens, NoToken
  <2>1. ASSUME NEW j \in LoopsOf("etcd")
        PROVE  /\ ~Stopping("etcd")' => NoToken(j)'
               /\ Stopping("etcd")' =>
                     \/ OneToken(j)' /\ Stage(j)' \in {"select", "working"}
                     \/ NoToken(j)' /\ Stage(j)' \in {"told", "leaving", "none"}
    <3>1. (NoToken(j)' <=> NoToken(j)) /\ (OneToken(j)' <=> OneToken(j))
      BY DEF NoToken, OneToken, ctrlVars
    <3>2. /\ Stage(j) \in {"select", "working"} => Stage(j)' \in {"select", "working"}
          /\ Stage(j) \in {"told", "leaving", "none"} =>
                Stage(j)' \in {"told", "leaving", "none"}
      BY <1>0, <1>1, <1>2 DEF LiveStage
    <3> QED
      BY <1>0, <1>3, <3>1, <3>2 DEF TermsInv, Tokens
  <2> QED
    BY <2>0, <2>1 DEF Tokens
<1> QED
  BY <1>1, <1>3, <1>4, <1>5, <1>6, <1>7

(* The channel a loop goes to wait on is open.                             *)
LEMMA EnterSelects ==
    ASSUME TermsInv, NEW k \in Loop, NEW g \in Generation, EnterSelect(k, g)
    PROVE  /\ Advance(k, g, {"spawned", "working"}, "select")
           /\ Stage(k) = loop[k][g]
<1>1. loop[k][g] \in {"spawned", "working"}
  BY DEF EnterSelect, Advance
<1>2. Stage(k) = loop[k][g]
  BY <1>1, StageOfLoop DEF TermsInv, TypeInv, LoopsInv
<1>3. <<k, runs[ControllerOf(k)]>> \notin closed
  BY <1>1, <1>2, OpenChannel
<1> QED
  BY <1>2, <1>3 DEF EnterSelect

LEMMA EnterSelectTerms ==
    ASSUME TermsInv, TypeInv', NEW k \in Loop, NEW g \in Generation,
           EnterSelect(k, g)
    PROVE  TermsInv'
<1>0. /\ Typed /\ UNCHANGED <<ctrlVars, sendVars, callVars, process>>
      /\ Advance(k, g, {"spawned", "working"}, "select")
      /\ waitsOn' = [waitsOn EXCEPT ![k][g] = runs[ControllerOf(k)]]
      /\ started' = [j \in LoopsOf("etcd") |->
                        started[j] \/ (j = k /\ loop[k][g] = "spawned")]
      /\ Stage(k) = loop[k][g]
  BY EnterSelects DEF EnterSelect, TermsInv, TypeInv
<1>1. /\ g = runs[ControllerOf(k)] /\ Stage(k) \in {"spawned", "working"}
      /\ Stage(k)' = "select"
      /\ \A j \in Loop \ {k} : Stage(j)' = Stage(j)
      /\ OneTerm' /\ OneBusy' /\ NoPanic' /\ ExitsDown' /\ CallersInv'
      /\ Tokens'
      /\ \A c \in Controller : LiveMatches(c)'
  BY <1>0, LoopMoves DEF LiveStage, sendVars
<1>2. WaitsOnNewest'
  <2>1. /\ waitsOn'[k][g] = runs[ControllerOf(k)]
        /\ \A j \in Loop \ {k} : waitsOn'[j] = waitsOn[j]
    BY <1>0 DEF Typed
  <2> QED
    BY <1>0, <1>1, <2>1 DEF TermsInv, LoopsInv, WaitsOnNewest, ctrlVars
<1>3. ClosedWhenTold'
  BY <1>0, <1>1 DEF TermsInv, LoopsInv, ClosedWhenTold, ctrlVars, sendVars
<1>4. Marks'
  <2> SUFFICES ASSUME NEW j \in LoopsOf("etcd")
               PROVE  started'[j] <=>
                         Stage(j)' \in {"select", "working", "told", "leaving"}
    BY DEF Marks
  <2>1. /\ j \in Loop
        /\ started'[j] <=> (started[j] \/ (j = k /\ Stage(k) = "spawned"))
    BY <1>0, Names
  <2> QED
    BY <1>1, <2>1 DEF TermsInv, Marks
<1> QED
  BY <1>1, <1>2, <1>3, <1>4 DEF TermsInv, LoopsInv

LEMMA WorkTerms ==
    ASSUME TermsInv, TypeInv', NEW k \in Loop, NEW g \in Generation, Work(k, g)
    PROVE  TermsInv'
<1>0. /\ UNCHANGED <<ctrlVars, waitsOn, started, sendVars, callVars, process>>
      /\ Advance(k, g, {"select"}, "working")
  BY DEF Work
<1>1. /\ Stage(k) = "select" /\ Stage(k)' = "working"
      /\ \A j \in Loop \ {k} : Stage(j)' = Stage(j)
      /\ OneTerm' /\ OneBusy' /\ NoPanic' /\ ExitsDown' /\ CallersInv'
      /\ Tokens'
      /\ \A c \in Controller : LiveMatches(c)'
  BY <1>0, LoopMoves DEF LiveStage, sendVars
<1>2. WaitsOnNewest' /\ ClosedWhenTold'
  BY <1>0, <1>1
     DEF TermsInv, LoopsInv, WaitsOnNewest, ClosedWhenTold, ctrlVars, sendVars
<1>3. Marks'
  BY <1>0, <1>1, Names DEF TermsInv, Marks
<1> QED
  BY <1>1, <1>2, <1>3 DEF TermsInv, LoopsInv

(* The channel a loop closes is its own, open, and has no sender left.     *)
LEMMA CloseIsSafe ==
    ASSUME TermsInv, NEW k \in Loop, Stage(k) = "told"
    PROVE  /\ <<k, runs[ControllerOf(k)]>> \notin closed
           /\ ~Blocked(k, runs[ControllerOf(k)])
<1> DEFINE n == runs[ControllerOf(k)]
<1>0. /\ n \in Generation /\ (k \in LoopsOf("dns") \/ k \in LoopsOf("etcd"))
  BY StageType DEF TermsInv, TypeInv, Loop, LoopsOf
<1>1. <<k, n>> \notin closed
  BY OpenChannel
<1>2. sending[k][n] = 0
  BY <1>0 DEF TermsInv, Tokens, NoToken
<1>3. ASSUME NEW a \in Caller, k \in LoopsOf("dns") PROVE pc[a] # SendTo(k)
  BY <1>3 DEF TermsInv, CallersInv, DNSStops, SendTo, LiveStage, LoopsOf
<1> QED
  BY <1>1, <1>2, <1>3 DEF Blocked

(* It is the only loop that waited on it.                                  *)
LEMMA CloseMoves ==
    ASSUME TermsInv, NEW k \in Loop, NEW g \in Generation, CloseChannel(k, g)
    PROVE  /\ Advance(k, g, {"told"}, "leaving")
           /\ Stage(k) = "told"
<1>0. Typed /\ OneTerm /\ process = "up" /\ loop[k][g] = "told"
  BY DEF CloseChannel, TermsInv, TypeInv, LoopsInv
<1>1. Stage(k) = "told" /\ \A h \in Generation : h # g => loop[k][h] = "none"
  BY <1>0, StageOfLoop DEF OneTerm
<1>2. loop' = [loop EXCEPT ![k] = [h \in Generation |->
                  IF h = g THEN "leaving" ELSE loop[k][h]]]
  BY <1>1 DEF CloseChannel
<1>3. loop[k] \in [Generation -> Stages]
  BY <1>0 DEF Typed, Stages
<1>4. [h \in Generation |-> IF h = g THEN "leaving" ELSE loop[k][h]]
         = [loop[k] EXCEPT ![g] = "leaving"]
  BY <1>3
<1>5. loop' = [loop EXCEPT ![k][g] = "leaving"]
  BY <1>0, <1>2, <1>4 DEF Typed
<1> QED
  BY <1>0, <1>1, <1>5 DEF Advance

LEMMA CloseChannelTerms ==
    ASSUME TermsInv, TypeInv', NEW k \in Loop, NEW g \in Generation,
           CloseChannel(k, g)
    PROVE  TermsInv'
<1>0. /\ UNCHANGED <<ctrlVars, waitsOn, started, spawned, sending, callVars>>
      /\ Advance(k, g, {"told"}, "leaving")
      /\ closed' = closed \cup {<<k, runs[ControllerOf(k)]>>}
      /\ Typed /\ OneTerm
  BY CloseMoves DEF CloseChannel, TermsInv, TypeInv, LoopsInv
<1>1. Stage(k) = "told"
  BY CloseMoves
<1>2. UNCHANGED process
  BY <1>1, CloseIsSafe DEF CloseChannel
<1>3. /\ Stage(k)' = "leaving"
      /\ \A j \in Loop \ {k} : Stage(j)' = Stage(j)
      /\ OneTerm' /\ OneBusy' /\ NoPanic' /\ ExitsDown' /\ CallersInv'
      /\ Tokens'
      /\ \A c \in Controller : LiveMatches(c)'
  BY <1>0, <1>2, LoopMoves DEF LiveStage
<1>4. WaitsOnNewest'
  BY <1>0, <1>3 DEF TermsInv, LoopsInv, WaitsOnNewest, ctrlVars
<1>5. ClosedWhenTold'
  <2> SUFFICES ASSUME NEW j \in Loop, NEW n \in Generation, <<j, n>> \in closed'
               PROVE  /\ n <= runs[ControllerOf(j)]
                      /\ n = runs[ControllerOf(j)]
                            => Stage(j)' \in {"leaving", "none"}
    BY <1>0 DEF ClosedWhenTold, ctrlVars
  <2>1. CASE <<j, n>> \in closed
    BY <1>1, <1>3, <2>1 DEF TermsInv, LoopsInv, ClosedWhenTold
  <2>2. CASE j = k /\ n = runs[ControllerOf(k)]
    <3>1. n \in Nat
      BY ConstantsAssumption DEF Generation
    <3> QED
      BY <1>3, <2>2, <3>1
  <2> QED
    BY <1>0, <2>1, <2>2
<1>6. Marks'
  BY <1>0, <1>1, <1>3, Names DEF TermsInv, Marks
<1> QED
  BY <1>3, <1>4, <1>5, <1>6 DEF TermsInv, LoopsInv

LEMMA LoopReturnsTerms ==
    ASSUME TermsInv, TypeInv', NEW k \in Loop, NEW g \in Generation,
           LoopReturns(k, g)
    PROVE  TermsInv'
<1>0. /\ UNCHANGED <<ctrlVars, waitsOn, sendVars, callVars, process>>
      /\ Advance(k, g, {"leaving"}, "none")
      /\ started' = [j \in LoopsOf("etcd") |-> started[j] /\ j # k]
  BY DEF LoopReturns
<1>1. /\ Stage(k) = "leaving" /\ Stage(k)' = "none"
      /\ \A j \in Loop \ {k} : Stage(j)' = Stage(j)
      /\ OneTerm' /\ OneBusy' /\ NoPanic' /\ ExitsDown' /\ CallersInv'
      /\ Tokens'
      /\ \A c \in Controller : LiveMatches(c)'
  BY <1>0, LoopMoves DEF LiveStage, sendVars
<1>2. WaitsOnNewest' /\ ClosedWhenTold'
  BY <1>0, <1>1
     DEF TermsInv, LoopsInv, WaitsOnNewest, ClosedWhenTold, ctrlVars, sendVars
<1>3. Marks'
  <2> SUFFICES ASSUME NEW j \in LoopsOf("etcd")
               PROVE  started'[j] <=>
                         Stage(j)' \in {"select", "working", "told", "leaving"}
    BY DEF Marks
  <2>1. j \in Loop /\ (started'[j] <=> (started[j] /\ j # k))
    BY <1>0, Names
  <2> QED
    BY <1>1, <2>1 DEF TermsInv, Marks
<1> QED
  BY <1>1, <1>2, <1>3 DEF TermsInv, LoopsInv

(* A sender is there because some caller waits in ETCDController.Stop.     *)
LEMMA TokenOfStop ==
    ASSUME TermsInv, NEW k \in LoopsOf("etcd"), ~NoToken(k)
    PROVE  /\ Stopping("etcd") /\ OneToken(k)
           /\ Stage(k) \in {"select", "working"}
           /\ runs["etcd"] \in Generation
           /\ \A a \in Caller : pc[a] \in {"idle", "done", "etcd.Wait"}
<1>1. Stopping("etcd") /\ OneToken(k) /\ Stage(k) \in {"select", "working"}
  BY DEF TermsInv, Tokens
<1>2. k \in Loop /\ ControllerOf(k) = "etcd"
  BY Names
<1>3. runs["etcd"] \in Generation
  BY <1>1, <1>2, StageType DEF TermsInv, TypeInv
<1>4. PICK a \in Caller : pc[a] = "etcd.Wait"
  BY <1>1 DEF Stopping
<1>5. \A b \in Caller : b # a => pc[b] \in {"idle", "done"}
  BY <1>4 DEF TermsInv, OneBusy, Busy
<1> QED
  BY <1>1, <1>3, <1>4, <1>5

LEMMA SenderStartsTerms ==
    ASSUME TermsInv, TypeInv', NEW k \in LoopsOf("etcd"), SenderStarts(k)
    PROVE  TermsInv'
<1> DEFINE n == runs["etcd"]
<1>0. /\ UNCHANGED <<ctrlVars, loopVars, closed, callVars, process>>
      /\ process = "up" /\ spawned[k] > 0
      /\ spawned' = [spawned EXCEPT ![k] = @ - 1]
      /\ Typed /\ k \in Loop /\ k \notin LoopsOf("dns")
      /\ \A c \in Controller : LoopsOf(c) \subseteq Loop
      /\ "dns" \in Controller /\ "etcd" \in Controller
  BY Names DEF SenderStarts, TermsInv, TypeInv, LoopsOf
<1>1. spawned[k] \in Nat /\ spawned[k] # 0
  BY <1>0 DEF Typed
<1>2. /\ Stopping("etcd") /\ n \in Generation
      /\ spawned[k] = 1 /\ \A m \in Generation : sending[k][m] = 0
      /\ Stage(k) \in {"select", "working"}
  BY <1>1, TokenOfStop DEF NoToken, OneToken
<1>3. sending' = [sending EXCEPT ![k][n] = @ + 1]
  <2>1. n # 0
    BY <1>2, ConstantsAssumption DEF Generation
  <2> QED
    BY <2>1 DEF SenderStarts
<1>4. /\ \A j \in Loop : Stage(j)' = Stage(j)
      /\ OneTerm' /\ WaitsOnNewest' /\ ClosedWhenTold' /\ Marks'
  BY <1>0, LoopsKept DEF ctrlVars
<1>5. /\ OneBusy'
      /\ \A c \in Controller : /\ Stopping(c)' <=> Stopping(c)
                               /\ Starting(c)' <=> Starting(c)
  BY <1>0 DEF TermsInv, OneBusy, Busy, Stopping, Starting, callVars
<1>6. LoopsInv'
  BY <1>0, <1>4, <1>5 DEF TermsInv, LoopsInv, LiveMatches, ctrlVars
<1>7. CallersInv'
  BY <1>0, <1>4 DEF TermsInv, CallersInv, RunsWhenDown, DNSStops, ETCDStops, Loop,
     callVars, ctrlVars
<1>8. OneToken(k)'
  <2>1. spawned'[k] = 0
    BY <1>0, <1>2 DEF Typed
  <2>2. sending[k] \in [Generation -> Nat]
    BY <1>0 DEF Typed
  <2> HIDE DEF n
  <2>3. sending' = [sending EXCEPT ![k] = [sending[k] EXCEPT ![n] = @ + 1]]
    BY <1>3
  <2>4. sending'[k] = [sending[k] EXCEPT ![n] = @ + 1]
    BY <1>0, <2>3 DEF Typed
  <2>5. \A m \in Generation : sending'[k][m] = IF m = n THEN 1 ELSE 0
    BY <1>2, <2>2, <2>4
  <2> QED
    BY <1>0, <2>1, <2>5 DEF OneToken, ctrlVars, n
<1>9. Tokens'
  <2>1. \A j \in Loop \ {k} : spawned'[j] = spawned[j] /\ sending'[j] = sending[j]
    BY <1>0, <1>3 DEF Typed
  <2>2. \A j \in LoopsOf("dns") : NoToken(j)'
    BY <1>0, <2>1 DEF TermsInv, Tokens, NoToken
  <2>3. \A j \in LoopsOf("etcd") : j # k =>
           (NoToken(j)' <=> NoToken(j)) /\ (OneToken(j)' <=> OneToken(j))
    BY <1>0, <2>1 DEF NoToken, OneToken, ctrlVars
  <2> QED
    BY <1>0, <1>2, <1>4, <1>5, <1>8, <2>2, <2>3 DEF TermsInv, Tokens
<1> QED
  BY <1>0, <1>4, <1>5, <1>6, <1>7, <1>9, GoesOn DEF TermsInv

LEMMA ETCDSendTerms ==
    ASSUME TermsInv, TypeInv', NEW k \in LoopsOf("etcd"), NEW n \in Generation,
           ETCDSend(k, n)
    PROVE  TermsInv'
<1>0. /\ UNCHANGED <<ctrlVars, waitsOn, started, closed, spawned, callVars>>
      /\ process = "up" /\ sending[k][n] > 0
      /\ Typed /\ k \in Loop /\ k \notin LoopsOf("dns") /\ ControllerOf(k) = "etcd"
      /\ \A c \in Controller : LoopsOf(c) \subseteq Loop
      /\ "dns" \in Controller /\ "etcd" \in Controller
  BY Names DEF ETCDSend, TermsInv, TypeInv, LoopsOf
<1>1. sending[k] \in [Generation -> Nat] /\ sending[k][n] # 0
  BY <1>0 DEF Typed
<1>2. /\ Stopping("etcd") /\ Stage(k) \in {"select", "working"}
      /\ \A a \in Caller : pc[a] \in {"idle", "done", "etcd.Wait"}
      /\ spawned[k] = 0 /\ n = runs["etcd"]
      /\ \A m \in Generation : sending[k][m] = IF m = n THEN 1 ELSE 0
  BY <1>1, TokenOfStop DEF NoToken, OneToken
<1>3. <<k, n>> \notin closed
  BY <1>0, <1>2, OpenChannel
<1>4. /\ Told(k, n) /\ UNCHANGED process
      /\ sending' = [sending EXCEPT ![k][n] = @ - 1]
  BY <1>3 DEF ETCDSend
<1>5. /\ Stage(k) = "select" /\ Stage(k)' = "told"
      /\ \A j \in Loop \ {k} : Stage(j)' = Stage(j)
      /\ OneTerm'
  BY <1>0, <1>4, ToldNewest DEF ctrlVars
<1>6. /\ OneBusy'
      /\ \A c \in Controller : /\ Stopping(c)' <=> Stopping(c)
                               /\ Starting(c)' <=> Starting(c)
  BY <1>0 DEF TermsInv, OneBusy, Busy, Stopping, Starting, callVars
<1>7. LoopsInv'
  <2>1. WaitsOnNewest' /\ ClosedWhenTold'
    BY <1>0, <1>5, ToldChannels DEF ctrlVars
  <2>2. LiveMatches("dns")'
    BY <1>0, <1>5, <1>6 DEF TermsInv, LoopsInv, LiveMatches, ctrlVars
  <2>3. LiveMatches("etcd")'
    BY <1>0, <1>2, <1>5, <1>6
       DEF TermsInv, LoopsInv, LiveMatches, LiveStage, ctrlVars
  <2> QED
    BY <1>5, <2>1, <2>2, <2>3 DEF LoopsInv, Controller
<1>8. CallersInv'
  BY <1>0, <1>2
     DEF TermsInv, CallersInv, RunsWhenDown, DNSStops, ETCDStops, MakeOf, callVars,
         ctrlVars
<1>9. NoToken(k)'
  <2>1. sending' = [sending EXCEPT ![k] = [sending[k] EXCEPT ![n] = @ - 1]]
    BY <1>4
  <2>2. sending'[k] = [sending[k] EXCEPT ![n] = @ - 1]
    BY <1>0, <2>1 DEF Typed
  <2> QED
    BY <1>0, <1>1, <1>2, <2>2 DEF NoToken
<1>10. Tokens'
  <2>1. \A j \in Loop \ {k} : spawned'[j] = spawned[j] /\ sending'[j] = sending[j]
    BY <1>0, <1>4 DEF Typed
  <2>2. \A j \in LoopsOf("dns") : NoToken(j)'
    BY <1>0, <2>1 DEF TermsInv, Tokens, NoToken
  <2>3. \A j \in LoopsOf("etcd") : j # k =>
           (NoToken(j)' <=> NoToken(j)) /\ (OneToken(j)' <=> OneToken(j))
    BY <1>0, <2>1 DEF NoToken, OneToken, ctrlVars
  <2> QED
    BY <1>0, <1>2, <1>5, <1>6, <1>9, <2>2, <2>3 DEF TermsInv, Tokens
<1>11. Marks'
  BY <1>0, <1>5 DEF TermsInv, Marks
<1> QED
  BY <1>0, <1>4, <1>5, <1>6, <1>7, <1>8, <1>10, <1>11, GoesOn DEF TermsInv

-----------------------------------------------------------------------------
(* Every step, and what follows *)

LEMMA ElectionTerms ==
    ASSUME TermsInv, TypeInv',
           \/ RaftChange \/ LeaseGained \/ LeaseLost \/ Signal \/ Killed
           \/ UNCHANGED vars
    PROVE  TermsInv'
<1>0. \A c \in Controller : LoopsOf(c) \subseteq Loop
  BY Names
<1>1. /\ UNCHANGED <<ctrlVars, loopVars, sendVars, pc, sendsOn, election>>
      /\ \/ UNCHANGED process
         \/ process' = "exited" /\ election = "raft"
  BY DEF RaftChange, LeaseGained, LeaseLost, Signal, Killed, Tell, vars,
         callVars, envVars
<1>2. /\ \A k \in Loop : Stage(k)' = Stage(k)
      /\ OneTerm' /\ WaitsOnNewest' /\ ClosedWhenTold' /\ Marks'
  BY <1>1, LoopsKept DEF ctrlVars, sendVars
<1>3. /\ OneBusy'
      /\ \A c \in Controller : /\ Stopping(c)' <=> Stopping(c)
                               /\ Starting(c)' <=> Starting(c)
  BY <1>1 DEF TermsInv, OneBusy, Busy, Stopping, Starting
<1>4. LoopsInv'
  BY <1>0, <1>1, <1>2, <1>3 DEF TermsInv, LoopsInv, LiveMatches, ctrlVars
<1>5. CallersInv'
  BY <1>0, <1>1, <1>2, Names
     DEF TermsInv, CallersInv, RunsWhenDown, DNSStops, ETCDStops, Loop, ctrlVars
<1>6. Tokens'
  BY <1>0, <1>1, <1>2, <1>3, TokensKept, Names DEF ctrlVars, sendVars
<1>7. NoPanic' /\ ExitsDown'
  BY <1>1 DEF TermsInv, NoPanic, ExitsDown, Live, loopVars
<1> QED
  BY <1>2, <1>3, <1>4, <1>5, <1>6, <1>7 DEF TermsInv

LEMMA NextTerms ==
    ASSUME Prompt, Apart, OneCaller, TermsInv, [Next]_vars
    PROVE  TermsInv'
<1>0. TypeInv'
  BY NextTypeInv DEF TermsInv
<1>1. ASSUME NEW a \in Caller, CallerStep(a) PROVE TermsInv'
  BY <1>0, <1>1, CallerTerms
<1>2. ASSUME NEW a \in Caller, NEW k \in LoopsOf("dns"), DNSSend(a, k)
      PROVE  TermsInv'
  BY <1>0, <1>2, DNSSendTerms
<1>3. ASSUME NEW k \in LoopsOf("etcd"),
             SenderStarts(k) \/ \E n \in Generation : ETCDSend(k, n)
      PROVE  TermsInv'
  BY <1>0, <1>3, SenderStartsTerms, ETCDSendTerms
<1>4. ASSUME NEW k \in Loop, NEW g \in Generation, LoopStep(k, g) \/ Work(k, g)
      PROVE  TermsInv'
  BY <1>0, <1>4, EnterSelectTerms, WorkTerms, CloseChannelTerms, LoopReturnsTerms DEF LoopStep
<1> QED
  BY <1>0, <1>1, <1>2, <1>3, <1>4, ElectionTerms DEF Next

LEMMA InitTerms == Init => TermsInv
<1> SUFFICES ASSUME Init PROVE TermsInv
  OBVIOUS
<1>0. /\ \A c \in Controller : LoopsOf(c) \subseteq Loop
      /\ "dns" \in Controller /\ "etcd" \in Controller
      /\ \A k \in Loop : ControllerOf(k) \in Controller
  BY Names
<1>1. \A k \in Loop : Stage(k) = "none"
  BY <1>0 DEF Init, Stage
<1>2. OneBusy /\ NoPanic /\ ExitsDown /\ \A c \in Controller : ~Stopping(c)
  BY DEF Init, OneBusy, Busy, NoPanic, ExitsDown, Stopping
<1>3. LoopsInv
  BY <1>0, <1>1
     DEF Init, LoopsInv, OneTerm, WaitsOnNewest, ClosedWhenTold, LiveMatches,
         LiveStage
<1>4. CallersInv
  BY DEF Init, CallersInv, RunsWhenDown, DNSStops, ETCDStops, MakeOf
<1>5. Tokens
  BY <1>0, <1>2 DEF Init, Tokens, NoToken
<1>6. Marks
  BY <1>0, <1>1 DEF Init, Marks
<1> QED
  BY <1>2, <1>3, <1>4, <1>5, <1>6, InitTypeInv DEF TermsInv

LEMMA TermsInvHolds ==
    ASSUME Prompt, Apart
    PROVE  Spec => []TermsInv
<1>1. OneCaller /\ TermsInv /\ [Next]_vars => TermsInv'
  BY NextTerms
<1> QED
  BY <1>1, InitTerms, OneCallerHolds, PTL DEF Spec

(* No channel is closed twice, and none is sent on after it was closed     *)
(* (dnsController.go:355, etcdController.go:361): the loop that closes one *)
(* is the last to use it, and finds in its field the one it waited on.     *)
THEOREM NoPanicHolds ==
    ASSUME Prompt, Apart
    PROVE  Spec => []NoPanic
<1>1. TermsInv => NoPanic
  BY DEF TermsInv
<1> QED
  BY <1>1, TermsInvHolds, PTL

(* After any number of terms a controller that runs has one loop of each   *)
(* kind, on the channels its next Stop will use, and one that does not run *)
(* has none (main.go:513, main.go:591).                                    *)
THEOREM LoopsMatchRunningHolds ==
    ASSUME Prompt, Apart
    PROVE  Spec => []LoopsMatchRunning
<1>1. TermsInv => LoopsMatchRunning
  <2> SUFFICES ASSUME TermsInv, NEW c \in Controller, NEW k \in LoopsOf(c)
               PROVE  /\ ~running[c] => Live(k) = {}
                      /\ running[c] /\ ~Starting(c) /\ ~Stopping(c) =>
                            /\ Live(k) = {runs[c]}
                            /\ loop[k][runs[c]] = "select" =>
                                  waitsOn[k][runs[c]] = runs[c]
    BY DEF LoopsMatchRunning
  <2>1. k \in Loop /\ ControllerOf(k) = c /\ Typed /\ OneTerm
    BY Names DEF TermsInv, TypeInv, LoopsInv
  <2>2. ~running[c] => Live(k) = {}
    BY <2>1, LiveIsStage DEF TermsInv, LoopsInv, LiveMatches
  <2>3. ASSUME running[c], ~Starting(c), ~Stopping(c)
        PROVE  /\ Live(k) = {runs[c]}
               /\ loop[k][runs[c]] = "select" => waitsOn[k][runs[c]] = runs[c]
    <3>1. Stage(k) \in LiveStage
      BY <2>3 DEF TermsInv, LoopsInv, LiveMatches
    <3>2. Stage(k) = loop[k][runs[c]]
      BY <2>1, <3>1, StageType DEF LiveStage
    <3> QED
      BY <2>1, <3>1, <3>2, LiveIsStage DEF TermsInv, LoopsInv, WaitsOnNewest
  <2> QED
    BY <2>2, <2>3
<1> QED
  BY <1>1, TermsInvHolds, PTL

(* "Stop stops the controller and blocks till everything is down"          *)
(* (etcdController.go:349): a marked loop is one that has not returned, so *)
(* that Stop's wait ends after both have.                                  *)
THEOREM StopBlocksHolds ==
    ASSUME Prompt, Apart
    PROVE  Spec => StopBlocks
<1> DEFINE Blocks == \A a \in Caller :
                        pc[a] = "etcd.Wait" /\ pc'[a] # "etcd.Wait"
                            => \A k \in LoopsOf("etcd") : \A g \in Generation :
                                    loop'[k][g] = "none"
<1>1. TermsInv /\ [Next]_vars => [Blocks]_vars
  <2> SUFFICES ASSUME TermsInv, Next, NEW a \in Caller,
                      pc[a] = "etcd.Wait", pc'[a] # "etcd.Wait"
               PROVE  \A k \in LoopsOf("etcd") : \A g \in Generation :
                          loop'[k][g] = "none"
    OBVIOUS
  <2>0. Typed /\ OneTerm /\ LoopsOf("etcd") \subseteq Loop
    BY Names DEF TermsInv, TypeInv, LoopsInv
  <2>1. PICK b \in Caller : CallerStep(b) \/ \E k \in LoopsOf("dns") : DNSSend(b, k)
    BY DEF Next, RaftChange, LeaseGained, LeaseLost, Signal, Killed, Tell,
       SenderStarts, ETCDSend, LoopStep, EnterSelect, CloseChannel,
       LoopReturns, Work, callVars
  <2>2. PICK from, to : Move(b, from, to)
    BY <2>1 DEF CallerStep, Take, Run, MakeChannels, DNSStop, DNSStopped, ETCDStop,
       ETCDStopped, Return, DNSSend
  <2>3. b = a
    BY <2>0, <2>2 DEF Move, Typed
  <2>4. ETCDStopped(a)
    BY <2>1, <2>3 DEF CallerStep, Take, Run, MakeChannels, RunOf, MakeOf, DNSStop,
       DNSStopped, ETCDStop, Return, DNSSend, Move, SendTo, LoopsOf
  <2>5. \A k \in LoopsOf("etcd") : Stage(k) = "none"
    BY <2>4, LoopsReturned
  <2> QED
    BY <2>0, <2>4, <2>5, StageNone DEF ETCDStopped, loopVars
<1> QED
  BY <1>1, TermsInvHolds, PTL DEF Spec, StopBlocks

(* With k8s and for a singleton, when the process ends of itself the Stops *)
(* of both controllers have run through, and no loop is left that could be *)
(* cut off in the middle of an upload (main.go:562, main.go:616).          *)
THEOREM ExitsDownHolds ==
    ASSUME Prompt, Apart
    PROVE  Spec => []ExitsDown
<1>1. TermsInv => ExitsDown
  BY DEF TermsInv
<1> QED
  BY <1>1, TermsInvHolds, PTL

-----------------------------------------------------------------------------
(* The controllers together *)

(* The controllers run together, but for the callers between their Runs,   *)
(* and between their Stops.                                                *)
InStep ==
    /\ \A a \in Caller :
          /\ pc[a] \in {"etcd.Make", "dns.Run", "dns.Make", "dns.SendSync",
                        "dns.SendLb", "dns.Stopped"}
                => running["etcd"]
          /\ pc[a] = "etcd.Make" => ~running["dns"]
    /\ (\A a \in Caller : pc[a] \in {"idle", "done", "etcd.Run", "dns.Stop"})
          => (running["dns"] <=> running["etcd"])

(* Only the callers' steps move them or change what runs.                  *)
LEMMA OthersInStep ==
    ASSUME InStep, UNCHANGED <<pc, running>>
    PROVE  InStep'
BY DEF InStep

(* What a caller leaves behind says what runs.                             *)
LEMMA MovedInStep ==
    ASSUME TermsInv, NEW a \in Caller, NEW from, NEW to, Move(a, from, to),
           \A b \in Caller : b # a => pc[b] \in {"idle", "done"},
           to \in {"etcd.Make", "dns.Run", "dns.Make", "dns.SendSync",
                  "dns.SendLb", "dns.Stopped"}
              => running'["etcd"],
           to = "etcd.Make" => ~running'["dns"],
           to \in {"idle", "done", "etcd.Run", "dns.Stop"}
              => (running'["dns"] <=> running'["etcd"])
    PROVE  InStep'
<1>1. pc'[a] = to /\ \A b \in Caller : b # a => pc'[b] \in {"idle", "done"}
  BY DEF Move, TermsInv, TypeInv, Typed
<1> QED
  BY <1>1 DEF InStep

LEMMA TakeInStep ==
    ASSUME Apart, OneCaller, TermsInv, InStep, NEW a \in Caller, Take(a)
    PROVE  InStep'
<1>1. /\ \A b \in Caller : pc[b] \in {"idle", "done"}
      /\ UNCHANGED running
  BY NobodyBusy DEF Take, ctrlVars, TermsInv, TypeInv
<1>2. PICK to \in {"etcd.Run", "dns.Stop"} : Move(a, "idle", to)
  BY DEF Take
<1>3. running["dns"] <=> running["etcd"]
  BY <1>1 DEF InStep
<1> QED
  BY <1>1, <1>2, <1>3, MovedInStep

LEMMA CallerInStep ==
    ASSUME TermsInv, InStep, NEW a \in Caller,
           \/ \E c \in Controller : Run(a, c) \/ MakeChannels(a, c)
           \/ DNSStop(a) \/ DNSStopped(a)
           \/ ETCDStop(a) \/ ETCDStopped(a)
           \/ Return(a)
           \/ \E k \in LoopsOf("dns") : DNSSend(a, k)
    PROVE  InStep'
<1>0. /\ Typed /\ OneBusy /\ "dns" \in Controller /\ "etcd" \in Controller
      /\ running \in [Controller -> BOOLEAN]
  BY Names DEF TermsInv, TypeInv, Typed
<1>1. \A b \in Caller : b # a => pc[b] \in {"idle", "done"}
  <2>1. Busy(a)
    BY DEF Run, MakeChannels, RunOf, MakeOf, DNSStop, DNSStopped, ETCDStop,
       ETCDStopped, Return, DNSSend, SendTo, Move, Busy
  <2> QED
    BY <1>0, <2>1 DEF OneBusy, Busy
<1>2. CASE Run(a, "etcd")
  <2>1. PICK to \in {"etcd.Make", "dns.Run"} :
           /\ Move(a, "etcd.Run", to) /\ running'["etcd"]
           /\ to = "etcd.Make" =>
                 ~running["etcd"] /\ running'["dns"] = running["dns"]
    BY <1>0, <1>2 DEF Run, RunOf, MakeOf, AfterRun, MayRun
  <2>2. running["dns"] <=> running["etcd"]
    BY <1>1, <2>1 DEF InStep, Move
  <2> QED
    BY <1>1, <2>1, <2>2, MovedInStep
<1>3. CASE Run(a, "dns")
  <2>1. PICK to \in {"dns.Make", "idle"} :
           /\ Move(a, "dns.Run", to)
           /\ running'["dns"] /\ running'["etcd"] = running["etcd"]
    BY <1>0, <1>3 DEF Run, RunOf, MakeOf, AfterRun, MayRun
  <2>2. running["etcd"]
    BY <2>1 DEF InStep, Move
  <2> QED
    BY <1>1, <2>1, <2>2, MovedInStep
<1>10. ASSUME NEW c \in Controller, MakeChannels(a, c) PROVE InStep'
  <2>1. Move(a, MakeOf(c), AfterRun(c)) /\ UNCHANGED running
    BY <1>10 DEF MakeChannels
  <2>2. running["etcd"] /\ (c = "dns" => running["dns"])
    BY <2>1 DEF InStep, Move, MakeOf, TermsInv, CallersInv, RunsWhenDown
  <2>3. AfterRun(c) \in {"dns.Run", "idle"} /\ (AfterRun(c) = "idle" => c = "dns")
    BY DEF AfterRun, Controller
  <2> QED
    BY <1>1, <2>1, <2>2, <2>3, MovedInStep
<1>4. CASE DNSStop(a)
  <2>1. PICK to \in {"dns.SendSync", "etcd.Stop"} :
           /\ Move(a, "dns.Stop", to)
           /\ to = "dns.SendSync" => running["dns"]
           /\ UNCHANGED running
    BY <1>4 DEF DNSStop, MayStop, SendTo, ctrlVars
  <2>2. running["dns"] <=> running["etcd"]
    BY <1>1, <2>1 DEF InStep, Move
  <2> QED
    BY <1>1, <2>1, <2>2, MovedInStep
<1>5. CASE DNSStopped(a)
  BY <1>1, <1>5, MovedInStep DEF DNSStopped
<1>6. CASE ETCDStop(a)
  <2>1. PICK to \in {"etcd.Wait", "return"} : Move(a, "etcd.Stop", to)
    BY <1>6 DEF ETCDStop
  <2> QED
    BY <1>1, <2>1, MovedInStep
<1>7. CASE ETCDStopped(a)
  BY <1>1, <1>7, MovedInStep DEF ETCDStopped
<1>8. CASE Return(a)
  <2>1. PICK to \in {"idle", "done"} : Move(a, "return", to) /\ UNCHANGED running
    BY <1>8 DEF Return, ctrlVars
  <2>2. ~running["dns"] /\ ~running["etcd"]
    BY <2>1 DEF TermsInv, CallersInv, DNSStops, ETCDStops, Move
  <2> QED
    BY <1>1, <2>1, <2>2, MovedInStep
<1>9. ASSUME NEW k \in LoopsOf("dns"), DNSSend(a, k)
      PROVE  InStep'
  <2>1. PICK to \in {"dns.SendSync", "dns.SendLb", "dns.Stopped"} :
           Move(a, SendTo(k), to) /\ UNCHANGED running
    BY <1>9 DEF DNSSend, SendTo, AfterSend, ctrlVars
  <2>2. running["etcd"]
    BY <2>1 DEF InStep, Move, SendTo
  <2> QED
    BY <1>1, <2>1, <2>2, MovedInStep
<1> QED
  BY <1>2, <1>3, <1>4, <1>5, <1>6, <1>7, <1>8, <1>9, <1>10 DEF Controller

LEMMA NextInStep ==
    ASSUME Apart, OneCaller, TermsInv, InStep, [Next]_vars
    PROVE  InStep'
<1>1. ASSUME NEW a \in Caller, CallerStep(a) PROVE InStep'
  BY <1>1, TakeInStep, CallerInStep DEF CallerStep
<1>2. ASSUME NEW a \in Caller, NEW k \in LoopsOf("dns"), DNSSend(a, k)
      PROVE  InStep'
  BY <1>2, CallerInStep
<1>3. ASSUME \/ \E k \in LoopsOf("etcd") :
                   SenderStarts(k) \/ \E n \in Generation : ETCDSend(k, n)
             \/ \E k \in Loop, g \in Generation : LoopStep(k, g) \/ Work(k, g)
             \/ RaftChange \/ LeaseGained \/ LeaseLost \/ Signal \/ Killed
             \/ UNCHANGED vars
      PROVE  InStep'
  <2>1. UNCHANGED <<pc, running>>
    BY <1>3 DEF SenderStarts, ETCDSend, LoopStep, EnterSelect,
       CloseChannel, LoopReturns, Work, RaftChange, LeaseGained, LeaseLost,
       Signal, Killed, Tell, vars, ctrlVars, callVars
  <2> QED
    BY <2>1, OthersInStep
<1> QED
  BY <1>1, <1>2, <1>3 DEF Next

termVars == <<Up, Working, Ending /\ Up # {}>>

StopPcs == {"dns.Stop", "dns.SendSync", "dns.SendLb", "dns.Stopped",
            "etcd.Stop", "etcd.Wait"}

(* What others see of a loop is where the newest of its kind is.           *)
UpIsLive ==
    /\ Up \subseteq Loop /\ Working \subseteq Up
    /\ process # "up" => Up = {}
    /\ process = "up" =>
          \A k \in Loop : /\ k \in Up <=> Stage(k) \in LiveStage
                          /\ k \in Working <=> Stage(k) = "working"

LEMMA UpLive == TermsInv => UpIsLive
<1> SUFFICES ASSUME TermsInv PROVE UpIsLive
  OBVIOUS
<1>0. Typed /\ OneTerm
  BY DEF TermsInv, TypeInv, LoopsInv
<1>1. Up \subseteq Loop /\ Working \subseteq Up /\ (process # "up" => Up = {})
  BY DEF Up, Working
<1>2. ASSUME process = "up", NEW k \in Loop
      PROVE  /\ k \in Up <=> Stage(k) \in LiveStage
             /\ k \in Working <=> Stage(k) = "working"
  <2>1. k \in Up <=> Stage(k) \in LiveStage
    BY <1>0, <1>2, LiveIsStage DEF Up
  <2>2. ASSUME k \in Working PROVE Stage(k) = "working"
    <3>1. PICK g \in Generation : loop[k][g] = "working"
      BY <2>2 DEF Working
    <3> QED
      BY <1>0, <3>1, StageOfLoop
  <2>3. ASSUME Stage(k) = "working" PROVE k \in Working
    BY <1>0, <2>1, <2>3, StageType DEF Working, LiveStage
  <2> QED
    BY <2>1, <2>2, <2>3
<1> QED
  BY <1>1, <1>2 DEF UpIsLive

LEMMA UpLiveNext == TermsInv' => UpIsLive'
BY UpLive, PTL

(* Steps that neither start nor tell a loop, nor take it to its work or    *)
(* back.                                                                   *)
LEMMA UpKept ==
    ASSUME TermsInv, TermsInv', process = "up", process' = "up",
           \A k \in Loop :
              /\ Stage(k)' \in LiveStage <=> Stage(k) \in LiveStage
              /\ Stage(k)' = "working" <=> Stage(k) = "working"
    PROVE  Up' = Up /\ Working' = Working
<1>1. UpIsLive /\ UpIsLive'
  BY UpLive, UpLiveNext
<1> HIDE DEF Up, Working
<1> QED
  BY <1>1 DEF UpIsLive

(* A controller that does not run has no loop, one that runs and is        *)
(* neither being started nor stopped has both.                             *)
LEMMA UpMatches ==
    ASSUME TermsInv, process = "up", NEW c \in Controller
    PROVE  /\ ~running[c] => Up \cap LoopsOf(c) = {}
           /\ running[c] /\ ~Starting(c) /\ ~Stopping(c) =>
                 LoopsOf(c) \subseteq Up
<1>1. UpIsLive /\ LoopsOf(c) \subseteq Loop
  BY UpLive, Names
<1> HIDE DEF Up
<1> QED
  BY <1>1 DEF UpIsLive, TermsInv, LoopsInv, LiveMatches

LEMMA LoopNames ==
    /\ Term!ETCD = LoopsOf("etcd") /\ Term!DNS = LoopsOf("dns")
    /\ Loop = LoopsOf("etcd") \cup LoopsOf("dns")
    /\ LoopsOf("etcd") \cap LoopsOf("dns") = {}
    /\ LoopsOf("etcd") = {"monitor", "status"} /\ LoopsOf("dns") = {"sync", "lb"}
BY DEF Term!ETCD, Term!DNS, LoopsOf, Loop

(* Between commands all loops are up, or none.                             *)
LEMMA UpBetween ==
    ASSUME TermsInv, InStep, process = "up",
           \A a \in Caller : pc[a] \in {"idle", "done"}
    PROVE  Up \in {{}, Term!ETCD \cup Term!DNS}
<1>1. /\ running["dns"] <=> running["etcd"]
      /\ ~Stopping("dns") /\ ~Stopping("etcd")
      /\ ~Starting("dns") /\ ~Starting("etcd")
  BY DEF InStep, Stopping, Starting, MakeOf
<1>2. Up \subseteq Loop
  BY UpLive DEF UpIsLive
<1> HIDE DEF Up
<1> QED
  BY <1>1, <1>2, UpMatches, LoopNames, Names

(* A caller's step moves it into its Stops, or out of them.                *)
LEMMA EndingMoves ==
    ASSUME TermsInv, NEW a \in Caller, Busy(a), NEW from, NEW to,
           Move(a, from, to)
    PROVE  /\ Ending <=> from \in StopPcs
           /\ Ending' <=> to \in StopPcs
BY CallerMoves DEF TermsInv, TypeInv, Ending, StopPcs

(* What does not show outside.                                             *)
LEMMA NotSeen ==
    ASSUME Up' = Up, Working' = Working, Up = {} \/ (Ending' <=> Ending)
    PROVE  UNCHANGED termVars
<1>1. (Ending' /\ Up' # {}) = (Ending /\ Up # {})
  OBVIOUS
<1> QED
  BY <1>1 DEF termVars

LEMMA TakeOfTerms ==
    ASSUME Apart, OneCaller, TermsInv, TermsInv', InStep, NEW a \in Caller,
           Take(a)
    PROVE  [Term!Next]_termVars
<1>1. /\ UNCHANGED <<ctrlVars, loopVars, process>> /\ process = "up"
      /\ \A b \in Caller : pc[b] \in {"idle", "done"}
  BY NobodyBusy DEF Take, Move, TermsInv, TypeInv
<1>2. PICK to \in {"etcd.Run", "dns.Stop"} : Move(a, "idle", to)
  BY DEF Take
<1>3. Up' = Up /\ Working' = Working
  <2>1. \A k \in Loop : Stage(k)' = Stage(k)
    BY <1>1 DEF Stage, ctrlVars, loopVars
  <2> QED
    BY <1>1, <2>1, UpKept
<1>4. ~Ending /\ (Ending' <=> to = "dns.Stop")
  <2>1. pc'[a] = to /\ \A b \in Caller : b # a => pc'[b] \in {"idle", "done"}
    BY <1>1, <1>2 DEF Move, TermsInv, TypeInv, Typed
  <2> QED
    BY <1>1, <2>1 DEF Ending
<1>5. Up \in {{}, Term!ETCD \cup Term!DNS}
  BY <1>1, UpBetween
<1>6. CASE to = "etcd.Run" \/ Up = {}
  BY <1>3, <1>4, <1>6, NotSeen
<1>7. CASE to = "dns.Stop" /\ Up # {}
  <2> HIDE DEF Up, Working, Ending
  <2>1. /\ Up = Term!ETCD \cup Term!DNS
        /\ ~(Ending /\ Up # {}) /\ (Ending' /\ Up' # {}) = TRUE
    BY <1>3, <1>4, <1>5, <1>7
  <2> QED
    BY <1>3, <2>1, Zenon DEF Term!Next, Term!End
<1> QED
  BY <1>6, <1>7

(* That a controller is marked as running does not show.                   *)
LEMMA RunOfTerms ==
    ASSUME TermsInv, TermsInv', NEW a \in Caller, NEW c \in Controller, Run(a, c)
    PROVE  UNCHANGED termVars
<1>1. /\ process = "up" /\ process' = "up" /\ Busy(a)
      /\ \A k \in Loop : Stage(k)' = Stage(k)
  BY DEF Run, RunOf, Move, Busy, Stage, loopVars
<1>2. PICK to \in {"etcd.Make", "dns.Make", "dns.Run", "idle"} :
         Move(a, RunOf(c), to)
  BY DEF Run, MakeOf, AfterRun
<1>3. ~Ending /\ ~Ending'
  BY <1>1, <1>2, EndingMoves DEF StopPcs, RunOf
<1> QED
  BY <1>1, <1>3, UpKept, NotSeen

(* The loops of a controller start together, with nothing being stopped.   *)
LEMMA MakeOfTerms ==
    ASSUME TermsInv, TermsInv', InStep, NEW a \in Caller, NEW c \in Controller,
           MakeChannels(a, c)
    PROVE  [Term!Next]_termVars
<1>0. UpIsLive /\ UpIsLive' /\ Typed /\ OneBusy
  BY UpLive, UpLiveNext DEF TermsInv, TypeInv
<1>1. /\ process = "up" /\ process' = "up" /\ Busy(a)
      /\ pc[a] = MakeOf(c) /\ Move(a, MakeOf(c), AfterRun(c))
  BY DEF MakeChannels, MakeOf, Move, Busy
<1>2. /\ ~Ending /\ ~Ending'
      /\ ~Stopping("etcd") /\ (c = "dns" => ~Starting("etcd"))
  BY <1>0, <1>1, EndingMoves, CallerMoves, Names DEF StopPcs, MakeOf, AfterRun
<1>3. /\ \A k \in LoopsOf(c) : Stage(k) = "none" /\ Stage(k)' = "spawned"
      /\ \A k \in Loop \ LoopsOf(c) : Stage(k)' = Stage(k)
  BY MakeStages
<1> HIDE DEF Up, Working, Ending
<1>4. /\ Up' = Up \cup LoopsOf(c) /\ Up \cap LoopsOf(c) = {}
      /\ Working' = Working
  BY <1>0, <1>1, <1>3, Names DEF UpIsLive, LiveStage
<1>5. \/ c = "etcd" /\ Up = {}
      \/ c = "dns" /\ Up = LoopsOf("etcd")
  <2>1. CASE c = "etcd"
    <3>1. ~running["dns"]
      BY <1>1, <2>1 DEF InStep, MakeOf
    <3> QED
      BY <1>0, <1>1, <1>4, <2>1, <3>1, UpMatches, LoopNames, Names DEF UpIsLive
  <2>2. CASE c = "dns"
    <3>1. running["etcd"]
      BY <1>1, <2>2 DEF InStep, MakeOf
    <3> QED
      BY <1>0, <1>1, <1>2, <1>4, <2>2, <3>1, UpMatches, LoopNames, Names
         DEF UpIsLive
  <2> QED
    BY <2>1, <2>2 DEF Controller
<1>6. \/ Up = {} /\ Up' = Term!ETCD
      \/ Up = Term!ETCD /\ Up' = Term!ETCD \cup Term!DNS
  BY <1>4, <1>5, LoopNames
<1>7. ~(Ending /\ Up # {}) /\ (Ending' /\ Up' # {}) = (Ending /\ Up # {})
  BY <1>2
<1> QED
  BY <1>4, <1>6, <1>7, Zenon DEF Term!Next, Term!Start

(* Neither does it show where the Stops of the controllers meet, nor that  *)
(* they return: there is nothing up by then.                               *)
LEMMA StopsOfTerms ==
    ASSUME TermsInv, TermsInv', NEW a \in Caller,
           \/ DNSStop(a) \/ DNSStopped(a)
           \/ ETCDStop(a) \/ ETCDStopped(a)
           \/ Return(a)
    PROVE  UNCHANGED termVars
<1>0. /\ UpIsLive /\ UpIsLive' /\ Typed /\ process = "up"
      /\ Busy(a) /\ UNCHANGED <<runs, loopVars>>
  BY UpLive, UpLiveNext
     DEF TermsInv, TypeInv, DNSStop, DNSStopped, ETCDStop, ETCDStopped, Return,
         Move, Busy, ctrlVars
<1>1. \A k \in Loop : Stage(k)' = Stage(k)
  BY <1>0 DEF Stage, loopVars
<1>2. ASSUME ~running["dns"], ~running["etcd"]
      PROVE  Up = {} /\ Working = {}
  <2> HIDE DEF Up, Working
  <2>1. Up = {}
    BY <1>0, <1>2, UpMatches, LoopNames, Names DEF UpIsLive
  <2> QED
    BY <1>0, <2>1 DEF UpIsLive
<1>3. CASE DNSStop(a) \/ DNSStopped(a)
  <2>1. PICK from \in StopPcs, to \in StopPcs : Move(a, from, to)
    BY <1>3 DEF DNSStop, DNSStopped, StopPcs, SendTo
  <2>2. Ending /\ Ending'
    BY <1>0, <2>1, EndingMoves
  <2>3. process' = "up"
    BY <1>0, <1>3 DEF DNSStop, DNSStopped
  <2> QED
    BY <1>0, <1>1, <2>2, <2>3, UpKept, NotSeen
<1>4. CASE ETCDStop(a) \/ ETCDStopped(a)
  <2>1. process' = "up"
    BY <1>0, <1>4 DEF ETCDStop, ETCDStopped
  <2>2. Up' = Up /\ Working' = Working
    BY <1>0, <1>1, <2>1, UpKept
  <2>3. CASE Move(a, "etcd.Stop", "etcd.Wait")
    <3>1. Ending /\ Ending'
      BY <1>0, <2>3, EndingMoves DEF StopPcs
    <3> QED
      BY <2>2, <3>1, NotSeen
  <2>4. CASE ETCDStop(a) /\ ~running["etcd"]
    <3>1. ~running["dns"]
      BY <2>4 DEF ETCDStop, Move, TermsInv, CallersInv, DNSStops
    <3> QED
      BY <1>2, <2>2, <2>4, <3>1, NotSeen
  <2>5. CASE ETCDStopped(a)
    <3>1. \A k \in LoopsOf("etcd") : Stage(k) = "none"
      BY <2>5, LoopsReturned
    <3>2. ~running["dns"]
      BY <2>5 DEF ETCDStopped, Move, TermsInv, CallersInv, DNSStops
    <3> HIDE DEF Up, Working, Ending
    <3>3. Up = {}
      BY <1>0, <3>1, <3>2, UpMatches, LoopNames, Names DEF UpIsLive, LiveStage
    <3> QED
      BY <2>2, <3>3, NotSeen
  <2> QED
    BY <1>4, <2>3, <2>4, <2>5 DEF ETCDStop, MayStop
<1>5. CASE Return(a)
  <2>1. ~running["dns"] /\ ~running["etcd"]
    BY <1>5 DEF Return, Move, TermsInv, CallersInv, DNSStops, ETCDStops
  <2>2. Up = {} /\ Working = {}
    BY <1>2, <2>1
  <2> HIDE DEF Up, Working, Ending
  <2>3. \A k \in Loop : Stage(k) \notin LiveStage
    BY <1>0, <2>2 DEF UpIsLive
  <2>4. Up' = {} /\ Working' = {}
    BY <1>0, <1>1, <2>3 DEF UpIsLive
  <2> QED
    BY <2>2, <2>4, NotSeen
<1> QED
  BY <1>3, <1>4, <1>5

(* A loop that is told, at its select, is no longer up.                    *)
LEMMA ToldIsDown ==
    ASSUME TermsInv, TermsInv', process = "up", process' = "up",
           NEW k \in Loop, Stage(k) = "select", Stage(k)' = "told",
           \A j \in Loop \ {k} : Stage(j)' = Stage(j)
    PROVE  /\ k \in Up /\ Up' = Up \ {k}
           /\ Working' = Working /\ Working \subseteq Up'
<1>1. UpIsLive /\ UpIsLive'
  BY UpLive, UpLiveNext
<1> HIDE DEF Up, Working
<1>2. k \in Up /\ k \notin Up' /\ k \notin Working /\ k \notin Working'
  BY <1>1 DEF UpIsLive, LiveStage
<1>3. \A j \in Loop \ {k} : (j \in Up' <=> j \in Up) /\ (j \in Working' <=> j \in Working)
  BY <1>1 DEF UpIsLive
<1>4. /\ Up \subseteq Loop /\ Up' \subseteq Loop
      /\ Working \subseteq Up /\ Working' \subseteq Up'
  BY <1>1 DEF UpIsLive
<1> QED
  BY <1>2, <1>3, <1>4

(* The sync loop goes first, then lbUpdateLoop; the etcd controller stays. *)
LEMMA DNSSendOfTerms ==
    ASSUME TermsInv, TermsInv', InStep, NEW a \in Caller,
           NEW k \in LoopsOf("dns"), DNSSend(a, k)
    PROVE  [Term!Next]_termVars
<1>0. /\ Typed /\ UpIsLive /\ UpIsLive' /\ Busy(a) /\ pc[a] = SendTo(k)
      /\ process = "up" /\ k \in Loop /\ ControllerOf(k) = "dns"
      /\ k = "sync" \/ k = "lb"
  BY UpLive, UpLiveNext, Names
     DEF TermsInv, TypeInv, DNSSend, Move, Busy, SendTo, LoopsOf
<1>1. /\ sendsOn[a] = runs["dns"] /\ Stage(k) \in LiveStage /\ running["etcd"]
      /\ k = "sync" => Stage("lb") \in LiveStage
      /\ k = "lb" => Stage("sync") \notin LiveStage
  BY <1>0 DEF TermsInv, CallersInv, DNSStops, InStep, SendTo
<1>2. <<k, sendsOn[a]>> \notin closed
  BY <1>0, <1>1, OpenChannel DEF LiveStage
<1>3. /\ Move(a, SendTo(k), AfterSend(k)) /\ Told(k, sendsOn[a])
      /\ UNCHANGED <<process, runs>>
  BY <1>2 DEF DNSSend, ctrlVars
<1>4. /\ Ending /\ Ending' /\ ~Stopping("etcd") /\ ~Starting("etcd")
  BY <1>0, <1>3, EndingMoves, CallerMoves, Names
     DEF TermsInv, StopPcs, SendTo, AfterSend, MakeOf
<1>5. /\ Stage(k) = "select" /\ Stage(k)' = "told"
      /\ \A j \in Loop \ {k} : Stage(j)' = Stage(j)
  BY <1>0, <1>3, ToldNewest
<1>6. /\ k \in Up /\ Up' = Up \ {k}
      /\ Working' = Working /\ Working \subseteq Up'
  BY <1>0, <1>3, <1>5, ToldIsDown
<1> HIDE DEF Up, Working, Ending
<1>7. LoopsOf("etcd") \subseteq Up
  BY <1>0, <1>1, <1>4, UpMatches, Names
<1>8. /\ Term!ETCD \subseteq Up' /\ Up' # {}
      /\ "sync" \in Up' => "lb" \in Up'
  <2>1. LoopsOf("etcd") \subseteq Up'
    BY <1>0, <1>6, <1>7, LoopNames
  <2>2. "sync" \notin Up'
    BY <1>0, <1>1, <1>6, LoopNames DEF UpIsLive
  <2> QED
    BY <2>1, <2>2, LoopNames
<1>9. (Ending /\ Up # {}) /\ (Ending' /\ Up' # {}) = (Up' # {})
  BY <1>4, <1>6, <1>8
<1> QED
  BY <1>6, <1>8, <1>9, Zenon DEF Term!Next, Term!Halt, Term!InOrder

(* The loops of the etcd controller go when the other two are down.        *)
LEMMA ETCDSendOfTerms ==
    ASSUME TermsInv, TermsInv', NEW k \in LoopsOf("etcd"), NEW n \in Generation,
           ETCDSend(k, n)
    PROVE  [Term!Next]_termVars
<1>0. /\ UpIsLive /\ Typed /\ k \in Loop /\ ControllerOf(k) = "etcd"
      /\ process = "up" /\ sending[k][n] > 0
  BY UpLive, Names DEF TermsInv, TypeInv, ETCDSend
<1>1. sending[k] \in [Generation -> Nat] /\ sending[k][n] # 0
  BY <1>0 DEF Typed
<1>2. /\ Stopping("etcd") /\ Stage(k) \in {"select", "working"}
      /\ n = runs["etcd"]
  BY <1>1, TokenOfStop DEF NoToken, OneToken
<1>3. <<k, n>> \notin closed
  BY <1>0, <1>2, OpenChannel
<1>4. Told(k, n) /\ UNCHANGED <<process, runs, pc>>
  BY <1>3 DEF ETCDSend, ctrlVars, callVars
<1>5. /\ Stage(k) = "select" /\ Stage(k)' = "told"
      /\ \A j \in Loop \ {k} : Stage(j)' = Stage(j)
  BY <1>0, <1>4, ToldNewest
<1>6. /\ k \in Up /\ Up' = Up \ {k}
      /\ Working' = Working /\ Working \subseteq Up'
  BY <1>0, <1>4, <1>5, ToldIsDown
<1>7. /\ ~running["dns"] /\ Ending /\ Ending'
  <2>1. PICK a \in Caller : pc[a] = "etcd.Wait"
    BY <1>2 DEF Stopping
  <2> QED
    BY <1>4, <2>1 DEF Ending, TermsInv, CallersInv, DNSStops
<1> HIDE DEF Up, Working, Ending
<1>8. Up \cap LoopsOf("dns") = {}
  BY <1>0, <1>7, UpMatches, Names
<1>9. "sync" \notin Up' /\ Up' \cap Term!DNS = {}
  BY <1>6, <1>8, LoopNames
<1>10. (Ending /\ Up # {}) /\ (Ending' /\ Up' # {}) = (Up' # {})
  BY <1>6, <1>7
<1> QED
  BY <1>6, <1>9, <1>10, Zenon DEF Term!Next, Term!Halt, Term!InOrder

(* A loop goes to work, or comes back; coming and going of the others does *)
(* not show.                                                               *)
LEMMA LoopOfTerms ==
    ASSUME TermsInv, TermsInv', NEW k \in Loop, NEW g \in Generation,
           LoopStep(k, g) \/ Work(k, g)
    PROVE  [Term!Next]_termVars
<1>0. /\ TypeInv' /\ UpIsLive /\ UpIsLive' /\ process = "up"
      /\ UNCHANGED <<ctrlVars, callVars, spawned, sending>>
  BY UpLive, UpLiveNext
     DEF TermsInv, LoopStep, EnterSelect, CloseChannel, LoopReturns, Work,
         Advance, sendVars
<1>1. Ending' <=> Ending
  BY <1>0 DEF Ending, callVars
<1>2. CASE EnterSelect(k, g)
  <2>1. Advance(k, g, {"spawned", "working"}, "select") /\ UNCHANGED process
    BY <1>2, EnterSelects DEF EnterSelect
  <2>2. /\ Stage(k) \in {"spawned", "working"} /\ Stage(k)' = "select"
        /\ \A j \in Loop \ {k} : Stage(j)' = Stage(j)
    BY <1>0, <2>1, LoopMoves DEF LiveStage
  <2> HIDE DEF Up, Working, Ending
  <2>3. CASE Stage(k) = "spawned"
    BY <1>0, <1>1, <2>1, <2>2, <2>3, UpKept, NotSeen DEF LiveStage
  <2>4. CASE Stage(k) = "working"
    <3>1. Up' = Up /\ k \in Working /\ Working' = Working \ {k}
      BY <1>0, <2>1, <2>2, <2>4 DEF UpIsLive, LiveStage
    <3>2. (Ending' /\ Up' # {}) = (Ending /\ Up # {})
      BY <1>1, <3>1
    <3> QED
      BY <3>1, <3>2, Zenon DEF Term!Next, Term!Rest
  <2> QED
    BY <2>2, <2>3, <2>4
<1>3. CASE Work(k, g)
  <2>1. Advance(k, g, {"select"}, "working") /\ UNCHANGED process
    BY <1>3 DEF Work
  <2>2. /\ Stage(k) = "select" /\ Stage(k)' = "working"
        /\ \A j \in Loop \ {k} : Stage(j)' = Stage(j)
    BY <1>0, <2>1, LoopMoves DEF LiveStage
  <2> HIDE DEF Up, Working, Ending
  <2>3. Up' = Up /\ k \in Up \ Working /\ Working' = Working \cup {k}
    BY <1>0, <2>1, <2>2 DEF UpIsLive, LiveStage
  <2>4. (Ending' /\ Up' # {}) = (Ending /\ Up # {})
    BY <1>1, <2>3
  <2> QED
    BY <2>3, <2>4, Zenon DEF Term!Next, Term!Work
<1>4. CASE CloseChannel(k, g)
  <2>1. Advance(k, g, {"told"}, "leaving")
    BY <1>4, CloseMoves
  <2>2. Stage(k) = "told"
    BY <1>4, CloseMoves
  <2>3. UNCHANGED process
    BY <1>4, <2>2, CloseIsSafe DEF CloseChannel
  <2>4. /\ Stage(k)' = "leaving"
        /\ \A j \in Loop \ {k} : Stage(j)' = Stage(j)
    BY <1>0, <2>1, <2>3, LoopMoves DEF LiveStage
  <2> QED
    BY <1>0, <1>1, <2>2, <2>3, <2>4, UpKept, NotSeen DEF LiveStage
<1>5. CASE LoopReturns(k, g)
  <2>1. Advance(k, g, {"leaving"}, "none") /\ UNCHANGED process
    BY <1>5 DEF LoopReturns
  <2>2. /\ Stage(k) = "leaving" /\ Stage(k)' = "none"
        /\ \A j \in Loop \ {k} : Stage(j)' = Stage(j)
    BY <1>0, <2>1, LoopMoves DEF LiveStage
  <2> QED
    BY <1>0, <1>1, <2>1, <2>2, UpKept, NotSeen DEF LiveStage
<1> QED
  BY <1>2, <1>3, <1>4, <1>5 DEF LoopStep

(* The election and the operating system start and stop nothing by         *)
(* themselves, but a signal may kill the process.                          *)
LEMMA ElectionOfTerms ==
    ASSUME TermsInv, TermsInv',
           \/ RaftChange \/ LeaseGained \/ LeaseLost \/ Signal \/ Killed
           \/ UNCHANGED vars
    PROVE  [Term!Next]_termVars
<1>1. /\ UNCHANGED <<loop, pc>>
      /\ UNCHANGED process \/ process' = "exited"
  BY DEF RaftChange, LeaseGained, LeaseLost, Signal, Killed, Tell, vars,
     loopVars, callVars
<1>2. CASE UNCHANGED process
  <2>1. Up' = Up /\ Working' = Working /\ (Ending' <=> Ending)
    BY <1>1, <1>2 DEF Up, Working, Ending, Live
  <2> QED
    BY <2>1, NotSeen
<1>3. CASE process' = "exited"
  <2>1. Up' = {} /\ Working' = {}
    BY <1>3 DEF Up, Working
  <2> HIDE DEF Up, Working, Ending
  <2>2. (Ending' /\ Up' # {}) = FALSE
    BY <2>1
  <2> QED
    BY <2>1, <2>2, Zenon DEF Term!Next, Term!Crash
<1> QED
  BY <1>1, <1>2, <1>3

LEMMA StepOfTerms ==
    ASSUME Apart, OneCaller, TermsInv, TermsInv', InStep, [Next]_vars
    PROVE  [Term!Next]_termVars
<1>1. ASSUME NEW a \in Caller, CallerStep(a) PROVE [Term!Next]_termVars
  BY <1>1, TakeOfTerms, RunOfTerms, MakeOfTerms, StopsOfTerms DEF CallerStep
<1>2. ASSUME NEW a \in Caller, NEW k \in LoopsOf("dns"), DNSSend(a, k)
      PROVE  [Term!Next]_termVars
  BY <1>2, DNSSendOfTerms
<1>3. ASSUME NEW k \in LoopsOf("etcd"), SenderStarts(k)
      PROVE  [Term!Next]_termVars
  <2>1. UNCHANGED <<loop, pc, process>>
    BY <1>3 DEF SenderStarts, loopVars, callVars
  <2>2. Up' = Up /\ Working' = Working /\ (Ending' <=> Ending)
    BY <2>1 DEF Up, Working, Ending, Live
  <2> QED
    BY <2>2, NotSeen
<1>4. ASSUME NEW k \in LoopsOf("etcd"), NEW n \in Generation, ETCDSend(k, n)
      PROVE  [Term!Next]_termVars
  BY <1>4, ETCDSendOfTerms
<1>5. ASSUME NEW k \in Loop, NEW g \in Generation, LoopStep(k, g) \/ Work(k, g)
      PROVE  [Term!Next]_termVars
  BY <1>5, LoopOfTerms
<1> QED
  BY <1>1, <1>2, <1>3, <1>4, <1>5, ElectionOfTerms DEF Next

(* Run and Stop of the two controllers keep what Terms promises their      *)
(* callers, through any number of terms: nothing starts next to what is    *)
(* left of the last term, a loop goes between two pieces of its work, and  *)
(* the loops that feed another go after it (main.go:587, 598,              *)
(* dnsController.go:349, etcdController.go:349).                           *)
THEOREM KeepsTermsHolds ==
    ASSUME Prompt, Apart
    PROVE  Spec => KeepsTerms
<1>1. Init => TermsInv /\ InStep
  <2>1. Init => InStep
    BY DEF Init, InStep, Caller, Controller
  <2> QED
    BY <2>1, InitTerms
<1>2. OneCaller /\ TermsInv /\ InStep /\ [Next]_vars =>
         (TermsInv /\ InStep)' /\ [Term!Next]_termVars
  BY NextTerms, NextInStep, StepOfTerms
<1>3. Init => Term!Init
  <2> SUFFICES ASSUME Init PROVE Term!Init
    OBVIOUS
  <2>1. \A k \in Loop : Live(k) = {}
    BY DEF Init, Live
  <2>2. Up = {} /\ Working = {} /\ (Ending /\ Up # {}) = FALSE
    BY <2>1 DEF Up, Working
  <2> QED
    BY <2>2, Zenon DEF Term!Init
<1> QED
  BY <1>1, <1>2, <1>3, OneCallerHolds, PTL
     DEF Spec, KeepsTerms, Term!Spec, termVars

=============================================================================
