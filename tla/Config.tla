------------------------------- MODULE Config -------------------------------
(***************************************************************************)
(* From the command line to the controllers (parseCli, cfgValidation and   *)
(* the beginning of dnsManage in src/main.go).  An option has a flag, a    *)
(* key in viper and a place that reads it, and these are not always called *)
(* alike.  namsral/flag takes flags from the environment too; flag.Visit   *)
(* does not tell the two apart, and neither does the model.                *)
(***************************************************************************)
EXTENDS Integers, Sequences

CONSTANTS
    Inputs,         \* what a process may be started with: see Init
    IPv4,           \* texts that net.ParseIP reads as an IPv4 address
    NIL,            \* a key nobody has set, a nil IP, an unreadable text
    BLANK           \* a list with one member, the empty text

ASSUME NilAssumption == NIL \notin IPv4 \cup {""}

ASSUME BlankAssumption == BLANK \notin {NIL, ""}

VARIABLES
    passed,         \* flags given but -lb, with their values
    file,           \* keys of the config file but lb, with their values
    lbFlags,        \* the -lb flags in their order: a name, its endpoints
    lbs,            \* the key lb of viper: of the config file, then of both
    settings,       \* the other keys of viper
    wanted,         \* the load balancers handed to the controllers
    stage           \* the function main is in

vars == <<passed, file, lbFlags, lbs, settings, wanted, stage>>

-----------------------------------------------------------------------------
(* parseCli *)

Numbers == {"port", "etcd-interval-monitoring", "zone-sync-interval-download",
            "zone-sync-interval-upload"}

Switches == {"dump-http", "debug", "json-logging", "raft-bootstrap"}

SameName == Numbers \cup Switches \cup
    {"election", "k8s-kubeconfig", "k8s-lock-name", "k8s-lock-namespace",
     "raft-address", "raft-dir", "autodns-username", "autodns-password"}

Renamed == {"agent", "provider", "etcd", "mock-file", "mock-file-state",
            "instance-id"}

(* Of the other flags cfg is in passed, lb has a variable of its own, and  *)
(* nobody reads those of the bully election.                               *)
Flag == SameName \cup Renamed

(* Flags that may be repeated: their values are gathered in a list.        *)
Lists == {"agent", "etcd"}

(* The -lb flags are a sequence, and an endpoint is readable or it is not. *)
EndpointsOf(i) ==
    UNION ({i.lbFlags[j].endpoints : j \in DOMAIN i.lbFlags}
           \cup {i.lbs[n] : n \in DOMAIN i.lbs})

ASSUME InputsAssumption ==
    \A i \in Inputs :
        /\ DOMAIN i.passed \subseteq Flag \cup {"cfg"}
        /\ Len(i.lbFlags) \in Nat /\ DOMAIN i.lbFlags = 1 .. Len(i.lbFlags)
        /\ \A w \in EndpointsOf(i) \ {NIL} :
               /\ w = [Protocol |-> w.Protocol, IP |-> w.IP, Port |-> w.Port]
               /\ w.Port \in Int

(* Slip: one flag is stored under its own name.                            *)
KeyOf_Etcd(f) ==
    CASE f = "agent"           -> "agents"
      [] f = "provider"        -> "dnsProvider"
      [] f = "mock-file"       -> "mockZonePath"
      [] f = "mock-file-state" -> "mockZoneStatePath"
      [] f = "instance-id"     -> "instance-identifier"
      [] OTHER                 -> f

(* The key viper.Set stores a flag under.                                  *)
KeyOf(f) ==
    CASE f = "agent"           -> "agents"
      [] f = "provider"        -> "dnsProvider"
      [] f = "etcd"            -> "etcEndpoint"
      [] f = "mock-file"       -> "mockZonePath"
      [] f = "mock-file-state" -> "mockZoneStatePath"
      [] f = "instance-id"     -> "instance-identifier"
      [] OTHER                 -> f

(* Keys with a viper.SetDefault.  The default of a flag is never used.     *)
Defaults == {"port", "dump-http", "debug", "json-logging",
             "zone-sync-interval-download", "zone-sync-interval-upload",
             "instance-identifier", "k8s-lock-name"}

(* The keys that are read, and what KeyOf makes of the flags.              *)
Key == SameName \cup {"agents", "dnsProvider", "etcEndpoint", "mockZonePath",
                      "mockZoneStatePath", "instance-identifier"}

(* StringMap.Set: of several -lb with the same name the last one counts.   *)
LastOf(flags) ==
    [n \in {flags[i].name : i \in DOMAIN flags} |->
        LET last == CHOOSE i \in DOMAIN flags :
                        /\ flags[i].name = n
                        /\ \A j \in DOMAIN flags : flags[j].name = n => j <= i
        IN  flags[last].endpoints]

(* What viper.Set stores for a flag.  -etcd "" makes a list that is not    *)
(* empty.                                                                  *)
Given(f) == IF f \in Lists /\ passed[f] = "" THEN BLANK ELSE passed[f]

(* A flag that is given wins over the file, which is read only if -cfg is  *)
(* given, which wins over viper's default.                                 *)
ParseCli ==
    /\ stage = "parseCli"
    /\ settings' =
           [k \in Key |->
                IF \E f \in DOMAIN passed : KeyOf(f) = k
                THEN Given(CHOOSE f \in DOMAIN passed : KeyOf(f) = k)
                ELSE IF "cfg" \in DOMAIN passed /\ k \in DOMAIN file
                THEN file[k]
                ELSE IF k \in Defaults THEN "default" ELSE NIL]
    /\ lbs' = IF lbFlags # <<>> THEN LastOf(lbFlags)
              ELSE IF "cfg" \in DOMAIN passed THEN lbs ELSE LastOf(<<>>)
    /\ stage' = "cfgValidation"
    /\ UNCHANGED <<passed, file, lbFlags, wanted>>

-----------------------------------------------------------------------------
(* cfgValidation *)

(* viper.GetString and GetStringSlice: a key that is not set is empty.  A  *)
(* list is empty without members, whatever its members are.                *)
Empty(k) == settings[k] \in {"", NIL}

ElectionValid ==
    CASE settings["election"] = "singleton" -> TRUE
      [] settings["election"] = "k8s" ->
             /\ ~Empty("instance-identifier")
             /\ ~Empty("k8s-lock-name")
             /\ ~Empty("k8s-lock-namespace")
      [] settings["election"] = "raft" ->
             /\ ~Empty("instance-identifier")
             /\ ~Empty("raft-address")
             /\ ~Empty("raft-dir")
      [] OTHER -> FALSE

(* The paths of the mocks are compared with "" as interfaces: a key nobody *)
(* has set is nil and passes.                                              *)
ProviderValid ==
    CASE settings["dnsProvider"] = "autodns" ->
             ~Empty("autodns-username") /\ ~Empty("autodns-password")
      [] settings["dnsProvider"] = "mock" -> settings["mockZonePath"] # ""
      [] settings["dnsProvider"] = "mockjson" ->
             settings["mockZonePath"] # "" /\ settings["mockZoneStatePath"] # ""
      [] OTHER -> FALSE

(* Slip: what is missing is noticed only if all of it is.                  *)
CfgValidation_Or ==
    /\ stage = "cfgValidation"
    /\ stage' = IF ~Empty("etcEndpoint") /\ (ElectionValid \/ ProviderValid)
                THEN "dnsManage" ELSE "fatal"
    /\ UNCHANGED <<passed, file, lbFlags, lbs, settings, wanted>>

CfgValidation ==
    /\ stage = "cfgValidation"
    /\ stage' = IF ~Empty("etcEndpoint") /\ ElectionValid /\ ProviderValid
                THEN "dnsManage" ELSE "fatal"
    /\ UNCHANGED <<passed, file, lbFlags, lbs, settings, wanted>>

-----------------------------------------------------------------------------
(* dnsManage *)

(* Slip: the port is converted to int16.                                   *)
TryParseEndpointProtocol_Int16(w) ==
    [Protocol |-> w.Protocol,
     IP       |-> IF w.IP \in IPv4 THEN w.IP ELSE NIL,
     Port     |-> w.Port % 2 ^ 15]

(* A port is 16 bits wide.                                                 *)
Uint16(x) == x % 2 ^ 16

(* w is a text with a protocol, an IP and a number.  To4 of anything but   *)
(* an IPv4 address is nil, which is no error.                              *)
TryParseEndpointProtocol(w) ==
    [Protocol |-> w.Protocol,
     IP       |-> IF w.IP \in IPv4 THEN w.IP ELSE NIL,
     Port     |-> Uint16(w.Port)]

(* A mock needs a file it can read; then the endpoints are parsed.         *)
DnsManage ==
    /\ stage = "dnsManage"
    /\ \E readable \in IF Empty("mockZonePath") THEN {FALSE} ELSE BOOLEAN :
           IF /\ settings["dnsProvider"] \in {"mock", "mockjson"} => readable
              /\ \A n \in DOMAIN lbs : NIL \notin lbs[n]
           THEN /\ wanted' = [n \in DOMAIN lbs |->
                                {TryParseEndpointProtocol(w) : w \in lbs[n]}]
                /\ stage' = "running"
           ELSE /\ stage' = "fatal"
                /\ UNCHANGED wanted
    /\ UNCHANGED <<passed, file, lbFlags, lbs, settings>>

Init ==
    /\ \E i \in Inputs : /\ passed = i.passed
                         /\ file = i.file
                         /\ lbFlags = i.lbFlags
                         /\ lbs = i.lbs
    /\ settings = [k \in Key |-> NIL]
    /\ wanted = LastOf(<<>>)
    /\ stage = "parseCli"

Next == ParseCli \/ CfgValidation \/ DnsManage

Spec == Init /\ [][Next]_vars

-----------------------------------------------------------------------------
(* Properties *)

(* The key the code reads where flag f takes effect.                       *)
ReadFor ==
    [f \in Flag |->
        CASE f = "agent"           -> "agents"
          [] f = "provider"        -> "dnsProvider"
          [] f = "etcd"            -> "etcEndpoint"
          [] f = "mock-file"       -> "mockZonePath"
          [] f = "mock-file-state" -> "mockZoneStatePath"
          [] f = "instance-id"     -> "instance-identifier"
          [] OTHER                 -> f]

(* Where an option is read it has the value of its flag, if that was       *)
(* given, and else of the config file, if -cfg was given (parseCli).  This *)
(* is all that holds of every option: the default of etcd-interval-        *)
(* monitoring, "Defaults to 30 seconds" (main.go:143), never reaches viper *)
(* and the 0 read at main.go:457 lets the monitor loop run without pause.  *)
GivenTakesEffect ==
    stage = "running" =>
        \A f \in Flag :
            LET k == ReadFor[f] IN
            IF f \in DOMAIN passed THEN settings[k] = Given(f)
            ELSE "cfg" \in DOMAIN passed /\ k \in DOMAIN file =>
                     settings[k] = file[k]

(* What the chosen election and provider read (main.go:377-410, 530-622).  *)
(* mockjson gets along without a file for its state.                       *)
ReadByChosen ==
    (CASE settings["election"] = "k8s" ->
              {"instance-identifier", "k8s-lock-name", "k8s-lock-namespace"}
       [] settings["election"] = "raft" ->
              {"instance-identifier", "raft-address", "raft-dir"}
       [] OTHER -> {})
    \cup (IF settings["dnsProvider"] = "autodns"
          THEN {"autodns-username", "autodns-password"} ELSE {"mockZonePath"})

(* The controllers are started only when the texts their election and      *)
(* provider read are there and not empty, and the list of etcds has a      *)
(* member, although a missing -mock-file passes cfgValidation (nil is not  *)
(* "", main.go:351).  Nothing of the kind holds of what else they are      *)
(* built from: that member may be "" (main.go:242), and there may be no    *)
(* agent (main.go:459) and no load balancer (main.go:438-461).             *)
ChosenGiven ==
    stage = "running" =>
        \A k \in ReadByChosen \cup {"etcEndpoint"} : settings[k] \notin {"", NIL}

Ports == 0 .. 65535

(* The -lb flags that none with the same name follows.                     *)
LastFlags ==
    {i \in DOMAIN lbFlags :
        \A j \in DOMAIN lbFlags : lbFlags[j].name = lbFlags[i].name => j <= i}

(* The last -lb for a load balancer is the one that counts, and of its     *)
(* endpoints, or those in the file, every one with an IPv4 address and a   *)
(* valid port is wanted as it was written (net.go:52); no port is out of   *)
(* range.                                                                  *)
EndpointsAsWritten ==
    stage = "running" =>
        /\ \A i \in LastFlags : LET n == lbFlags[i].name IN
               n \in DOMAIN wanted /\ lbs[n] = lbFlags[i].endpoints
        /\ \A n \in DOMAIN lbs :
               /\ \A w \in lbs[n] :
                      w.IP \in IPv4 /\ w.Port \in Ports => w \in wanted[n]
               /\ \A e \in wanted[n] : e.Port \in Ports
=============================================================================
