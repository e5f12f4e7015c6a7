---------------------------- MODULE Config_proofs ----------------------------
(* Proofs about Config: for every command line and every config file.      *)
EXTENDS Config, WellFoundedInduction, TLAPS

(* Flags are stored where they are read, and no two in the same place.     *)
LEMMA KeysAgree ==
    /\ \A f \in Flag : KeyOf(f) = ReadFor[f] /\ ReadFor[f] \in Key
    /\ \A f, g \in Flag \cup {"cfg"} : KeyOf(f) = KeyOf(g) => f = g
BY DEF KeyOf, ReadFor, Key, Flag, SameName, Renamed, Numbers, Switches

PassedOK == DOMAIN passed \subseteq Flag \cup {"cfg"}

(* What viper holds for the flag f once parseCli is through.               *)
TakesEffect(f) ==
    IF f \in DOMAIN passed THEN settings[ReadFor[f]] = Given(f)
    ELSE "cfg" \in DOMAIN passed /\ ReadFor[f] \in DOMAIN file =>
             settings[ReadFor[f]] = file[ReadFor[f]]

Parsed == stage # "parseCli" => \A f \in Flag : TakesEffect(f)

LEMMA ParseCliEffect ==
    ASSUME PassedOK, ParseCli, NEW f \in Flag
    PROVE  TakesEffect(f)'
<1> DEFINE k == ReadFor[f]
<1>1. k \in Key /\ KeyOf(f) = k
  BY KeysAgree
<1>2. UNCHANGED <<passed, file>>
  BY DEF ParseCli
<1>3. settings'[k] =
          IF \E g \in DOMAIN passed : KeyOf(g) = k
          THEN Given(CHOOSE g \in DOMAIN passed : KeyOf(g) = k)
          ELSE IF "cfg" \in DOMAIN passed /\ k \in DOMAIN file
          THEN file[k]
          ELSE IF k \in Defaults THEN "default" ELSE NIL
  BY <1>1 DEF ParseCli
<1>4. \A g \in DOMAIN passed : KeyOf(g) = k => g = f
  BY <1>1, KeysAgree DEF PassedOK
<1>5. CASE f \in DOMAIN passed
  <2>1. (CHOOSE g \in DOMAIN passed : KeyOf(g) = k) = f
    BY <1>1, <1>4, <1>5
  <2>2. settings'[k] = Given(f)
    BY <1>1, <1>3, <1>5, <2>1
  <2> QED
    BY <1>2, <1>5, <2>2 DEF TakesEffect, Given
<1>6. CASE f \notin DOMAIN passed
  <2>1. ~ \E g \in DOMAIN passed : KeyOf(g) = k
    BY <1>4, <1>6
  <2> QED
    BY <1>2, <1>3, <1>6, <2>1 DEF TakesEffect
<1> QED
  BY <1>5, <1>6

(* Whatever the command line and the config file, an option that is given  *)
(* by either has that value where it is read, and the flag wins (parseCli, *)
(* main.go:192-295).                                                       *)
THEOREM GivenTakesEffectHolds == Spec => []GivenTakesEffect
<1> DEFINE IInv == PassedOK /\ Parsed
<1>1. Init => IInv
  BY InputsAssumption DEF Init, PassedOK, Parsed
<1>2. IInv /\ [Next]_vars => IInv'
  <2> SUFFICES ASSUME IInv, [Next]_vars
               PROVE  IInv'
    OBVIOUS
  <2>1. CASE ParseCli
    <3>1. \A f \in Flag : TakesEffect(f)'
      BY <2>1, ParseCliEffect
    <3>2. PassedOK'
      BY <2>1 DEF ParseCli, PassedOK
    <3> QED
      BY <3>1, <3>2 DEF Parsed
  <2>2. CASE CfgValidation
    BY <2>2 DEF CfgValidation, PassedOK, Parsed, TakesEffect, Given
  <2>3. CASE DnsManage
    BY <2>3 DEF DnsManage, PassedOK, Parsed, TakesEffect, Given
  <2>4. CASE UNCHANGED vars
    BY <2>4 DEF vars, PassedOK, Parsed, TakesEffect, Given
  <2> QED
    BY <2>1, <2>2, <2>3, <2>4 DEF Next
<1>3. IInv => GivenTakesEffect
  BY DEF Parsed, TakesEffect, GivenTakesEffect
<1> QED
  BY <1>1, <1>2, <1>3, PTL DEF Spec

-----------------------------------------------------------------------------
Valid == ~Empty("etcEndpoint") /\ ElectionValid /\ ProviderValid

MockReadable ==
    settings["dnsProvider"] \in {"mock", "mockjson"} => ~Empty("mockZonePath")

(* The texts the chosen election and provider read are there and not empty *)
(* whenever the controllers are started, and so is a list of etcds, which  *)
(* may be that of -etcd "" (cfgValidation; the mocks' file, main.go:379    *)
(* and 403).                                                               *)
THEOREM ChosenGivenHolds == Spec => []ChosenGiven
<1> DEFINE IInv == /\ stage \in {"dnsManage", "running"} => Valid
                   /\ stage = "running" => MockReadable
<1>1. Init => IInv
  BY DEF Init
<1>2. IInv /\ [Next]_vars => IInv'
  <2> SUFFICES ASSUME IInv, [Next]_vars
               PROVE  IInv'
    OBVIOUS
  <2> USE DEF Valid, MockReadable, Empty, ElectionValid, ProviderValid
  <2>1. CASE ParseCli
    BY <2>1 DEF ParseCli
  <2>2. CASE CfgValidation
    BY <2>2 DEF CfgValidation
  <2>3. CASE DnsManage
    BY <2>3 DEF DnsManage
  <2>4. CASE UNCHANGED vars
    BY <2>4 DEF vars
  <2> QED
    BY <2>1, <2>2, <2>3, <2>4 DEF Next
<1>3. IInv => ChosenGiven
  BY DEF Valid, MockReadable, Empty, ElectionValid, ProviderValid,
         ChosenGiven, ReadByChosen
<1> QED
  BY <1>1, <1>2, <1>3, PTL DEF Spec

-----------------------------------------------------------------------------
(* A nonempty set of indices has a greatest one: the difference to n is    *)
(* well-founded.                                                           *)
LEMMA LastIndex ==
    ASSUME NEW n \in Nat, NEW T \in SUBSET (1 .. n), T # {}
    PROVE  \E i \in T : \A j \in T : j <= i
<1> DEFINE U == {n - i : i \in T}
           R == OpToRel(<, Nat)
<1>1. IsWellFoundedOn(R, Nat)
  BY NatLessThanWellFounded
<1>2. \A x, y \in Nat : x < y => <<x, y>> \in R
  BY DEF OpToRel
<1> HIDE DEF R
<1>3. U \subseteq Nat /\ U # {}
  <2>1. \A i \in T : n - i \in Nat
    OBVIOUS
  <2> QED
    BY <2>1
<1>4. PICK x \in U : \A y \in U : ~ (<<y, x>> \in R)
  <2> HIDE DEF U
  <2> QED
    BY <1>1, <1>3, WFMin
<1>5. \A y \in U : x <= y
  <2> HIDE DEF U
  <2>1. \A y \in U : x \in Nat /\ y \in Nat /\ ~(y < x)
    BY <1>2, <1>3, <1>4
  <2> QED
    BY <2>1
<1>6. PICK i \in T : x = n - i
  OBVIOUS
<1>7. \A j \in T : n - i <= n - j
  BY <1>5, <1>6
<1> QED
  BY <1>7

(* StringMap.Set: a name that is given keeps what its last flag says.      *)
LEMMA LastOfIsTheLast ==
    ASSUME NEW flags, NEW m \in Nat, DOMAIN flags = 1 .. m,
           NEW n \in DOMAIN LastOf(flags)
    PROVE  \E i \in DOMAIN flags :
               /\ flags[i].name = n
               /\ \A j \in DOMAIN flags : flags[j].name = n => j <= i
               /\ LastOf(flags)[n] = flags[i].endpoints
<1> DEFINE T == {i \in DOMAIN flags : flags[i].name = n}
           IsLast(i) == /\ flags[i].name = n
                        /\ \A j \in DOMAIN flags : flags[j].name = n => j <= i
           last == CHOOSE i \in DOMAIN flags : IsLast(i)
<1>1. n \in {flags[i].name : i \in DOMAIN flags}
  BY DEF LastOf
<1>2. T # {} /\ T \in SUBSET (1 .. m)
  BY <1>1
<1>3. \E i \in T : \A j \in T : j <= i
  <2> HIDE DEF T
  <2> QED
    BY <1>2, LastIndex
<1>4. \E i \in DOMAIN flags : IsLast(i)
  BY <1>3
<1>5. last \in DOMAIN flags /\ IsLast(last)
  <2> HIDE DEF IsLast
  <2> QED
    BY <1>4
<1>6. LastOf(flags)[n] = flags[last].endpoints
  BY <1>1 DEF LastOf
<1> HIDE DEF last
<1> QED
  BY <1>5, <1>6

(* A port that is a port is not changed by the conversion to uint16.       *)
LEMMA PortFits ==
    ASSUME NEW x \in Int
    PROVE  /\ Uint16(x) \in Ports
           /\ x \in Ports => Uint16(x) = x
<1>1. 2 ^ 16 = 65536
  OBVIOUS
<1>2. Uint16(x) = x % 65536
  BY <1>1 DEF Uint16
<1>3. x % 65536 \in Ports
  BY DEF Ports
<1>4. ASSUME 0 <= x, x < 65536
      PROVE  x % 65536 = x
  BY <1>4
<1>5. x \in Ports => x % 65536 = x
  BY <1>4 DEF Ports
<1>6. Uint16(x) \in Ports
  BY <1>2, <1>3
<1>7. x \in Ports => Uint16(x) = x
  BY <1>2, <1>5
<1> QED
  BY <1>6, <1>7

-----------------------------------------------------------------------------
(* What tryParseEndpointProtocol returns for a text it can read.           *)
Readable(w) ==
    /\ w = [Protocol |-> w.Protocol, IP |-> w.IP, Port |-> w.Port]
    /\ w.Port \in Int

AllReadable(S) == \A w \in S \ {NIL} : Readable(w)

LEMMA EndpointKept ==
    ASSUME NEW w, Readable(w)
    PROVE  /\ TryParseEndpointProtocol(w).Port \in Ports
           /\ w.IP \in IPv4 /\ w.Port \in Ports =>
                  TryParseEndpointProtocol(w) = w
<1> DEFINE ip == IF w.IP \in IPv4 THEN w.IP ELSE NIL
<1>1. w.Port \in Int
  BY DEF Readable
<1>2. /\ Uint16(w.Port) \in Ports
      /\ w.Port \in Ports => Uint16(w.Port) = w.Port
  BY <1>1, PortFits, Zenon
<1>3. TryParseEndpointProtocol(w) =
          [Protocol |-> w.Protocol, IP |-> ip, Port |-> Uint16(w.Port)]
  BY DEF TryParseEndpointProtocol
<1>4. TryParseEndpointProtocol(w).Port = Uint16(w.Port)
  BY <1>3
<1>5. ASSUME w.IP \in IPv4, Uint16(w.Port) = w.Port
      PROVE  TryParseEndpointProtocol(w) = w
  <2>1. ip = w.IP
    BY <1>5
  <2>2. w = [Protocol |-> w.Protocol, IP |-> w.IP, Port |-> w.Port]
    BY DEF Readable
  <2> QED
    BY <1>3, <1>5, <2>1, <2>2, Zenon
<1> QED
  BY <1>2, <1>4, <1>5, Zenon

FlagsOK ==
    /\ Len(lbFlags) \in Nat /\ DOMAIN lbFlags = 1 .. Len(lbFlags)
    /\ \A i \in DOMAIN lbFlags : AllReadable(lbFlags[i].endpoints)

LbsOK == \A n \in DOMAIN lbs : AllReadable(lbs[n])

LastCounts ==
    stage # "parseCli" =>
        \A i \in LastFlags : /\ lbFlags[i].name \in DOMAIN lbs
                             /\ lbs[lbFlags[i].name] = lbFlags[i].endpoints

WantedOK ==
    stage = "running" =>
        \A n \in DOMAIN lbs :
            /\ NIL \notin lbs[n]
            /\ n \in DOMAIN wanted
            /\ wanted[n] = {TryParseEndpointProtocol(w) : w \in lbs[n]}

(* The load balancers handed to the controllers are the parsed endpoints   *)
(* of the last option for each, whether it was a flag or the file (net.go, *)
(* tryParseEndpointProtocol; main.go, StringMap.Set and dnsManage).        *)
THEOREM EndpointsAsWrittenHolds == Spec => []EndpointsAsWritten
<1> DEFINE IInv == FlagsOK /\ LbsOK /\ LastCounts /\ WantedOK
<1>1. Init => IInv
  <2> SUFFICES ASSUME Init PROVE IInv
    OBVIOUS
  <2>1. PICK i \in Inputs : lbFlags = i.lbFlags /\ lbs = i.lbs
    BY DEF Init
  <2>2. \A w \in EndpointsOf(i) \ {NIL} : Readable(w)
    BY InputsAssumption DEF Readable
  <2>3. FlagsOK
    BY <2>1, <2>2, InputsAssumption DEF FlagsOK, AllReadable, EndpointsOf
  <2>4. LbsOK
    <3>1. \A n \in DOMAIN i.lbs : i.lbs[n] \subseteq EndpointsOf(i)
      BY DEF EndpointsOf
    <3> QED
      BY <2>1, <2>2, <3>1 DEF LbsOK, AllReadable
  <2> QED
    BY <2>3, <2>4 DEF Init, LastCounts, WantedOK
<1>2. IInv /\ [Next]_vars => IInv'
  <2> SUFFICES ASSUME IInv, [Next]_vars
               PROVE  IInv'
    OBVIOUS
  <2>1. CASE ParseCli
    <3>1. FlagsOK' /\ WantedOK'
      BY <2>1 DEF ParseCli, FlagsOK, WantedOK, AllReadable, Readable
    <3>2. LastCounts'
      <4>1. UNCHANGED LastFlags
        BY <2>1 DEF ParseCli, LastFlags
      <4>2. ASSUME NEW i \in LastFlags
            PROVE  /\ lbFlags[i].name \in DOMAIN lbs'
                   /\ lbs'[lbFlags[i].name] = lbFlags[i].endpoints
        <5>1. i \in DOMAIN lbFlags /\ lbFlags # <<>>
          BY DEF LastFlags
        <5>2. lbs' = LastOf(lbFlags) /\ lbFlags[i].name \in DOMAIN lbs'
          BY <2>1, <5>1 DEF ParseCli, LastOf
        <5>3. PICK k \in DOMAIN lbFlags :
                  /\ lbFlags[k].name = lbFlags[i].name
                  /\ \A j \in DOMAIN lbFlags :
                         lbFlags[j].name = lbFlags[i].name => j <= k
                  /\ lbs'[lbFlags[i].name] = lbFlags[k].endpoints
          BY <5>2, LastOfIsTheLast DEF FlagsOK
        <5>4. k <= i /\ i <= k
          BY <5>1, <5>3 DEF LastFlags
        <5>5. k \in Int /\ i \in Int
          BY <5>1 DEF FlagsOK
        <5> QED
          BY <5>2, <5>3, <5>4, <5>5
      <4> QED
        BY <2>1, <4>1, <4>2 DEF ParseCli, LastCounts
    <3>3. CASE lbs' = lbs
      BY <3>1, <3>2, <3>3 DEF LbsOK, AllReadable, Readable
    <3>4. CASE lbs' = LastOf(lbFlags)
      <4>1. ASSUME NEW n \in DOMAIN lbs'
            PROVE  AllReadable(lbs'[n])
        <5>1. PICK i \in DOMAIN lbFlags : lbs'[n] = lbFlags[i].endpoints
          BY <3>4, LastOfIsTheLast DEF FlagsOK
        <5> QED
          BY <5>1 DEF FlagsOK
      <4> QED
        BY <3>1, <3>2, <4>1 DEF LbsOK, AllReadable, Readable
    <3>5. CASE lbs' = LastOf(<<>>)
      <4>1. DOMAIN lbs' = {}
        BY <3>5 DEF LastOf
      <4> QED
        BY <3>1, <3>2, <4>1 DEF LbsOK
    <3> QED
      BY <2>1, <3>3, <3>4, <3>5 DEF ParseCli
  <2>2. CASE CfgValidation
    BY <2>2 DEF CfgValidation, FlagsOK, LbsOK, LastCounts, LastFlags, WantedOK,
                AllReadable, Readable
  <2>3. CASE DnsManage
    <3>1. FlagsOK' /\ LbsOK' /\ LastCounts'
      BY <2>3 DEF DnsManage, FlagsOK, LbsOK, LastCounts, LastFlags,
                  AllReadable, Readable
    <3>2. WantedOK'
      BY <2>3 DEF DnsManage, WantedOK
    <3> QED
      BY <3>1, <3>2
  <2>4. CASE UNCHANGED vars
    BY <2>4 DEF vars, FlagsOK, LbsOK, LastCounts, LastFlags, WantedOK,
                AllReadable, Readable
  <2> QED
    BY <2>1, <2>2, <2>3, <2>4 DEF Next
<1>3. IInv => EndpointsAsWritten
  <2> SUFFICES ASSUME IInv, stage = "running"
               PROVE  EndpointsAsWritten
    BY DEF EndpointsAsWritten
  <2>1. \A i \in LastFlags : /\ lbFlags[i].name \in DOMAIN wanted
                             /\ lbs[lbFlags[i].name] = lbFlags[i].endpoints
    BY DEF LastCounts, WantedOK
  <2>2. ASSUME NEW n \in DOMAIN lbs
        PROVE  /\ \A w \in lbs[n] :
                      w.IP \in IPv4 /\ w.Port \in Ports => w \in wanted[n]
               /\ \A e \in wanted[n] : e.Port \in Ports
    <3>1. wanted[n] = {TryParseEndpointProtocol(w) : w \in lbs[n]}
      BY DEF WantedOK
    <3>2. \A w \in lbs[n] : Readable(w)
      BY DEF WantedOK, LbsOK, AllReadable
    <3>3. \A w \in lbs[n] :
              /\ TryParseEndpointProtocol(w).Port \in Ports
              /\ w.IP \in IPv4 /\ w.Port \in Ports =>
                     TryParseEndpointProtocol(w) = w
      BY <3>2, EndpointKept
    <3>4. \A w \in lbs[n] :
              w.IP \in IPv4 /\ w.Port \in Ports => w \in wanted[n]
      BY <3>1, <3>3
    <3>5. \A e \in wanted[n] : e.Port \in Ports
      BY <3>1, <3>3
    <3> QED
      BY <3>4, <3>5
  <2> QED
    BY <2>1, <2>2, Zenon DEF EndpointsAsWritten
<1> QED
  BY <1>1, <1>2, <1>3, PTL DEF Spec

=============================================================================
