--------------------------- MODULE ETCDController ---------------------------
(***************************************************************************)
(* The etcd controller of dnslb (src/etcdController.go).  Two goroutines   *)
(* talk to etcd, one call after the other:                                 *)
(*                                                                         *)
(*  - statusLoop reads the reports of the health agents one by one, counts *)
(*    for every ip:port how many healthy checks were reported, and sends   *)
(*    the list of the endpoints a majority found healthy;                  *)
(*  - monitorLoop keeps the key "monitors", which tells the agents what to *)
(*    check, at the configured endpoints.                                  *)
(*                                                                         *)
(* The agents (healthd, external) go on reporting between two reads.       *)
(* The goroutine that hands a list to the DNS controller is DNSController's*)
(* "updates"; statusLoop does not wait for it.                             *)
(***************************************************************************)
EXTENDS Naturals, Sequences, FiniteSets

CONSTANTS
    LB,             \* names of the configured load balancers
    Check,          \* entries of the list of monitors: protocol, IP and port
    Address,        \* ip:port
    AddressOf,      \* the address of each check
    Wanted,         \* each load balancer's endpoints, a check for each
    Agent,          \* health agents
    Agents,         \* the sequence of configured agents
    OtherMonitors,  \* what somebody else may write to "monitors"
    InitReachable,  \* what the agents may be able to reach at the start
    NULL,           \* nothing usable; the zero hash
    MaxChanges,     \* bound on changes of what agents can reach
    MaxCrashes,     \* bound on agents crashing
    MaxReadErrors,  \* bound on failed reads and lost reports
    MaxWriteErrors, \* bound on failed writes
    MaxMeddling,    \* bound on writes and deletes of "monitors" by others
    MaxMishaps      \* bound on all of these together

(* The lists syncStatus can compute: load balancers, each with at least an *)
(* endpoint.                                                               *)
List == UNION {[S -> (SUBSET Check) \ {{}}] : S \in SUBSET LB}

ASSUME ConstantsAssumption ==
    /\ AddressOf \in [Check -> Address]
    /\ Wanted \in [LB -> SUBSET Check]
    /\ Agents \in Seq(Agent)
    /\ IsFiniteSet(Agent)
    /\ IsFiniteSet(Check)
    /\ OtherMonitors \subseteq SUBSET Check
    /\ InitReachable \subseteq [Agent -> SUBSET Check]
    /\ \A checks \in SUBSET Check : checks # NULL
    /\ NULL \notin List
    /\ {MaxChanges, MaxCrashes, MaxReadErrors, MaxWriteErrors, MaxMeddling,
        MaxMishaps} \subseteq Nat

(* Every endpoint of every load balancer is appended to the monitors       *)
(* (etcdController.go:293-298): one that two of them share is two checks   *)
(* with one address, which an agent may report, and vote for, twice.       *)
ASSUME EntriesAssumption ==
    \A l, m \in LB : l # m => Wanted[l] \cap Wanted[m] = {}

VARIABLES
    (* ETCDController *)
    pc,                 \* statusLoop: where it is
    next,               \* statusLoop: index of the agent to read next
    endpointToHealthy,  \* statusLoop: the votes for each address
    current,            \* the list last computed, NULL before the first
    monitorPc,          \* monitorLoop: where it is
    lastMonitorHash,    \* the monitors last written (for their hash)
    (* etcd *)
    reports,            \* checks each agent's report says are healthy; NULL:
                        \* missing, broken or older than maxStatusAge
    monitors,           \* the key "monitors", NULL when it is missing
    (* agents *)
    reachable,          \* the checks that succeed when an agent runs them
    alive,
    (* history of the cycle that runs *)
    everHealthy,        \* checks in some report of an agent since its start
    alwaysHealthy,      \* checks in every one of them, if it could be read
    budget

statusVars  == <<pc, next, endpointToHealthy, current>>
monitorVars == <<monitorPc, lastMonitorHash>>
agentVars   == <<reachable, alive>>
history     == <<everHealthy, alwaysHealthy>>
vars == <<statusVars, monitorVars, reports, monitors, agentVars, history, budget>>

-----------------------------------------------------------------------------
Healthy(ag) == IF reports[ag] = NULL THEN {} ELSE reports[ag]

Addresses(checks) == {AddressOf[c] : c \in checks}

NoVotes == [x \in Address |-> 0]

(* Slip: more than a majority is needed.                                   *)
Majority_Strict(votes, x) == votes[x] > Len(Agents) \div 2 + 1

Majority(votes, x) == votes[x] > Len(Agents) \div 2

HealthyEndpoints(lb, votes) ==
    {c \in Wanted[lb] : Majority(votes, AddressOf[c])}

(* The list: LBs without a healthy endpoint are left out.                  *)
Loadbalancers(votes) ==
    [lb \in {x \in LB : HealthyEndpoints(x, votes) # {}} |->
        HealthyEndpoints(lb, votes)]

(* getWantedMonitorsAsString: a check for every endpoint of every LB.      *)
WantedMonitors == UNION {Wanted[lb] : lb \in LB}

Spend(kind) ==
    /\ budget[kind] > 0
    /\ budget["all"] > 0
    /\ budget' = [budget EXCEPT ![kind] = @ - 1, !["all"] = @ - 1]

-----------------------------------------------------------------------------
Init ==
    /\ pc = "select"
    /\ next = 1
    /\ endpointToHealthy = NoVotes
    /\ current = NULL
    /\ monitorPc = "select"
    /\ lastMonitorHash = NULL
    /\ reports = [ag \in Agent |-> NULL]
    /\ monitors \in OtherMonitors \cup {NULL, WantedMonitors}
    /\ reachable \in InitReachable
    /\ alive = [ag \in Agent |-> TRUE]
    /\ everHealthy = [ag \in Agent |-> {}]
    /\ alwaysHealthy = [ag \in Agent |-> {}]
    /\ budget = [change |-> MaxChanges, crash |-> MaxCrashes,
                 read |-> MaxReadErrors, write |-> MaxWriteErrors,
                 meddle |-> MaxMeddling, all |-> MaxMishaps]

-----------------------------------------------------------------------------
(* statusLoop *)

(* Slip: the votes of the cycle before are not forgotten.                  *)
VotesAtStart_Kept == endpointToHealthy

VotesAtStart == NoVotes

StartSync ==
    /\ pc = "select"
    /\ pc' = "read"
    /\ next' = 1
    /\ endpointToHealthy' = VotesAtStart
    /\ everHealthy' = [ag \in Agent |-> Healthy(ag)]
    /\ alwaysHealthy' = [ag \in Agent |-> Healthy(ag)]
    /\ UNCHANGED <<current, monitorVars, reports, monitors, agentVars, budget>>

(* A report is read: every healthy check is a vote for its address.        *)
ReadAgent ==
    /\ pc = "read"
    /\ next <= Len(Agents)
    /\ reports[Agents[next]] # NULL
    /\ next' = next + 1
    /\ endpointToHealthy' =
        [x \in Address |-> endpointToHealthy[x] +
            Cardinality({c \in reports[Agents[next]] : AddressOf[c] = x})]
    /\ UNCHANGED <<pc, current, monitorVars, reports, monitors, agentVars,
                   history, budget>>

(* Slip: an agent that cannot be read ends the cycle.                      *)
AfterReadFailure_Return == "select"

AfterReadFailure == "read"

(* Get fails, or the report is broken or too old: the agent has no vote    *)
(* but still counts when the majority is formed.                           *)
ReadAgentFails ==
    /\ pc = "read"
    /\ next <= Len(Agents)
    /\ IF reports[Agents[next]] = NULL THEN UNCHANGED budget ELSE Spend("read")
    /\ next' = next + 1
    /\ pc' = AfterReadFailure
    /\ alwaysHealthy' = [alwaysHealthy EXCEPT ![Agents[next]] = {}]
    /\ UNCHANGED <<endpointToHealthy, current, monitorVars, reports,
                   monitors, agentVars, everHealthy>>

(* The list is computed and handed to a goroutine; the cycle is over.      *)
SendList ==
    /\ pc = "read"
    /\ next > Len(Agents)
    /\ current' = Loadbalancers(endpointToHealthy)
    /\ pc' = "select"
    /\ UNCHANGED <<next, endpointToHealthy, monitorVars, reports, monitors,
                   agentVars, history, budget>>

-----------------------------------------------------------------------------
(* monitorLoop *)

(* Slip: a missing key is left alone.                                      *)
InSync_Missing == monitors = NULL \/ monitors = lastMonitorHash

InSync == monitors # NULL /\ monitors = lastMonitorHash

(* Get succeeds: nothing to do when the value is the one last written.     *)
(* The key may be missing, which is an error: it has to be written.        *)
GetMonitors ==
    /\ monitorPc = "select"
    /\ monitorPc' = IF InSync THEN "select" ELSE "set"
    /\ UNCHANGED <<statusVars, lastMonitorHash, reports, monitors, agentVars,
                   history, budget>>

(* Any other error of Get is followed by a Set too.                        *)
GetMonitorsFails ==
    /\ monitorPc = "select"
    /\ Spend("read")
    /\ monitorPc' = "set"
    /\ UNCHANGED <<statusVars, lastMonitorHash, reports, monitors, agentVars,
                   history>>

(* Slip: the hash of what was read is kept, not of what was written.       *)
HashAfterSet_Remote == monitors

HashAfterSet == WantedMonitors

SetMonitors ==
    /\ monitorPc = "set"
    /\ monitors' = WantedMonitors
    /\ lastMonitorHash' = HashAfterSet
    /\ monitorPc' = "select"
    /\ UNCHANGED <<statusVars, reports, agentVars, history, budget>>

(* Set fails, before or after etcd stored the value.                       *)
SetMonitorsFails ==
    /\ monitorPc = "set"
    /\ Spend("write")
    /\ monitors' \in {monitors, WantedMonitors}
    /\ monitorPc' = "select"
    /\ UNCHANGED <<statusVars, lastMonitorHash, reports, agentVars, history>>

-----------------------------------------------------------------------------
(* Environment *)

(* Everything that changes what etcd holds for an agent goes by here.      *)
PutReport(ag, r) ==
    LET healthy == IF r = NULL THEN {} ELSE r
    IN  /\ reports' = [reports EXCEPT ![ag] = r]
        /\ everHealthy' = [everHealthy EXCEPT ![ag] = @ \cup healthy]
        /\ alwaysHealthy' = [alwaysHealthy EXCEPT ![ag] = @ \cap healthy]

(* An agent runs the checks it finds in etcd and reports the result.       *)
AgentReports(ag) ==
    /\ alive[ag]
    /\ PutReport(ag, IF monitors = NULL THEN {} ELSE monitors \cap reachable[ag])
    /\ UNCHANGED <<statusVars, monitorVars, monitors, agentVars, budget>>

(* maxStatusAge has passed since a dead agent's report, or something else  *)
(* became of the report.                                                   *)
ReportExpires(ag) ==
    /\ reports[ag] # NULL
    /\ IF alive[ag] THEN Spend("read") ELSE UNCHANGED budget
    /\ PutReport(ag, NULL)
    /\ UNCHANGED <<statusVars, monitorVars, monitors, agentVars>>

AgentCrashes(ag) ==
    /\ alive[ag]
    /\ Spend("crash")
    /\ alive' = [alive EXCEPT ![ag] = FALSE]
    /\ UNCHANGED <<statusVars, monitorVars, reports, monitors, reachable, history>>

ReachabilityChanges(ag, checks) ==
    /\ Spend("change")
    /\ reachable' = [reachable EXCEPT ![ag] = checks]
    /\ UNCHANGED <<statusVars, monitorVars, reports, monitors, alive, history>>

(* Somebody else writes or deletes the key.                                *)
Meddle(m) ==
    /\ Spend("meddle")
    /\ monitors' = m
    /\ UNCHANGED <<statusVars, monitorVars, reports, agentVars, history>>

-----------------------------------------------------------------------------
StatusStep == StartSync \/ ReadAgent \/ ReadAgentFails \/ SendList

MonitorStep == GetMonitors \/ GetMonitorsFails \/ SetMonitors \/ SetMonitorsFails

Environment ==
    \/ \E ag \in Agent :
        \/ AgentReports(ag) \/ ReportExpires(ag) \/ AgentCrashes(ag)
        \/ \E checks \in SUBSET Check : ReachabilityChanges(ag, checks)
    \/ \E m \in OtherMonitors \cup {NULL} : Meddle(m)

Next == StatusStep \/ MonitorStep \/ Environment

Spec == Init /\ [][Next]_vars

(* Both loops run, living agents report, and a dead agent's report ages.   *)
Fairness ==
    /\ WF_vars(StatusStep)
    /\ WF_vars(MonitorStep)
    /\ \A ag \in Agent :
        /\ WF_vars(AgentReports(ag))
        /\ WF_vars(~alive[ag] /\ ReportExpires(ag))

FairSpec == Spec /\ Fairness

-----------------------------------------------------------------------------
(* Properties *)

TypeOK ==
    /\ pc \in {"select", "read"}
    /\ next \in 1..(Len(Agents) + 1)
    /\ endpointToHealthy \in [Address -> Nat]
    /\ current \in {NULL} \cup List
    /\ monitorPc \in {"select", "set"}
    /\ lastMonitorHash \in {NULL, WantedMonitors}
    /\ reports \in [Agent -> {NULL} \cup SUBSET Check]
    /\ monitors \in {NULL} \cup SUBSET Check
    /\ reachable \in [Agent -> SUBSET Check]
    /\ alive \in [Agent -> BOOLEAN]
    /\ everHealthy \in [Agent -> SUBSET Check]
    /\ alwaysHealthy \in [Agent -> SUBSET Check]
    /\ budget \in [{"change", "crash", "read", "write", "meddle", "all"} -> Nat]

(* The configured agents for which x is among the addresses of f[agent].   *)
Voters(f, x) == {ag \in Agent : /\ \E i \in DOMAIN Agents : Agents[i] = ag
                                /\ x \in Addresses(f[ag])}

AgentMajority(S) == 2 * Cardinality(S) > Len(Agents)

(* Every endpoint in a list was reported healthy, at some time since the   *)
(* cycle that made the list started, by a majority of the agents ("take    *)
(* only endpoints/lbs where majority think its healthy",                   *)
(* etcdController.go:165), although each report is read at another time.   *)
MajorityOfAgents ==
    [][SendList =>
        \A lb \in DOMAIN current' : \A c \in current'[lb] :
            AgentMajority(Voters(everHealthy, AddressOf[c]))]_vars

(* Every endpoint a majority of the agents reported healthy throughout the *)
(* cycle, and whose reports could be read, is in the list.                 *)
MajorityListed ==
    [][SendList =>
        \A lb \in LB : \A c \in Wanted[lb] :
            AgentMajority(Voters(alwaysHealthy, AddressOf[c])) =>
                lb \in DOMAIN current' /\ c \in current'[lb]]_vars

(* The monitors are written back after others changed or deleted them, and *)
(* stay (TestMonitorLoop).                                                 *)
MonitorsRestored == <>[](monitors = WantedMonitors)

(* What a majority of all agents, living and able to reach it, agrees on.  *)
TrueVotes ==
    [x \in Address |->
        Cardinality({ag \in Agent :
            alive[ag] /\ x \in Addresses(reachable[ag] \cap WantedMonitors)})]

(* When the agents, etcd and the network have calmed down, the lists show  *)
(* what the living agents can reach: dead agents lose their votes, and     *)
(* whatever others wrote into "monitors" is overcome.                      *)
ListConverges == <>[](current = Loadbalancers(TrueVotes))

=============================================================================
