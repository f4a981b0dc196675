--------------------------- MODULE StartupProofs ----------------------------
(***************************************************************************)
(* Proofs about Startup, for any number of retries, any replica hosts and  *)
(* lists of them and any number of outages: a server that serves has       *)
(* reached all its databases and made all its tables, and a start gives a  *)
(* database up only after maxRetries pings of that database, and goes      *)
(* forward with every step.                                                *)
(***************************************************************************)
EXTENDS Startup, TLAPS

\* The bounds count from zero.
LEMMA Bounds == /\ maxRetries \in Nat \ {0} /\ 0 \in 0..maxRetries /\ 0 \in 0..MaxOutages
                /\ [host \in Hosts |-> 0] \in [Hosts -> 0..maxRetries]
  <1>1. maxRetries \in Nat \ {0} /\ MaxOutages \in Nat
    BY StartupAssumption
  <1>2. 0 \in 0..maxRetries /\ 0 \in 0..MaxOutages
    BY <1>1
  <1> QED
    BY <1>1, <1>2

\* The parts of the configuration.
LEMMA EnvType ==
  ASSUME TypeOK
  PROVE  /\ env.etcd \in BOOLEAN /\ env.portIsNumber \in BOOLEAN
         /\ env.replicas \in Seq(Replicas \cup {NoHost})
         /\ Len(env.replicas) \in Nat /\ DOMAIN env.replicas = 1..Len(env.replicas)
         /\ \A i \in 1..Len(env.replicas) : env.replicas[i] \in Replicas \cup {NoHost}
         /\ Primary # NoHost /\ maxRetries \in Nat \ {0}
  BY StartupAssumption DEF TypeOK, Reachable

\* Whose turn it is, is a host or nobody's.
LEMMA CurrentType ==
  ASSUME TypeOK
  PROVE  Current \in Hosts
  BY EnvType DEF Current, Hosts, TypeOK

\* Once the loop is at its end, the hosts passed are all there are.
LEMMA AllPassed ==
  ASSUME TypeOK, next > Len(env.replicas)
  PROVE  {Primary} \cup (Passed \ {NoHost}) = Configured
  <1>1. \A i \in DOMAIN env.replicas : i < next
    BY EnvType DEF TypeOK
  <1>2. Passed = {env.replicas[i] : i \in DOMAIN env.replicas}
    BY <1>1 DEF Passed
  <1> QED
    BY <1>2 DEF Configured

\* One host further.
LEMMA OneFurther ==
  ASSUME TypeOK, next \in 1..Len(env.replicas), next' = next + 1, UNCHANGED env
  PROVE  Passed' = Passed \cup {env.replicas[next]}
  <1>0. next \in Nat /\ DOMAIN env.replicas = 1..Len(env.replicas)
    BY EnvType DEF TypeOK
  <1>1. Passed' = {env.replicas[i] : i \in {j \in DOMAIN env.replicas : j < next + 1}}
    BY DEF Passed
  <1>2. {j \in DOMAIN env.replicas : j < next + 1}
          = {j \in DOMAIN env.replicas : j < next} \cup {next}
    <2>1. \A j \in DOMAIN env.replicas : j < next + 1 <=> j < next \/ j = next
      BY <1>0, EnvType
    <2>2. next \in DOMAIN env.replicas
      BY <1>0
    <2> QED
      BY <2>1, <2>2
  <1> QED
    BY <1>1, <1>2 DEF Passed

-----------------------------------------------------------------------------
(* The invariant *)

LEMMA StartInit == Init => StartInv
  <1> SUFFICES ASSUME Init PROVE StartInv
    OBVIOUS
  <1>1. TypeOK
    BY Bounds DEF Init, TypeOK, Places
  <1>2. /\ place = "start" /\ attempt = 0 /\ next = 0 /\ connected = {} /\ attempt < maxRetries
        /\ \A host \in Hosts : refused[host] = IF host = Current THEN attempt ELSE 0
    BY <1>1, EnvType DEF Init
  <1>3. PingsOwn
    BY <1>2 DEF PingsOwn
  <1> QED
    BY <1>1, <1>2, <1>3 DEF StartInv, Completed

\* A step to a place behind the pings, or to the end.
LEMMA GoToStep ==
  ASSUME StartInv, NEW p \in {"tables", "migrate", "install", "serving", "exited"}, GoTo(p),
         ~env.etcd => \/ p = "exited"
                      \/ /\ connected = Configured
                         /\ p # "tables" => tables = AllTables
  PROVE  StartInv'
  <1>1. TypeOK'
    BY DEF StartInv, GoTo, TypeOK, Places
  <1>2. place' = p /\ Configured' = Configured /\ UNCHANGED <<env, connected, tables>>
    BY DEF GoTo, Configured
  <1>3. PingsOwn' /\ Completed'
    BY <1>2 DEF PingsOwn, Completed
  <1> QED
    BY <1>1, <1>3 DEF StartInv

\* A step that exits.
LEMMA ExitStep ==
  ASSUME StartInv, Exit
  PROVE  StartInv'
  BY GoToStep DEF Exit, GoTo

\* The steps before the first ping.
LEMMA EarlyStep ==
  ASSUME StartInv, NEW p \in {"clusterId", "pingPrimary"}, GoTo(p),
         place \in {"start", "clusterId"}
  PROVE  StartInv'
  <1>1. TypeOK'
    BY DEF StartInv, GoTo, TypeOK, Places
  <1>2. Current' = Current
    BY DEF GoTo, Current
  <1>3. PingsOwn'
    BY <1>2 DEF StartInv, PingsOwn, GoTo
  <1> QED
    BY <1>1, <1>3 DEF StartInv, GoTo, Completed

LEMMA ConfigureStep ==
  ASSUME StartInv, Configure
  PROVE  StartInv'
  BY ExitStep, EarlyStep DEF Configure

LEMMA GetClusterIdStep ==
  ASSUME StartInv, GetClusterId
  PROVE  StartInv'
  <1>1. CASE Cluster \notin up
    BY <1>1, ExitStep DEF GetClusterId
  <1>2. CASE Cluster \in up /\ env.etcd
    BY <1>2, GoToStep DEF GetClusterId
  <1>3. CASE Cluster \in up /\ ~env.etcd
    BY <1>3, EarlyStep DEF GetClusterId
  <1> QED
    BY <1>1, <1>2, <1>3

\* The current host is pinged.
LEMMA PingStep ==
  ASSUME StartInv, place \in {"pingPrimary", "pingReplicas"}, Current # NoHost,
         next \in 0..Len(env.replicas),
         connected = IF next = 0 THEN {} ELSE {Primary} \cup (Passed \ {NoHost}),
         pingWithRetry(Current, "pingReplicas")
  PROVE  StartInv'
  <1>0. /\ TypeOK /\ Current \in Hosts /\ attempt \in Nat /\ attempt < maxRetries
        /\ maxRetries \in Nat \ {0}
        /\ \A host \in Hosts : refused[host] = IF host = Current THEN attempt ELSE 0
    BY CurrentType, EnvType DEF StartInv, PingsOwn, TypeOK
  <1>1. /\ connected' = connected \cup (up \intersect {Current})
        /\ refused' = [refused EXCEPT ![Current] = IF Current \in up THEN 0 ELSE @ + 1]
        /\ UNCHANGED <<env, up, outages, tables, ready>>
    BY DEF pingWithRetry, Pinged
  <1>2. CASE Current \in up
    <2>1. place' = "pingReplicas" /\ next' = next + 1 /\ attempt' = 0
      BY <1>2 DEF pingWithRetry
    <2>2. refused' \in [Hosts -> 0..maxRetries] /\ \A host \in Hosts : refused'[host] = 0
      BY <1>0, <1>1, <1>2 DEF TypeOK
    <2>3. connected' = connected \cup {Current}
      BY <1>1, <1>2
    <2>4. TypeOK'
      BY <1>0, <1>1, <2>1, <2>2, <2>3 DEF TypeOK, Places
    <2>5. connected' = {Primary} \cup (Passed' \ {NoHost})
      <3>1. CASE next = 0
        <4>1. Current = Primary /\ connected' = {Primary}
          BY <2>3, <3>1 DEF Current
        <4>2. Passed' = {}
          BY <2>1, <2>4, <3>1, EnvType, <1>1 DEF Passed
        <4> QED
          BY <4>1, <4>2
      <3>2. CASE next # 0
        <4>1. next \in 1..Len(env.replicas) /\ Current = env.replicas[next]
          BY <1>0, <3>2, EnvType DEF Current, TypeOK
        <4>2. Passed' = Passed \cup {Current}
          BY <1>0, <1>1, <2>1, <4>1, OneFurther
        <4> QED
          BY <2>3, <3>2, <4>2
      <3> QED
        BY <3>1, <3>2
    <2>6. PingsOwn'
      BY <1>0, <2>1, <2>2, <2>5 DEF PingsOwn, TypeOK
    <2> QED
      BY <2>1, <2>4, <2>6 DEF StartInv, Completed
  <1>3. CASE Current \notin up
    <2>1. /\ attempt' = attempt + 1 /\ next' = next
          /\ place' = IF attempt' = maxRetries THEN "exited" ELSE place
      BY <1>3 DEF pingWithRetry
    <2>2. connected' = connected /\ Current' = Current /\ Passed' = Passed
      BY <1>1, <1>3, <2>1 DEF Current, Passed
    <2>3. /\ refused' \in [Hosts -> Nat]
          /\ \A host \in Hosts : refused'[host] = IF host = Current THEN attempt + 1 ELSE 0
      BY <1>0, <1>1, <1>3 DEF TypeOK
    <2>4. TypeOK'
      BY <1>0, <1>1, <2>1, <2>2, <2>3 DEF TypeOK, Places
    <2>5. PingsOwn'
      BY <1>0, <2>1, <2>2, <2>3 DEF StartInv, PingsOwn
    <2> QED
      BY <2>1, <2>4, <2>5 DEF StartInv, Completed
  <1> QED
    BY <1>2, <1>3

LEMMA PingPrimaryStep ==
  ASSUME StartInv, PingPrimary
  PROVE  StartInv'
  <1>1. place = "pingPrimary" /\ next = 0 /\ connected = {} /\ Current = Primary
    BY DEF PingPrimary, StartInv, PingsOwn, Current
  <1>2. next \in 0..Len(env.replicas) /\ Current # NoHost
    BY <1>1, EnvType DEF StartInv
  <1> QED
    BY <1>1, <1>2, PingStep DEF PingPrimary

LEMMA PingReplicaStep ==
  ASSUME StartInv, PingReplica
  PROVE  StartInv'
  <1>0. /\ TypeOK /\ place = "pingReplicas" /\ next \in Nat /\ next > 0
        /\ connected = {Primary} \cup (Passed \ {NoHost})
        /\ Len(env.replicas) \in Nat
    BY EnvType DEF PingReplica, StartInv, PingsOwn, TypeOK
  <1>1. CASE next > Len(env.replicas)
    BY <1>0, <1>1, AllPassed, GoToStep DEF PingReplica
  <1>2. CASE next <= Len(env.replicas) /\ env.replicas[next] # NoHost
    <2>1. Current = env.replicas[next] /\ next \in 0..Len(env.replicas)
      BY <1>0, <1>2 DEF Current
    <2> QED
      BY <1>0, <1>2, <2>1, PingStep DEF PingReplica
  <1>3. CASE next <= Len(env.replicas) /\ env.replicas[next] = NoHost
    <2>1. /\ next' = next + 1
          /\ UNCHANGED <<env, up, outages, place, attempt, connected, tables, ready, refused>>
      BY <1>0, <1>3 DEF PingReplica
    <2>2. Passed' = Passed \cup {NoHost}
      BY <1>0, <1>3, <2>1, OneFurther
    <2>3. connected' = {Primary} \cup (Passed' \ {NoHost})
      BY <1>0, <2>1, <2>2
    <2>4. Current = NoHost
      BY <1>0, <1>3 DEF Current
    <2>5. /\ attempt = 0 /\ attempt < maxRetries
          /\ \A host \in Hosts : refused[host] = IF host = Current THEN attempt ELSE 0
      BY <1>0, <2>4 DEF StartInv, PingsOwn
    <2>6. (\A host \in Hosts : refused'[host] = 0) /\ attempt' = 0 /\ attempt' < maxRetries
      BY <2>1, <2>5
    <2>7. TypeOK'
      BY <1>0, <2>1 DEF TypeOK
    <2>8. PingsOwn'
      BY <1>0, <2>1, <2>3, <2>6 DEF PingsOwn
    <2> QED
      BY <1>0, <2>1, <2>7, <2>8 DEF StartInv, Completed
  <1> QED
    BY <1>0, <1>1, <1>2, <1>3

LEMMA CreateTablesStep ==
  ASSUME StartInv, CreateTables
  PROVE  StartInv'
  <1>1. CASE Primary \notin up
    BY <1>1, ExitStep DEF CreateTables
  <1>2. CASE Primary \in up /\ tables = AllTables /\ GoTo("migrate")
    BY <1>2, GoToStep DEF CreateTables, StartInv, Completed
  <1>3. ASSUME NEW s \in AllTables, tables' = tables \cup {s},
               UNCHANGED <<env, up, outages, place, attempt, next, connected, ready, refused>>
        PROVE  StartInv'
    <2>1. TypeOK' /\ Configured' = Configured
      BY <1>3 DEF StartInv, TypeOK, Configured
    <2>2. PingsOwn' /\ Completed'
      BY <1>3, <2>1 DEF StartInv, PingsOwn, Completed, CreateTables
    <2> QED
      BY <2>1, <2>2 DEF StartInv
  <1> QED
    BY <1>1, <1>2, <1>3 DEF CreateTables

LEMMA LateStep ==
  ASSUME StartInv, Migrate \/ Install
  PROVE  StartInv'
  <1>1. CASE Migrate
    BY <1>1, ExitStep, GoToStep DEF Migrate, StartInv, Completed
  <1>2. CASE Install
    BY <1>2, GoToStep DEF Install, StartInv, Completed
  <1> QED
    BY <1>1, <1>2

LEMMA RestartStep ==
  ASSUME StartInv, Restart
  PROVE  StartInv'
  <1>1. TypeOK'
    BY Bounds DEF StartInv, Restart, TypeOK, Places
  <1>2. /\ place' = "start" /\ attempt' = 0 /\ next' = 0 /\ connected' = {} /\ attempt' < maxRetries
        /\ \A host \in Hosts : refused'[host] = IF host = Current' THEN attempt' ELSE 0
    BY EnvType DEF StartInv, Restart
  <1>3. PingsOwn'
    BY <1>2 DEF PingsOwn
  <1> QED
    BY <1>1, <1>3 DEF StartInv, Restart, Completed

\* The probe and the surroundings touch nothing of what a start has reached.
LEMMA OutsideStep ==
  ASSUME StartInv, UNCHANGED <<env, place, attempt, next, connected, tables, refused>>,
         up' \subseteq Reachable, outages' \in 0..MaxOutages, ready' \in BOOLEAN
  PROVE  StartInv'
  <1>1. TypeOK'
    BY DEF StartInv, TypeOK
  <1>2. Current' = Current /\ Passed' = Passed /\ Configured' = Configured
    BY DEF Current, Passed, Configured
  <1>3. PingsOwn' /\ Completed'
    BY <1>2 DEF StartInv, PingsOwn, Completed
  <1> QED
    BY <1>1, <1>3 DEF StartInv

LEMMA StartStep == StartInv /\ [Next]_vars => StartInv'
  <1> SUFFICES ASSUME StartInv, [Next]_vars PROVE StartInv'
    OBVIOUS
  <1>0. /\ up \subseteq Reachable /\ outages \in 0..MaxOutages /\ ready \in BOOLEAN
        /\ env.etcd \in BOOLEAN /\ MaxOutages \in Nat
    BY EnvType, StartupAssumption DEF StartInv, TypeOK
  <1>1. CASE Start
    BY <1>1, ConfigureStep, GetClusterIdStep, PingPrimaryStep, PingReplicaStep,
       CreateTablesStep, LateStep DEF Start
  <1>2. CASE Probe
    <2>1. ready' \in BOOLEAN
      BY <1>2 DEF Probe, Ready
    <2> QED
      BY <1>0, <1>2, <2>1, OutsideStep DEF Probe
  <1>3. CASE Restart
    BY <1>3, RestartStep
  <1>4. ASSUME NEW host \in Reachable, Lose(host)
        PROVE  StartInv'
    <2>1. up' \subseteq Reachable /\ outages' \in 0..MaxOutages
      BY <1>0, <1>4 DEF Lose
    <2> QED
      BY <1>0, <1>4, <2>1, OutsideStep DEF Lose
  <1>5. ASSUME NEW host \in Reachable, Regain(host)
        PROVE  StartInv'
    <2>1. up' \subseteq Reachable
      BY <1>0, <1>5 DEF Regain
    <2> QED
      BY <1>0, <1>5, <2>1, OutsideStep DEF Regain
  <1>6. CASE UNCHANGED vars
    BY <1>0, <1>6, OutsideStep DEF vars
  <1> QED
    BY <1>1, <1>2, <1>3, <1>4, <1>5, <1>6 DEF Next

\* The bookkeeping of a start is right however databases come and go: the
\* attempts are those of the current host, and all hosts before it answered.
THEOREM StartInvariance == Spec => []StartInv
  BY StartInit, StartStep, PTL DEF Spec

\* A server that serves from Postgres has pinged every configured database and
\* made every table and index, also when earlier starts died on the way.
THEOREM Whole == Spec => []ServesWhole
  <1>1. StartInv => ServesWhole
    BY DEF StartInv, Completed, ServesWhole
  <1> QED
    BY <1>1, StartInvariance, PTL

\* A start that gives a database up has pinged it maxRetries times in a row
\* without an answer, whatever the other databases did.
THEOREM EachHostItsBudget == Spec => OwnBudget
  <1> DEFINE Safe == place' = "exited" /\ place \in {"pingPrimary", "pingReplicas"} =>
                       LET host == IF place = "pingPrimary" THEN Primary ELSE env.replicas[next]
                       IN refused'[host] = maxRetries
  <1>1. StartInv /\ [Next]_vars => Safe
    <2> SUFFICES ASSUME StartInv, [Next]_vars, place' = "exited",
                        place \in {"pingPrimary", "pingReplicas"}
                 PROVE  refused'[IF place = "pingPrimary" THEN Primary ELSE env.replicas[next]]
                          = maxRetries
      OBVIOUS
    <2>0. /\ TypeOK /\ Current \in Hosts /\ attempt \in Nat /\ next \in Nat
          /\ \A host \in Hosts : refused[host] = IF host = Current THEN attempt ELSE 0
      BY CurrentType DEF StartInv, PingsOwn, TypeOK
    <2>1. ASSUME pingWithRetry(Current, "pingReplicas")
          PROVE  refused'[Current] = maxRetries
      <3>1. refused'[Current] = IF Current \in up THEN 0 ELSE attempt + 1
        BY <2>0, <2>1 DEF pingWithRetry, Pinged, TypeOK
      <3>2. Current \notin up /\ attempt + 1 = maxRetries
        BY <2>0, <2>1 DEF pingWithRetry
      <3> QED
        BY <3>1, <3>2
    <2>2. CASE PingPrimary
      <3>1. next = 0 /\ Current = Primary /\ place = "pingPrimary"
        BY <2>2 DEF PingPrimary, StartInv, PingsOwn, Current
      <3> QED
        BY <2>1, <2>2, <3>1 DEF PingPrimary
    <2>3. CASE PingReplica
      <3>1. place = "pingReplicas" /\ next > 0
        BY <2>3 DEF PingReplica, StartInv, PingsOwn
      <3>2. next <= Len(env.replicas) /\ pingWithRetry(env.replicas[next], "pingReplicas")
        BY <2>0, <2>3, <3>1, EnvType DEF PingReplica, GoTo
      <3>3. Current = env.replicas[next]
        BY <2>0, <3>1, <3>2, EnvType DEF Current
      <3> QED
        BY <2>1, <3>1, <3>2, <3>3
    <2> QED
      BY <2>2, <2>3 DEF Next, Start, Configure, GetClusterId, CreateTables, Migrate, Install,
         Probe, Restart, Lose, Regain, vars
  <1>2. StartInv /\ [Next]_vars => [Safe]_vars
    BY <1>1
  <1> HIDE DEF Safe
  <1>3. Spec => [][Safe]_vars
    BY <1>2, StartInvariance, PTL DEF Spec
  <1> QED
    BY <1>3 DEF Safe, OwnBudget


-----------------------------------------------------------------------------
(* A start goes forward *)

\* One round of pings of the current host.
LEMMA PingNearer ==
  ASSUME StartInv, place \in {"pingPrimary", "pingReplicas"}, NEW host,
         next <= Len(env.replicas), pingWithRetry(host, "pingReplicas")
  PROVE  Nearer
  <1>0. attempt \in Nat /\ attempt < maxRetries /\ maxRetries \in Nat
    BY EnvType DEF StartInv, PingsOwn, TypeOK
  <1>1. CASE host \in up
    <2>1. place' = "pingReplicas" /\ next' = next + 1
      BY <1>1 DEF pingWithRetry
    <2> QED
      BY <2>1 DEF Nearer, Rank
  <1>2. CASE host \notin up
    <2>1. /\ next' = next /\ attempt' = attempt + 1
          /\ place' = IF attempt' = maxRetries THEN "exited" ELSE place
      BY <1>2 DEF pingWithRetry
    <2>2. CASE attempt' = maxRetries
      BY <2>1, <2>2 DEF Nearer, Rank
    <2>3. CASE attempt' # maxRetries
      <3>1. attempt' < maxRetries /\ place' = place
        BY <1>0, <2>1, <2>3
      <3> QED
        BY <2>1, <3>1 DEF Nearer
    <2> QED
      BY <2>2, <2>3
  <1> QED
    BY <1>1, <1>2

LEMMA StartNearer ==
  ASSUME StartInv, Start
  PROVE  Nearer
  <1>1. CASE Configure \/ GetClusterId \/ Migrate \/ Install
    BY <1>1 DEF Configure, GetClusterId, Migrate, Install, Exit, GoTo, Nearer, Rank
  <1>2. CASE PingPrimary
    <2>1. next = 0 /\ Len(env.replicas) \in Nat
      BY <1>2, EnvType DEF PingPrimary, StartInv, PingsOwn
    <2>2. place = "pingPrimary" /\ pingWithRetry(Primary, "pingReplicas")
          /\ next <= Len(env.replicas)
      BY <1>2, <2>1 DEF PingPrimary
    <2> QED
      BY <2>2, PingNearer
  <1>3. CASE PingReplica
    <2>0. place = "pingReplicas" /\ next \in Nat /\ Len(env.replicas) \in Nat
      BY <1>3, EnvType DEF PingReplica, StartInv, TypeOK
    <2>1. CASE next > Len(env.replicas)
      BY <1>3, <2>0, <2>1 DEF PingReplica, GoTo, Nearer, Rank
    <2>2. CASE next <= Len(env.replicas) /\ env.replicas[next] # NoHost
      <3>1. pingWithRetry(env.replicas[next], "pingReplicas")
        BY <1>3, <2>0, <2>2 DEF PingReplica
      <3> QED
        BY <2>0, <2>2, <3>1, PingNearer
    <2>3. CASE next <= Len(env.replicas) /\ env.replicas[next] = NoHost
      BY <1>3, <2>0, <2>3 DEF PingReplica, Nearer
    <2> QED
      BY <2>0, <2>1, <2>2, <2>3
  <1>4. CASE CreateTables
    <2>0. place = "tables"
      BY <1>4 DEF CreateTables
    <2>1. CASE Exit \/ GoTo("migrate")
      BY <2>0, <2>1 DEF Exit, GoTo, Nearer, Rank
    <2>2. ASSUME NEW s \in AllTables \ tables, tables' = tables \cup {s},
                 UNCHANGED <<place, attempt, next>>
          PROVE  Nearer
      BY <2>2 DEF Nearer
    <2> QED
      BY <1>4, <2>1, <2>2 DEF CreateTables
  <1> QED
    BY <1>1, <1>2, <1>3, <1>4 DEF Start

\* For any list of replica hosts, any number of retries and any outages, every
\* step of a start uses up something of which there is only so much.
THEOREM ForwardOnly == Spec => StartsGoForward
  <1> DEFINE Ahead == /\ Start => Nearer
                      /\ ~Start => Restart \/ UNCHANGED <<env, place, next, attempt, tables>>
  <1>1. StartInv /\ [Next]_vars => [Ahead]_vars
    <2> SUFFICES ASSUME StartInv, Next PROVE Ahead
      OBVIOUS
    <2>1. CASE Start
      BY <2>1, StartNearer
    <2>2. CASE ~Start
      BY <2>2 DEF Next, Probe, Lose, Regain
    <2> QED
      BY <2>1, <2>2
  <1> HIDE DEF Ahead
  <1>2. Spec => [][Ahead]_vars
    BY <1>1, StartInvariance, PTL DEF Spec
  <1> QED
    BY <1>2 DEF Ahead, StartsGoForward

=============================================================================
