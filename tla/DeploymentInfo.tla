---------------------------- MODULE DeploymentInfo ----------------------------
(***************************************************************************)
(* internal/deployments/model.go: which answers of getdeploymentinfo are   *)
(* accepted, and the rows they become.  An answer is a record of the       *)
(* members Core writes; a member that is missing or null is Null.          *)
(***************************************************************************)
EXTENDS Integers

CONSTANTS
  DeploymentName,   \* the names validateDeploymentName accepts
  Null

validBIP9Statuses == {"defined", "started", "locked_in", "active", "failed"}

ASSUME NullAssumption == Null \notin {"buried", "bip9"} \cup validBIP9Statuses

\* The members of RawDeployment, RawBIP9Deployment and RawBIP9Statistics.
Number == Int \cup {Null}
RawStatistics == [period : Number, elapsed : Number, count : Number, threshold : Number]
RawBIP9 == [ status : STRING, status_next : STRING, since : Number, bit : Number,
             start_time : Number, timeout : Number, min_activation_height : Number,
             statistics : RawStatistics \cup {Null},
             signalling : (SUBSET STRING) \cup {Null} ]
RawDeployment == [ type : STRING, active : BOOLEAN \cup {Null}, height : Number,
                   bip9 : RawBIP9 \cup {Null} ]
IsAnswer(info, names) ==
  /\ info \in [hash : {info.hash}, height : Nat, deployments : {info.deployments}]
  /\ info.deployments \in [names -> RawDeployment]

Required(v, S) == v # Null /\ v \in S
Optional(v, S) == v = Null \/ v \in S

\* bip9.statistics: threshold is left out once a deployment is locked in.
StatisticsSound(s) ==
  \/ s = Null
  \/ /\ Required(s.period, Nat) /\ Required(s.elapsed, Nat) /\ Required(s.count, Nat)
     /\ s.period > 0 /\ s.elapsed <= s.period /\ s.count <= s.elapsed
     /\ Optional(s.threshold, 1 .. s.period)

\* Wrong: a height that is missing is taken for zero.
SinceOrZero(since) == since = Null \/ since \in Nat

\* Wrong: a height that is there is taken as it is.
SincePresent(since) == since # Null

SinceSound(since) == Required(since, Nat)

\* decodeBIP9Deployment: start_time and timeout may be any number, -1 and -2
\* among them.  A signalling text holds nothing but '#' and '-'.
BIP9Sound(d) ==
  LET b == d.bip9
  IN  /\ b # Null
      /\ b.status \in validBIP9Statuses /\ b.status_next \in validBIP9Statuses
      /\ Required(b.start_time, Int) /\ Required(b.timeout, Int)
      /\ Required(b.min_activation_height, Nat) /\ SinceSound(b.since)
      /\ Optional(b.bit, 0 .. 28) /\ Optional(d.height, Nat)
      /\ StatisticsSound(b.statistics)
      /\ b.signalling = Null \/ b.signalling \subseteq {"#", "-"}

DeploymentSound(d) ==
  /\ d.active # Null
  /\ \/ d.type = "buried" /\ Required(d.height, Nat)
     \/ d.type = "bip9" /\ BIP9Sound(d)

\* DecodeDeploymentInfo: the answer as a whole is refused for any of its parts.
InfoSound(info) ==
  /\ info.hash # Null /\ Required(info.height, Nat)
  /\ info.deployments # Null
  /\ DOMAIN info.deployments \subseteq DeploymentName
  /\ \A n \in DOMAIN info.deployments : DeploymentSound(info.deployments[n])

\* The rows of chain_deployments: buried deployments are dropped.
DeploymentRow == [name : DeploymentName, status : validBIP9Statuses, since : Nat]
BIP9Names(info) == {n \in DOMAIN info.deployments : info.deployments[n].type = "bip9"}
SinceHeight(b) == IF b.since = Null THEN 0 ELSE b.since
Rows(info) ==
  {[name |-> n, status |-> info.deployments[n].bip9.status,
    since |-> SinceHeight(info.deployments[n].bip9)] : n \in BIP9Names(info)}

-----------------------------------------------------------------------------
(* Damage on the way from Core: one member is lost, or has a value no      *)
(* deployment can have.  The loss of a whole entry of deployments is kept  *)
(* apart (Shortened): the code has no list of the entries Core must name,  *)
(* so it accepts what is left and finds one row less.                      *)
Without(r, members) == {[r EXCEPT ![m] = Null] : m \in members}

GarbledStatistics(s) ==
  Without(s, {"period", "elapsed", "count", "threshold"})
    \cup {[s EXCEPT !.period = 0], [s EXCEPT !.elapsed = s.period + 1],
          [s EXCEPT !.count = s.elapsed + 1], [s EXCEPT !.threshold = s.period + 1]}
GarbledBIP9(b) ==
  Without(b, DOMAIN b)
    \cup {[b EXCEPT !.since = -1], [b EXCEPT !.bit = 29], [b EXCEPT !.status = "none"],
          [b EXCEPT !.min_activation_height = -1], [b EXCEPT !.signalling = {"#", "?"}]}
    \cup IF b.statistics = Null THEN {}
         ELSE {[b EXCEPT !.statistics = s] : s \in GarbledStatistics(b.statistics)}
GarbledDeployment(d) ==
  Without(d, {"type", "active", "height", "bip9"})
    \cup {[d EXCEPT !.type = "none"], [d EXCEPT !.height = -1]}
    \cup IF d.bip9 = Null THEN {} ELSE {[d EXCEPT !.bip9 = b] : b \in GarbledBIP9(d.bip9)}
Garbled(info) ==
  Without(info, {"hash", "height", "deployments"})
    \cup {[info EXCEPT !.height = -1], [info EXCEPT !.height = info.height + 1]}
    \cup UNION {{[info EXCEPT !.deployments[n] = d] : d \in GarbledDeployment(info.deployments[n])} :
                n \in DOMAIN info.deployments}
Shortened(info) ==
  {[info EXCEPT !.deployments = [k \in DOMAIN @ \ {n} |-> @[k]]] : n \in DOMAIN info.deployments}
=============================================================================
