----------------------------- MODULE MCPrograms -----------------------------
(***************************************************************************)
(* The thread pool and the parts of a program around its servers: token cache, *)
(* start of the services, web log; one behaviour each.                     *)
(***************************************************************************)
EXTENDS ThreadPool, JWT, ServiceStart, WebLog, TLC

VARIABLE component     \* the component this behaviour is about

CONSTANTS y1, k1, k2, v1, v2

MCPayloadSize == [p \in {y1} |-> 2]
MCSvListener(port, tls) == [port |-> port, tls |-> tls, keys |-> TRUE]
MCSvConf(listeners, policy, alg, sync) ==
  [listeners |-> listeners, tls |-> policy, resources |-> "ok", jwt |-> TRUE, sync |-> sync,
   vars |-> TRUE, alg |-> alg, create |-> TRUE, dirs |-> {},
   proxies |-> {}, redirections |-> {}]
MCSvHS(port) == MCSvConf(<<MCSvListener(port, FALSE)>>, "any", "HS", FALSE)
MCSvRS(port) == MCSvConf(<<MCSvListener(port, TRUE)>>, "mandatory", "RS", FALSE)
MCSvPair(a, b) == [p \in {"p", "q"} |-> IF p = "p" THEN a ELSE b]
MCSvPlans ==
  {MCSvPair(MCSvHS(1), MCSvHS(2)),
   MCSvPair(MCSvRS(1), MCSvConf(<<MCSvListener(2, FALSE)>>, "any", "RS", FALSE)),
   MCSvPair(MCSvConf(<<MCSvListener(1, FALSE)>>, "any", "ES", FALSE),
            MCSvConf(<<MCSvListener(1, FALSE), MCSvListener(2, FALSE)>>, "no", "RS", TRUE)),
   MCSvPair([MCSvHS(1) EXCEPT !.create = FALSE, !.redirections = {"r"}, !.dirs = {"", "d"}],
            MCSvConf(<<MCSvListener(1, FALSE), MCSvListener(2, TRUE)>>, "no", "RS", FALSE)),
   MCSvPair([MCSvRS(1) EXCEPT !.create = FALSE, !.proxies = {[path |-> "x", good |-> TRUE]}],
            [MCSvRS(2) EXCEPT !.jwt = FALSE, !.proxies = {[path |-> "x", good |-> FALSE]}]),
   MCSvPair([MCSvHS(1) EXCEPT !.sync = TRUE, !.vars = FALSE],
            [MCSvHS(2) EXCEPT !.resources = "missing"]),
   MCSvPair(MCSvConf(<<>>, "any", "HS", FALSE), MCSvHS(2))}
MCWlConfig(threaded, schedule, backups, maxFile) ==
  [threaded |-> threaded, onSize |-> TRUE, onSchedule |-> schedule, atStart |-> schedule,
   maxFile |-> maxFile, backups |-> backups, queue |-> 1]
MCWlConfigs == {MCWlConfig(TRUE, TRUE, 2, 1), MCWlConfig(TRUE, FALSE, 3, 1), MCWlConfig(TRUE, TRUE, 0, 2),
                MCWlConfig(FALSE, FALSE, 2, 1), MCWlConfig(FALSE, FALSE, 3, 0)}

allVars == <<component, vars, jwtVars, svVars, wlVars>>

Components == {"pool", "jwt", "start", "log"}

MCInit ==
  /\ component \in Components
  /\ Init /\ JWTInit /\ SvInit /\ WlInit

\* The steps of one component leave the state of the others alone.
MCNext ==
  \/ component = "pool" /\ Next
       /\ UNCHANGED <<component, jwtVars, svVars, wlVars>>
  \/ component = "jwt" /\ JWTNext
       /\ UNCHANGED <<component, vars, svVars, wlVars>>
  \/ component = "start" /\ SvNext
       /\ UNCHANGED <<component, vars, jwtVars, wlVars>>
  \/ component = "log" /\ WlNext
       /\ UNCHANGED <<component, vars, jwtVars, svVars>>

MCSpec == MCInit /\ [][MCNext]_allVars

\* Workers, tasks and queues of the pool are interchangeable; pushers differ by timeout.
Symmetry == Permutations(Workers) \cup Permutations(Tasks) \cup Permutations(Queues)
=============================================================================
