--------------------------- MODULE ServiceRegistry ---------------------------
(***************************************************************************)
(* service/*.go: the services that the packages of a program register      *)
(* while they are initialised, their configuration by InitAllService, and  *)
(* their registration with the servers that serve them.                    *)
(*                                                                         *)
(* There is a map for each kind of service.  A service's Config is not     *)
(* under src/; as the templates of the generator have it, it gets other    *)
(* services by their names and may fail.                                   *)
(***************************************************************************)
EXTENDS Naturals, Sequences

CONSTANTS
  Packages, \* what may be registered: [kind, name, from], from the package
  Needs     \* Needs[s]: the keys [kind, name] that Config of s gets

VARIABLES
  maps,       \* the services in the five maps
  phase,      \* of the program: "packages", "configuring", "serving", "ended"
  turn,       \* the loop of InitAllService that runs, by number
  configured, \* the services whose Config has returned nil
  gets,       \* history: who got whom in Config, and whether it was configured
  served      \* the services registered with a server

registryVars == <<maps, phase, turn, configured, gets, served>>

\* Seeded fault: the loop over ginServices moved up.
Kinds_GinFirst == <<"internal", "gin", "grpc", "restful", "http">>

\* The loops of InitAllService, one for each map.
Kinds == <<"internal", "grpc", "restful", "http", "gin">>

Key(s) == [kind |-> s.kind, name |-> s.name]

Registered == {Key(s) : s \in maps}

Init ==
  /\ maps = {} /\ configured = {} /\ gets = {} /\ served = {}
  /\ phase = "packages" /\ turn = 1

\* RegistryXService; a second service of the kind and name panics.
Registry(s) ==
  /\ phase = "packages" /\ s \notin maps
  /\ IF Key(s) \in Registered
     THEN phase' = "ended" /\ UNCHANGED maps
     ELSE maps' = maps \cup {s} /\ UNCHANGED phase
  /\ UNCHANGED <<turn, configured, gets, served>>

\* InitAllService is called: once, when all packages are initialised.
InitAllService ==
  /\ phase = "packages"
  /\ phase' = "configuring"
  /\ UNCHANGED <<maps, turn, configured, gets, served>>

\* The services that are left of the loop that runs.
Left == {s \in maps \ configured : turn <= Len(Kinds) /\ s.kind = Kinds[turn]}

\* Whether the loop may come to s next: the order of a map is random.
Turn(s) == phase = "configuring" /\ s \in Left

\* Config of s fails, or GetXService panics for a name that is not there.
ConfigFails(s) ==
  /\ Turn(s)
  /\ phase' = "ended"
  /\ UNCHANGED <<maps, turn, configured, gets, served>>

\* Config of s returns nil, which it only does with the services it gets.
Config(s) ==
  /\ Turn(s) /\ Needs[s] \subseteq Registered
  /\ configured' = configured \cup {s}
  /\ gets' = gets \cup {[by |-> s, of |-> r, ready |-> r \in configured] :
                         r \in {r \in maps : Key(r) \in Needs[s]}}
  /\ UNCHANGED <<maps, phase, turn, served>>

\* A loop ends and the next begins.
NextKind ==
  /\ phase = "configuring" /\ turn <= Len(Kinds) /\ Left = {}
  /\ turn' = turn + 1
  /\ UNCHANGED <<maps, phase, configured, gets, served>>

\* InitAllService returns nil, and the program starts its servers.
InitDone ==
  /\ phase = "configuring" /\ turn > Len(Kinds)
  /\ phase' = "serving"
  /\ UNCHANGED <<maps, turn, configured, gets, served>>

\* A turn of the loop of LoadXService: s is registered with its server,
\* under the path of its kind.  Internal services have none.
Load(s) ==
  /\ phase = "serving" /\ s \in maps \ served /\ s.kind # "internal"
  /\ served' = served \cup {s}
  /\ UNCHANGED <<maps, phase, turn, configured, gets>>

Next ==
  \/ \E s \in Packages : Registry(s)
  \/ InitAllService
  \/ \E s \in Packages : ConfigFails(s)
  \/ \E s \in Packages : Config(s)
  \/ NextKind
  \/ InitDone
  \/ \E s \in Packages : Load(s)

Spec == Init /\ [][Next]_registryVars

-----------------------------------------------------------------------------
(* Properties *)

\* A Config finds configured what it gets from the kinds that the program
\* relies on to come first: internal services ("优先初始化内部app",
\* all.go:5), and for what serves HTTP the grpc services, which the handlers
\* of the templates get (http.go.tpl:24).  Within a kind the order is random
\* and a Config may get what is not configured yet; but once requests reach
\* a service, it is configured and so is all that it got.
GetsConfigured ==
  /\ \A g \in gets :
       \/ g.of.kind = "internal" /\ g.by.kind # "internal"
       \/ g.of.kind = "grpc" /\ g.by.kind \in {"restful", "http", "gin"}
       => g.ready
  /\ \A s \in served :
       s \in configured /\ \A g \in gets : g.by = s => g.of \in configured
=============================================================================
