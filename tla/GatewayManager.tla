--------------------------- MODULE GatewayManager ----------------------------
(***************************************************************************)
(* The GatewayManager singleton and the data it works on (ACDCallNum.cpp), *)
(* the four handlers of TSessionLua that use it (SiaSession.cpp) and the   *)
(* start of the process that fills Redis from MySQL (acdd.cpp).            *)
(*                                                                         *)
(* Redis keeps two kinds of values: the tables that lead from a caller to  *)
(* its gateways, and key_sip_gateway, one JSON array with the number of    *)
(* current calls of every gateway.  Every session thread calls the one     *)
(* GatewayManager object, whose members hold a copy of both and the result *)
(* of the last lookup.  Its MyMutex is a local variable with a mutex of    *)
(* its own, so nothing keeps two threads apart: each Redis command, and    *)
(* each visit of a loop to a table or to an entry of an array, is one      *)
(* action.  (The fields of one entry are written together; the code can    *)
(* mix those as well.)                                                     *)
(*                                                                         *)
(* The tables are reduced to RouteOf, what the join of the three tables    *)
(* yields for a caller; they are stored whole or not at all.  Session      *)
(* threads that have replied are reused for the requests of new sessions.  *)
(***************************************************************************)
EXTENDS Sequences, Integers

CONSTANTS Session,      \* the session threads
          Main,         \* the thread that runs main()
          GatewayId,    \* the ids of the gateways in MySQL
          Caller,       \* the callers that may be asked for
          NoCaller,     \* the empty caller
          RouteOf,      \* the gateways of a caller, in the order of its numbers
          MaxSessions,  \* maxsessions of each gateway
          DbSessions,   \* the currentsessions column in MySQL
          StartCaller, StartGateway,   \* what main() itself asks for
          Request,      \* the requests that may come
          NumRequests, NumFailures, NumCrashes     \* bounds

Worker == Session \cup {Main}

(* The states of a value in Redis or in a member besides being an array of *)
(* records: never stored, the JSON null of a failed query, cleared.        *)
CONSTANTS NotStored, JsonNull, EmptyArray

Counts == [GatewayId -> Int]
NoRoute == <<>>

ASSUME GatewayAssumption ==
  /\ Main \notin Session
  /\ NoCaller \in Caller
  /\ StartCaller \in Caller
  /\ RouteOf \in [Caller -> Seq(GatewayId)]
  /\ RouteOf[NoCaller] = <<>>
  /\ MaxSessions \in [GatewayId -> Int]
  /\ DbSessions \in Counts
  /\ Request \subseteq [kind : {"route", "routeEx", "used", "end"},
                        caller : Caller, callee : Caller, id : Int]
  /\ StartGateway \in Int
  /\ NumRequests \in Nat /\ NumFailures \in Nat /\ NumCrashes \in Nat
  /\ NotStored \notin Counts /\ JsonNull \notin Counts /\ EmptyArray \notin Counts
  /\ NotStored # JsonNull /\ NotStored # EmptyArray /\ JsonNull # EmptyArray
  /\ "tables" \notin {NotStored, JsonNull, EmptyArray}

VARIABLES
  redisTables,    \* the three table keys: NotStored, JsonNull or "tables"
  redisGateway,   \* key_sip_gateway
  json_tables,    \* the three table members
  json_gateway,   \* the gateway member
  json,           \* the member with the result of the last lookup
  configured,     \* set_sql_config has been called
  pc, op,         \* what each thread is at, and the request it handles
  leg,            \* which of acdRouteEx's two lookups
  json_tmp,       \* update_current_sessions_by_route_id's copy of the array
  found,          \* the gateways of the caller's numbers found so far
  place, size,    \* a loop's index, and the end it goes to or its ret_idx
  result,         \* the lookup results a handler has got, one per leg
  edits,          \* places in json whose rules changed the callee, per leg
  requests, failures, crashes,     \* how many of each there have been
  incs, decs,     \* history: updates computed so far, per gateway
  net,            \* history: updates stored since the array was loaded
  raced,          \* history: an array was stored over one being updated
  seen,           \* history: the array each thread has itself read
  touched         \* history: another thread came between since Clear, or a
                  \* command failed

redis    == <<redisTables, redisGateway>>
members  == <<json_tables, json_gateway, json>>
loops    == <<found, place, size>>
locals   == <<op, leg, json_tmp, loops, result, edits>>
bounds   == <<requests, failures, crashes>>
counting == <<incs, decs, net, raced>>
reading  == <<seen, touched>>
vars == <<redis, members, configured, pc, locals, bounds, counting, reading>>

Startup == [kind |-> "startup", caller |-> StartCaller, callee |-> StartCaller,
            id |-> StartGateway]

Init ==
  /\ redisTables = NotStored /\ redisGateway = NotStored
  /\ json_tables = JsonNull /\ json_gateway = JsonNull /\ json = NoRoute
  /\ configured = FALSE
  /\ pc = [w \in Worker |-> IF w = Main THEN "save" ELSE "idle"]
  /\ op = [w \in Worker |-> Startup]
  /\ leg = [w \in Worker |-> 1]
  /\ json_tmp = [w \in Worker |-> JsonNull]
  /\ found = [w \in Worker |-> <<>>]
  /\ place = [w \in Worker |-> 0] /\ size = [w \in Worker |-> 0]
  /\ result = [w \in Worker |-> <<>>]
  /\ edits = [w \in Worker |-> <<>>]
  /\ requests = 0 /\ failures = 0 /\ crashes = 0
  /\ incs = [g \in GatewayId |-> 0] /\ decs = [g \in GatewayId |-> 0]
  /\ net = [g \in GatewayId |-> 0]
  /\ raced = FALSE
  /\ seen = [w \in Worker |-> JsonNull]
  /\ touched = [w \in Worker |-> FALSE]

Goto(w, label) == pc' = [pc EXCEPT ![w] = label]

(* Thread w has changed the members under everybody else's feet. *)
Disturb(w) == touched' = [v \in Worker |-> touched[v] \/ v # w]

(* A query of MySQL or a command to Redis fails. *)
Fail ==
  /\ failures < NumFailures
  /\ failures' = failures + 1
  /\ UNCHANGED <<requests, crashes>>
-----------------------------------------------------------------------------
(* main(): load_data_from_mysql and save_data_2_redis.  A query that fails *)
(* yields the JSON null, which is stored as it is; without Redis nothing   *)
(* is stored.  A SET may also be rejected (a blank in a text splits it     *)
(* into more arguments than it takes), and nobody looks at the answer.     *)
(* Nobody else can be updating: until set_sql_config has been called every *)
(* other thread dies of its first Redis command.                           *)
SaveTables ==
  /\ pc[Main] = "save"
  /\ \/ redisTables' = "tables" /\ UNCHANGED bounds
     \/ redisTables' \in {JsonNull, redisTables} /\ Fail
  /\ Goto(Main, "saveGateway")
  /\ UNCHANGED <<redisGateway, members, configured, locals, counting, reading>>

Updating(w) == pc[w] = "set"

SaveGateway ==
  /\ pc[Main] = "saveGateway"
  /\ \/ redisGateway' = DbSessions /\ UNCHANGED bounds
     \/ redisGateway' = JsonNull /\ Fail
  /\ net' = [g \in GatewayId |-> 0]
  /\ raced' = \E w \in Worker : Updating(w)
  /\ Goto(Main, "configure")
  /\ UNCHANGED <<redisTables, members, configured, locals, incs, decs, reading>>

(* Redis rejects the array's command; what is stored stays. *)
SaveGatewayRejected ==
  /\ pc[Main] = "saveGateway"
  /\ Goto(Main, "configure")
  /\ Fail
  /\ UNCHANGED <<redis, members, configured, locals, counting, reading>>

SaveFails ==
  /\ pc[Main] = "save"
  /\ Goto(Main, "configure")
  /\ Fail
  /\ UNCHANGED <<redis, members, configured, locals, counting, reading>>

SetSqlConfig ==
  /\ pc[Main] = "configure"
  /\ configured' = TRUE
  /\ Goto(Main, "clear")
  /\ UNCHANGED <<redis, members, locals, bounds, counting, reading>>
-----------------------------------------------------------------------------
(* A session's thread takes a request: acd_request_route and acd_request_  *)
(* route_ex look up, acd_route_used and acd_route_end count.               *)
Begin(w, r) ==
  /\ w \in Session /\ pc[w] = "idle"
  /\ requests < NumRequests
  /\ requests' = requests + 1
  /\ op' = [op EXCEPT ![w] = r]
  /\ leg' = [leg EXCEPT ![w] = 1]
  /\ result' = [result EXCEPT ![w] = <<>>]
  /\ edits' = [edits EXCEPT ![w] = <<>>]
  /\ Goto(w, "clear")
  /\ UNCHANGED <<redis, members, configured, json_tmp, loops, failures, crashes,
                 counting, reading>>

(* get_data_from_redis: clear() leaves a null null and empties an array;   *)
(* then the thread connects to Redis, which takes the path of the          *)
(* configuration (Restart is what happens to it without one).              *)
Cleared(v) == IF v = JsonNull THEN JsonNull ELSE EmptyArray

Clear(w) ==
  /\ pc[w] = "clear" /\ configured
  /\ json_tables' = Cleared(json_tables)
  /\ json_gateway' = Cleared(json_gateway)
  /\ touched' = [v \in Worker |-> v # w]
  /\ Goto(w, "loadTables")
  /\ UNCHANGED <<redis, json, configured, locals, bounds, counting, seen>>

(* A key that is not stored leaves the member as it is, and so does a      *)
(* command that fails or that Redis rejects.                               *)
Loaded(key, member) == IF key = NotStored THEN member ELSE key

LoadTables(w) ==
  /\ pc[w] = "loadTables"
  /\ \/ /\ json_tables' = Loaded(redisTables, json_tables)
        /\ Disturb(w) /\ UNCHANGED bounds
     \/ /\ UNCHANGED json_tables
        /\ touched' = [touched EXCEPT ![w] = TRUE] /\ Fail
  /\ Goto(w, "loadGateway")
  /\ UNCHANGED <<redis, json_gateway, json, configured, locals, counting, seen>>

LoadGateway(w) ==
  /\ pc[w] = "loadGateway"
  /\ \/ /\ json_gateway' = Loaded(redisGateway, json_gateway)
        /\ seen' = [seen EXCEPT ![w] = redisGateway]
        /\ Disturb(w) /\ UNCHANGED bounds
     \/ /\ UNCHANGED <<json_gateway, seen>>
        /\ touched' = [touched EXCEPT ![w] = TRUE] /\ Fail
  /\ Goto(w, IF op[w].kind \in {"used", "end"} THEN "get" ELSE "lookup")
  /\ UNCHANGED <<redis, json_tables, json, configured, locals, counting>>
-----------------------------------------------------------------------------
(* The caller a lookup is for: acdRouteEx swaps the two numbers for its    *)
(* second leg.                                                             *)
Asked(w) == IF leg[w] = 1 THEN op[w].caller ELSE op[w].callee

(* What a lookup is to find: the gateways of the caller's numbers, with    *)
(* their counts.  An array without elements joins with nothing.            *)
Join(tables, gateway, caller) ==
  IF tables = "tables" /\ gateway \in Counts
  THEN [i \in DOMAIN RouteOf[caller] |->
          [route_id |-> RouteOf[caller][i],
           currentsessions |-> gateway[RouteOf[caller][i]]]]
  ELSE NoRoute

(* get_route_by_caller: without arrays, or without a caller, it returns    *)
(* early and json keeps what the last lookup left in it.                   *)
LookupReturnsEarly(w) ==
  \/ json_tables = JsonNull \/ json_gateway = JsonNull
  \/ Asked(w) = NoCaller

(* It takes the sizes of the arrays and goes through them. *)
AfterSizes(w) ==
  IF json_tables = "tables" /\ json_gateway \in Counts /\ RouteOf[Asked(w)] # <<>>
  THEN "numbers" ELSE "edit"

(* Mutant: the result of the last lookup is not cleared first. *)
LookupKeepsLast(w) ==
  /\ pc[w] = "lookup"
  /\ UNCHANGED <<json, touched>>
  /\ Goto(w, IF LookupReturnsEarly(w) THEN "edit" ELSE AfterSizes(w))
  /\ UNCHANGED <<redis, json_tables, json_gateway, configured, locals, bounds,
                 counting, seen>>

Lookup(w) ==
  /\ pc[w] = "lookup"
  /\ IF LookupReturnsEarly(w)
     THEN UNCHANGED <<json, touched>> /\ Goto(w, "edit")
     ELSE json' = NoRoute /\ Disturb(w) /\ Goto(w, AfterSizes(w))
  /\ UNCHANGED <<redis, json_tables, json_gateway, configured, locals, bounds,
                 counting, seen>>

(* operator[] makes an array of a null, and lengthens one that is shorter. *)
Indexed(v) == IF v = JsonNull THEN EmptyArray ELSE v

Placed(entries, i, entry) ==
  [k \in 1..(IF i > Len(entries) THEN i ELSE Len(entries)) |->
     IF k = i THEN entry ELSE IF k <= Len(entries) THEN entries[k] ELSE JsonNull]

(* One number of the caller after the other, as long as nobody clears the  *)
(* tables.                                                                 *)
FindNumber(w) ==
  LET route   == RouteOf[Asked(w)]
      k       == place[w] + 1
      numbers == IF json_tables = "tables" THEN Append(found[w], route[k])
                                           ELSE found[w] IN
  /\ pc[w] = "numbers" /\ place[w] < Len(route)
  /\ found' = [found EXCEPT ![w] = numbers]
  /\ place' = [place EXCEPT ![w] = IF k < Len(route) THEN k ELSE 0]
  /\ Goto(w, IF k < Len(route) THEN "numbers"
             ELSE IF numbers = <<>> THEN "edit" ELSE "gateways")
  /\ json_tables' = Indexed(json_tables)
  /\ Disturb(w)
  /\ UNCHANGED <<redis, json_gateway, json, configured, op, leg, json_tmp, size,
                 result, edits, bounds, counting, seen>>

(* One gateway of these numbers after the other: what is found of it goes  *)
(* to json at ret_idx, whatever others have made of json meanwhile.        *)
AddGateway(w) ==
  LET k    == place[w] + 1
      g    == found[w][k]
      last == k = Len(found[w]) IN
  /\ pc[w] = "gateways" /\ place[w] < Len(found[w])
  /\ IF json_gateway \in Counts
     THEN json' = Placed(json, size[w] + 1,
                         [route_id |-> g, currentsessions |-> json_gateway[g]])
     ELSE UNCHANGED json
  /\ json_gateway' = Indexed(json_gateway)
  /\ size' = [size EXCEPT ![w] = IF last THEN 0
                                ELSE IF json_gateway \in Counts THEN @ + 1 ELSE @]
  /\ place' = [place EXCEPT ![w] = IF last THEN 0 ELSE k]
  /\ found' = [found EXCEPT ![w] = IF last THEN <<>> ELSE @]
  /\ Goto(w, IF last THEN "edit" ELSE "gateways")
  /\ Disturb(w)
  /\ UNCHANGED <<redis, json_tables, configured, op, leg, json_tmp, result, edits,
                 bounds, counting, seen>>

HasCapacity(entry) ==
  entry # JsonNull /\ entry.currentsessions < MaxSessions[entry.route_id]

(* get_modified_callee_by_callee applies the rules of every gateway in     *)
(* json that has capacity left, in the order of their places in json.      *)
WithCapacity(entries) == {i \in DOMAIN entries : HasCapacity(entries[i])}

AfterEdit(w) == IF op[w].kind = "startup" THEN "get" ELSE "result"

(* It takes the size of json ... *)
Edit(w) ==
  /\ pc[w] = "edit"
  /\ edits' = [edits EXCEPT ![w] = Append(@, {})]
  /\ size' = [size EXCEPT ![w] = Len(json)]
  /\ Goto(w, IF json = <<>> THEN AfterEdit(w) ELSE "editing")
  /\ UNCHANGED <<redis, members, configured, op, leg, json_tmp, found, place, result,
                 bounds, counting, reading>>

(* ... and looks at one entry after the other, making those that are gone. *)
EditEntry(w) ==
  LET i    == place[w] + 1
      last == i = size[w] IN
  /\ pc[w] = "editing" /\ place[w] < size[w]
  /\ edits' = [edits EXCEPT ![w][leg[w]] = @ \cup ({i} \cap WithCapacity(json))]
  /\ IF i <= Len(json) THEN UNCHANGED <<json, touched>>
     ELSE json' = Placed(json, i, JsonNull) /\ Disturb(w)
  /\ place' = [place EXCEPT ![w] = IF last THEN 0 ELSE i]
  /\ size' = [size EXCEPT ![w] = IF last THEN 0 ELSE @]
  /\ Goto(w, IF last THEN AfterEdit(w) ELSE "editing")
  /\ UNCHANGED <<redis, json_tables, json_gateway, configured, op, leg, json_tmp,
                 found, result, bounds, counting, seen>>

(* Mutant: acdRouteEx does not stop after its second leg. *)
GetResultLoops(w) ==
  /\ pc[w] = "result"
  /\ result' = [result EXCEPT ![w] = Append(@, json)]
  /\ IF op[w].kind = "routeEx"
     THEN leg' = [leg EXCEPT ![w] = @ + 1] /\ Goto(w, "lookup")
     ELSE UNCHANGED leg /\ Goto(w, "reply")
  /\ UNCHANGED <<redis, members, configured, op, json_tmp, loops, edits, bounds,
                 counting, reading>>

(* get_result copies json as it is by now; acdRouteEx does it all twice. *)
GetResult(w) ==
  /\ pc[w] = "result"
  /\ result' = [result EXCEPT ![w] = Append(@, json)]
  /\ IF op[w].kind = "routeEx" /\ leg[w] = 1
     THEN leg' = [leg EXCEPT ![w] = 2] /\ Goto(w, "lookup")
     ELSE UNCHANGED leg /\ Goto(w, "reply")
  /\ UNCHANGED <<redis, members, configured, op, json_tmp, loops, edits, bounds,
                 counting, reading>>
-----------------------------------------------------------------------------
(* Mutant: every entry is changed, the test of the id is missing. *)
UpdatesAll(counts, id, i) ==
  IF counts \in Counts /\ id \in GatewayId
  THEN [g \in GatewayId |-> counts[g] + i] ELSE counts

(* update_current_sessions_by_route_id, first half: get key_sip_gateway    *)
(* and change the entry with the id, if there is one.                      *)
Increment(w) == IF op[w].kind = "end" THEN -1 ELSE 1

Updated(counts, id, i) ==
  IF counts \in Counts /\ id \in GatewayId
  THEN [counts EXCEPT ![id] = @ + i] ELSE counts

(* Mutant: the array in the member is changed, not the one in Redis. *)
GetGatewayFromMember(w) ==
  /\ pc[w] = "get" /\ redisGateway # NotStored
  /\ json_tmp' = [json_tmp EXCEPT
                    ![w] = Updated(json_gateway, op[w].id, Increment(w))]
  /\ Goto(w, "set")
  /\ UNCHANGED <<redis, members, configured, op, leg, loops, result, edits, bounds,
                 counting, reading>>

GetGateway(w) ==
  /\ pc[w] = "get" /\ redisGateway # NotStored
  /\ json_tmp' = [json_tmp EXCEPT
                    ![w] = Updated(redisGateway, op[w].id, Increment(w))]
  /\ LET hits(g) == redisGateway \in Counts /\ g = op[w].id IN
     /\ incs' = [g \in GatewayId |->
                   incs[g] + (IF hits(g) /\ Increment(w) = 1 THEN 1 ELSE 0)]
     /\ decs' = [g \in GatewayId |->
                   decs[g] + (IF hits(g) /\ Increment(w) = -1 THEN 1 ELSE 0)]
  /\ Goto(w, "set")
  /\ UNCHANGED <<redis, members, configured, op, leg, loops, result, edits, bounds,
                 net, raced, reading>>

AfterUpdate(w) == IF w = Main THEN "up" ELSE "reply"

(* The key is not there, or the command fails: nothing to update. *)
GetGatewayFails(w) ==
  /\ pc[w] = "get"
  /\ \/ redisGateway = NotStored /\ UNCHANGED bounds
     \/ redisGateway # NotStored /\ Fail
  /\ Goto(w, AfterUpdate(w))
  /\ UNCHANGED <<redis, members, configured, locals, counting, reading>>

(* Redis answers with an error, whose text is no JSON: json_tmp stays null *)
(* and is stored all the same.                                             *)
GetGatewayRejected(w) ==
  /\ pc[w] = "get"
  /\ json_tmp' = [json_tmp EXCEPT ![w] = JsonNull]
  /\ Goto(w, "set")
  /\ Fail
  /\ UNCHANGED <<redis, members, configured, op, leg, loops, result, edits, counting,
                 reading>>

(* Second half: the whole array is stored again. *)
SetGateway(w) ==
  /\ pc[w] = "set"
  /\ redisGateway' = json_tmp[w]
  /\ net' = Updated(net, op[w].id, Increment(w))
  /\ raced' = (raced \/ \E v \in Worker \ {w} : Updating(v))
  /\ Goto(w, AfterUpdate(w))
  /\ UNCHANGED <<redisTables, members, configured, locals, bounds, incs, decs,
                 reading>>

(* The command fails or is rejected: that is logged and no more. *)
SetGatewayFails(w) ==
  /\ pc[w] = "set"
  /\ Goto(w, AfterUpdate(w))
  /\ Fail
  /\ UNCHANGED <<redis, members, configured, locals, counting, reading>>

(* SendMessageToSS: the response is on its way, the session and what it    *)
(* held are gone.                                                          *)
Reply(w) ==
  /\ pc[w] = "reply"
  /\ Goto(w, "idle")
  /\ op' = [op EXCEPT ![w] = Startup]
  /\ leg' = [leg EXCEPT ![w] = 1]
  /\ json_tmp' = [json_tmp EXCEPT ![w] = JsonNull]
  /\ result' = [result EXCEPT ![w] = <<>>]
  /\ edits' = [edits EXCEPT ![w] = <<>>]
  /\ seen' = [seen EXCEPT ![w] = JsonNull]
  /\ touched' = [touched EXCEPT ![w] = FALSE]
  /\ UNCHANGED <<redis, members, configured, loops, bounds, counting>>
-----------------------------------------------------------------------------
(* The process dies and is started again.  Redis keeps its data.  One way  *)
(* to die is a Redis command before set_sql_config, or without a Redis to  *)
(* connect to: do_command uses the null context of the failed connection;  *)
(* another is a race of two threads inside jsoncpp.                        *)
Restart ==
  /\ crashes < NumCrashes
  /\ crashes' = crashes + 1
  /\ json_tables' = JsonNull /\ json_gateway' = JsonNull /\ json' = NoRoute
  /\ configured' = FALSE
  /\ pc' = [w \in Worker |-> IF w = Main THEN "save" ELSE "idle"]
  /\ op' = [w \in Worker |-> Startup]
  /\ leg' = [w \in Worker |-> 1]
  /\ json_tmp' = [w \in Worker |-> JsonNull]
  /\ found' = [w \in Worker |-> <<>>]
  /\ place' = [w \in Worker |-> 0] /\ size' = [w \in Worker |-> 0]
  /\ result' = [w \in Worker |-> <<>>] /\ edits' = [w \in Worker |-> <<>>]
  /\ seen' = [w \in Worker |-> JsonNull]
  /\ touched' = [w \in Worker |-> FALSE]
  /\ UNCHANGED <<redis, requests, failures, counting>>

(* The steps of the two functions that look up, and of the update. *)
Step(w) ==
  \/ Clear(w) \/ LoadTables(w) \/ LoadGateway(w)
  \/ Lookup(w) \/ FindNumber(w) \/ AddGateway(w)
  \/ Edit(w) \/ EditEntry(w) \/ GetResult(w)
  \/ GetGateway(w) \/ GetGatewayFails(w) \/ GetGatewayRejected(w)
  \/ SetGateway(w) \/ SetGatewayFails(w) \/ Reply(w)

Next ==
  \/ SaveTables \/ SaveGateway \/ SaveGatewayRejected \/ SaveFails
  \/ SetSqlConfig
  \/ \E w \in Session, r \in Request : Begin(w, r)
  \/ \E w \in Worker : Step(w)
  \/ Restart

Spec == Init /\ [][Next]_vars
-----------------------------------------------------------------------------
Tables == {NotStored, JsonNull, EmptyArray, "tables"}
Gateways == {NotStored, JsonNull, EmptyArray} \cup Counts
Entry == [route_id : GatewayId, currentsessions : Int] \cup {JsonNull}
Operation == [kind : {"route", "routeEx", "used", "end", "startup"},
              caller : Caller, callee : Caller, id : Int]

TypeOK ==
  /\ redisTables \in Tables /\ json_tables \in Tables
  /\ redisGateway \in Gateways /\ json_gateway \in Gateways
  /\ json \in Seq(Entry)
  /\ configured \in BOOLEAN
  /\ pc \in [Worker -> {"save", "saveGateway", "configure", "clear",
                        "loadTables", "loadGateway", "lookup", "numbers",
                        "gateways", "edit", "editing", "result", "get", "set",
                        "reply", "idle", "up"}]
  /\ op \in [Worker -> Operation]
  /\ leg \in [Worker -> {1, 2}]
  /\ json_tmp \in [Worker -> Gateways]
  /\ found \in [Worker -> Seq(GatewayId)]
  /\ place \in [Worker -> Nat] /\ size \in [Worker -> Nat]
  /\ result \in [Worker -> Seq(Seq(Entry))]
  /\ edits \in [Worker -> Seq(SUBSET Nat)]
  /\ requests \in 0..NumRequests
  /\ failures \in 0..NumFailures /\ crashes \in 0..NumCrashes
  /\ incs \in [GatewayId -> Nat] /\ decs \in [GatewayId -> Nat]
  /\ net \in [GatewayId -> Int]
  /\ raced \in BOOLEAN
  /\ seen \in [Worker -> Gateways]
  /\ touched \in [Worker -> BOOLEAN]

(* However the updates interleave, and whatever a restart interrupts, no   *)
(* count in Redis is above the column in MySQL by more than the increments *)
(* or below it by more than the decrements: an update may be lost, none is *)
(* counted twice or for another gateway.                                   *)
Within(counts) ==
  counts \in Counts =>
    \A g \in GatewayId :
      DbSessions[g] - decs[g] <= counts[g] /\ counts[g] <= DbSessions[g] + incs[g]

CountBounded == Within(redisGateway)

(* When no array was stored while another thread was between its get and   *)
(* its set, the counts are exact: what was loaded plus every update since. *)
ExactWhenSerial ==
  (~raced /\ redisGateway \in Counts) =>
    \A g \in GatewayId : redisGateway[g] = DbSessions[g] + net[g]

(* A route request nobody disturbed is answered from the caller's own      *)
(* gateways with the counts it read from Redis, for both legs of an        *)
(* acdRouteEx, and the callee was changed by those with capacity only.     *)
UndisturbedRoute ==
  \A w \in Session :
    pc[w] = "reply" /\ op[w].kind \in {"route", "routeEx"} /\ ~touched[w] =>
      \A i \in DOMAIN result[w] :
        LET caller == IF i = 1 THEN op[w].caller ELSE op[w].callee
            answer == Join(redisTables, seen[w], caller) IN
        caller # NoCaller /\ seen[w] \in Counts /\ redisTables = "tables" =>
          /\ result[w][i] = answer
          /\ edits[w][i] = WithCapacity(answer)

(* A handler that replies has an answer for each leg it was asked for, and *)
(* has edited the callee once for each, whatever other threads did.        *)
EveryLegAnswered ==
  \A w \in Session :
    pc[w] = "reply" =>
      /\ Len(result[w]) = CASE op[w].kind = "routeEx" -> 2
                            [] op[w].kind = "route"   -> 1
                            [] OTHER                  -> 0
      /\ Len(edits[w]) = Len(result[w])

(* The tables in Redis change only before set_sql_config, when no thread   *)
(* has read any of them: no lookup meets two versions of them.             *)
TablesStable ==
  [][redisTables' # redisTables =>
       /\ ~configured
       /\ \A w \in Session : pc[w] \in {"idle", "clear"}]_vars

(* "1: add, other: subtract": when no update is under way, the counts are  *)
(* what was loaded plus the updates that were made.                        *)
NoUpdateLost ==
  (redisGateway \in Counts /\ \A w \in Worker : ~Updating(w)) =>
    \A g \in GatewayId : redisGateway[g] = DbSessions[g] + net[g]

(* "query the gateways available for the caller": the gateway of the       *)
(* answer is one of the caller's.                                          *)
RouteOfCaller ==
  \A w \in Session :
    pc[w] = "reply" /\ op[w].kind = "route" =>
      \A e \in {result[w][1][i] : i \in DOMAIN result[w][1]} \ {JsonNull} :
        \E k \in DOMAIN RouteOf[op[w].caller] :
          e.route_id = RouteOf[op[w].caller][k]

(* "number of current calls, updated by other modules": starting the       *)
(* process changes no count.                                               *)
StartupCountsNothing ==
  (requests = 0 /\ redisGateway \in Counts) => redisGateway = DbSessions
=============================================================================
