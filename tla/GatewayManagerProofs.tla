------------------------ MODULE GatewayManagerProofs -------------------------
(***************************************************************************)
(* Proofs about the gateway data for any number of session threads, any    *)
(* gateways, callers, tables and counts, and any number of requests,       *)
(* failures and restarts.                                                  *)
(***************************************************************************)
EXTENDS GatewayManager, SequenceTheorems, TLAPS

(* A function on the first numbers is a sequence.                          *)
LEMMA ListIsSeq ==
  ASSUME NEW S, NEW n \in Nat, NEW list \in [1..n -> S]
  PROVE  list \in Seq(S)
BY SeqDef

(* An entry put at a place of the array leaves an array of entries.        *)
LEMMA PlacedType ==
  ASSUME NEW entries \in Seq(Entry), NEW i \in Nat \ {0}, NEW entry \in Entry
  PROVE  Placed(entries, i, entry) \in Seq(Entry)
<1> DEFINE n == IF i > Len(entries) THEN i ELSE Len(entries)
<1>1. n \in Nat
  BY LenProperties
<1>2. ASSUME NEW k \in 1..n
      PROVE  (IF k = i THEN entry ELSE IF k <= Len(entries) THEN entries[k]
                                       ELSE JsonNull) \in Entry
  <2>1. k <= Len(entries) => entries[k] \in Entry
    BY <1>1, ElementOfSeq, LenProperties
  <2> QED
    BY <2>1 DEF Entry
<1> QED
  BY <1>1, <1>2, SeqDef DEF Placed

(* Right behind the last entry it makes the array one longer.              *)
LEMMA PlacedBehind ==
  ASSUME NEW entries \in Seq(Entry), NEW i \in Nat, i = Len(entries) + 1,
         NEW entry \in Entry
  PROVE  /\ Len(Placed(entries, i, entry)) = i
         /\ Placed(entries, i, entry)[i] = entry
         /\ \A k \in 1..Len(entries) : Placed(entries, i, entry)[k] = entries[k]
<1>1. Len(entries) \in Nat
  BY LenProperties
<1>2. DOMAIN Placed(entries, i, entry) = 1..i
  BY <1>1 DEF Placed
<1>3. Placed(entries, i, entry) \in Seq(Entry)
  BY <1>1, PlacedType
<1>4. Len(Placed(entries, i, entry)) = i
  BY <1>2, <1>3, LenProperties
<1> QED
  BY <1>1, <1>4 DEF Placed

(* Changing one count leaves an array an array.                            *)
LEMMA UpdatedType ==
  ASSUME NEW counts, NEW id, NEW i \in Int
  PROVE  /\ counts \in Counts => Updated(counts, id, i) \in Counts
         /\ counts \in Gateways => Updated(counts, id, i) \in Gateways
         /\ counts \notin Counts => Updated(counts, id, i) = counts
BY DEF Updated, Counts, Gateways

(* Every variable keeps its type.                                          *)
THEOREM TypeCorrect == Spec => []TypeOK
<1> USE GatewayAssumption
<1>1. Init => TypeOK
  <2> SUFFICES ASSUME Init PROVE TypeOK
    OBVIOUS
  <2>1. /\ <<>> \in Seq(Entry) /\ <<>> \in Seq(Seq(Entry))
        /\ <<>> \in Seq(SUBSET Nat) /\ <<>> \in Seq(GatewayId)
    BY EmptySeq
  <2>2. Startup \in Operation
    BY DEF Startup, Operation
  <2>3. /\ requests \in 0..NumRequests /\ failures \in 0..NumFailures
        /\ crashes \in 0..NumCrashes
    <3>1. requests = 0 /\ failures = 0 /\ crashes = 0
      BY DEF Init
    <3> QED
      BY <3>1
  <2>4. /\ redisTables \in Tables /\ json_tables \in Tables
        /\ redisGateway \in Gateways /\ json_gateway \in Gateways
        /\ json_tmp \in [Worker -> Gateways] /\ seen \in [Worker -> Gateways]
    BY DEF Init, Tables, Gateways
  <2>5. /\ leg \in [Worker -> {1, 2}]
        /\ incs \in [GatewayId -> Nat] /\ decs \in [GatewayId -> Nat]
        /\ net \in [GatewayId -> Int]
    BY DEF Init
  <2>6. /\ json \in Seq(Entry)
        /\ op \in [Worker -> Operation]
        /\ result \in [Worker -> Seq(Seq(Entry))]
        /\ edits \in [Worker -> Seq(SUBSET Nat)]
        /\ found \in [Worker -> Seq(GatewayId)]
        /\ place \in [Worker -> Nat] /\ size \in [Worker -> Nat]
        /\ pc \in [Worker -> {"save", "idle"}]
    BY <2>1, <2>2 DEF Init, NoRoute
  <2>7. /\ raced \in BOOLEAN /\ configured \in BOOLEAN
        /\ touched \in [Worker -> BOOLEAN]
    BY Zenon DEF Init
  <2> QED
    BY <2>3, <2>4, <2>5, <2>6, <2>7 DEF TypeOK
<1>2. TypeOK /\ [Next]_vars => TypeOK'
  <2> SUFFICES ASSUME TypeOK, [Next]_vars PROVE TypeOK'
    OBVIOUS
  <2>0. /\ <<>> \in Seq(Entry) /\ <<>> \in Seq(Seq(Entry))
        /\ <<>> \in Seq(SUBSET Nat) /\ <<>> \in Seq(GatewayId)
    BY EmptySeq
  <2>00. ASSUME UNCHANGED bounds \/ Fail
         PROVE  /\ requests' \in 0..NumRequests /\ failures' \in 0..NumFailures
                /\ crashes' \in 0..NumCrashes
    BY <2>00 DEF Fail, bounds, TypeOK
  <2>01. ASSUME NEW w \in Worker, UNCHANGED touched \/ Disturb(w)
         PROVE  touched' \in [Worker -> BOOLEAN]
    BY <2>01 DEF Disturb, TypeOK
  <2>1. CASE SaveTables
    <3>1. UNCHANGED bounds \/ Fail
      BY <2>1 DEF SaveTables
    <3>2. redisTables' \in Tables
      BY <2>1 DEF SaveTables, Tables, TypeOK
    <3> QED
      BY <2>00, <2>1, <3>1, <3>2
         DEF SaveTables, TypeOK, Goto, members, locals, loops, counting, reading
  <2>2. CASE SaveGateway
    <3>1. raced' \in BOOLEAN
      BY <2>2 DEF SaveGateway
    <3>2. redisGateway' \in Gateways /\ net' \in [GatewayId -> Int]
      BY <2>2 DEF SaveGateway, Gateways
    <3>3. pc' = [pc EXCEPT ![Main] = "configure"]
      BY <2>2 DEF SaveGateway, Goto
    <3>4. UNCHANGED <<redisTables, json_tables, json_gateway, json, configured,
                      op, leg, json_tmp, found, place, size, result, edits,
                      incs, decs, seen, touched>>
      BY <2>2 DEF SaveGateway, members, locals, loops, reading
    <3>5. UNCHANGED bounds \/ Fail
      BY <2>2 DEF SaveGateway
    <3> QED
      BY <2>00, <3>1, <3>2, <3>3, <3>4, <3>5 DEF TypeOK
  <2>3. CASE SaveGatewayRejected \/ SaveFails \/ SetSqlConfig
    <3>1. UNCHANGED bounds \/ Fail
      BY <2>3 DEF SaveGatewayRejected, SaveFails, SetSqlConfig
    <3> QED
      BY <2>00, <2>3, <3>1
         DEF SaveGatewayRejected, SaveFails, SetSqlConfig, TypeOK, Goto, redis,
             members, locals, loops, counting, reading
  <2>4. ASSUME NEW w \in Session, NEW r \in Request, Begin(w, r) PROVE TypeOK'
    <3>1. r \in Operation
      BY DEF Operation
    <3>2. requests + 1 \in 0..NumRequests
      BY <2>4 DEF Begin, TypeOK
    <3> QED
      BY <2>0, <2>4, <3>1, <3>2
         DEF Begin, TypeOK, Goto, redis, members, loops, counting, reading
  <2>5. ASSUME NEW w \in Worker, Clear(w) PROVE TypeOK'
    BY <2>5 DEF Clear, Cleared, TypeOK, Goto, Tables, Gateways, redis, locals,
                loops, bounds, counting
  <2>6. ASSUME NEW w \in Worker, LoadTables(w) PROVE TypeOK'
    <3>1. UNCHANGED bounds \/ Fail
      BY <2>6 DEF LoadTables
    <3>2. touched' \in [Worker -> BOOLEAN]
      BY <2>6, <2>01 DEF LoadTables, TypeOK
    <3>3. /\ json_tables' \in Tables /\ pc' = [pc EXCEPT ![w] = "loadGateway"]
          /\ UNCHANGED <<redis, json_gateway, json, configured, locals, counting,
                         seen>>
      BY <2>6 DEF LoadTables, Loaded, Goto, TypeOK
    <3> QED
      BY <2>00, <3>1, <3>2, <3>3 DEF TypeOK, redis, locals, loops, counting
  <2>7. ASSUME NEW w \in Worker, LoadGateway(w) PROVE TypeOK'
    <3>1. UNCHANGED bounds \/ Fail
      BY <2>7 DEF LoadGateway
    <3>2. touched' \in [Worker -> BOOLEAN]
      BY <2>7, <2>01 DEF LoadGateway, TypeOK
    <3>3. /\ json_gateway' \in Gateways /\ seen' \in [Worker -> Gateways]
          /\ UNCHANGED <<redis, json_tables, json, configured, locals, counting>>
      BY <2>7 DEF LoadGateway, Loaded, TypeOK
    <3>4. pc' = [pc EXCEPT ![w] = IF op[w].kind \in {"used", "end"}
                                 THEN "get" ELSE "lookup"]
      BY <2>7 DEF LoadGateway, Goto
    <3> QED
      BY <2>00, <3>1, <3>2, <3>3, <3>4 DEF TypeOK, redis, locals, loops, counting
  <2>8. ASSUME NEW w \in Worker, Lookup(w) PROVE TypeOK'
    <3>1. touched' \in [Worker -> BOOLEAN] /\ json' \in Seq(Entry)
      BY <2>0, <2>8, <2>01 DEF Lookup, NoRoute, TypeOK
    <3>2. AfterSizes(w) \in {"numbers", "edit"}
      BY DEF AfterSizes
    <3>3. PICK label \in {"numbers", "edit"} : pc' = [pc EXCEPT ![w] = label]
      BY <2>8, <3>2 DEF Lookup, Goto
    <3>4. UNCHANGED <<redis, json_tables, json_gateway, configured, locals, bounds,
                      counting, seen>>
      BY <2>8 DEF Lookup
    <3> QED
      BY <3>1, <3>3, <3>4 DEF TypeOK, redis, locals, loops, bounds, counting
  <2>17. ASSUME NEW w \in Worker, FindNumber(w) PROVE TypeOK'
    <3> DEFINE route == RouteOf[Asked(w)]
               k == place[w] + 1
               numbers == IF json_tables = "tables" THEN Append(found[w], route[k])
                                                    ELSE found[w]
    <3>1. Asked(w) \in Caller
      BY DEF Asked, TypeOK, Operation
    <3>2. route \in Seq(GatewayId)
      BY <3>1
    <3>3. k \in 1..Len(route)
      <4>1. place[w] \in Nat /\ Len(route) \in Nat /\ place[w] < Len(route)
        BY <2>17, <3>2, LenProperties DEF FindNumber, TypeOK
      <4> QED
        BY <4>1
    <3>4. numbers \in Seq(GatewayId)
      BY <3>2, <3>3, ElementOfSeq, AppendProperties DEF TypeOK
    <3>5. found' = [found EXCEPT ![w] = numbers]
      BY <2>17 DEF FindNumber
    <3>6. json_tables' \in Tables
      BY <2>17 DEF FindNumber, Indexed, Tables, TypeOK
    <3>7. place' \in [Worker -> Nat]
      <4>1. place' = [place EXCEPT ![w] = IF k < Len(route) THEN k ELSE 0]
        BY <2>17 DEF FindNumber
      <4>2. k \in Nat /\ place \in [Worker -> Nat]
        BY DEF TypeOK
      <4> QED
        BY <4>1, <4>2
    <3>8. pc' = [pc EXCEPT ![w] = IF k < Len(route) THEN "numbers"
                                 ELSE IF numbers = <<>> THEN "edit" ELSE "gateways"]
      BY <2>17 DEF FindNumber, Goto
    <3>9. touched' \in [Worker -> BOOLEAN]
      BY <2>17, <2>01 DEF FindNumber
    <3>10. UNCHANGED <<redis, json_gateway, json, configured, op, leg, json_tmp,
                       size, result, edits, bounds, counting, seen>>
      BY <2>17 DEF FindNumber
    <3> HIDE DEF numbers, route, k
    <3>11. found' \in [Worker -> Seq(GatewayId)]
      BY <3>4, <3>5 DEF TypeOK
    <3>12. PICK label \in {"numbers", "edit", "gateways"} :
             pc' = [pc EXCEPT ![w] = label]
      BY <3>8
    <3> QED
      BY <3>6, <3>7, <3>9, <3>10, <3>11, <3>12 DEF TypeOK, redis, bounds, counting
  <2>18. ASSUME NEW w \in Worker, AddGateway(w) PROVE TypeOK'
    <3> DEFINE g == found[w][place[w] + 1]
               entry == [route_id |-> g, currentsessions |-> json_gateway[g]]
    <3>1. g \in GatewayId
      BY <2>18, ElementOfSeq, LenProperties DEF AddGateway, TypeOK
    <3>2. ASSUME json_gateway \in Counts
          PROVE  Placed(json, size[w] + 1, entry) \in Seq(Entry)
      <4>1. entry \in Entry
        BY <3>1, <3>2 DEF Entry, Counts
      <4>2. size[w] + 1 \in Nat \ {0} /\ json \in Seq(Entry)
        BY DEF TypeOK
      <4> QED
        BY <4>1, <4>2, PlacedType
    <3>3. json' \in Seq(Entry)
      BY <2>18, <3>2 DEF AddGateway, TypeOK
    <3>4. json_gateway' \in Gateways
      BY <2>18 DEF AddGateway, Indexed, Gateways, TypeOK
    <3>5. /\ place' \in [Worker -> Nat] /\ size' \in [Worker -> Nat]
          /\ found' \in [Worker -> Seq(GatewayId)]
      <4>1. /\ place[w] + 1 \in Nat /\ size[w] \in Nat /\ size[w] + 1 \in Nat
            /\ found[w] \in Seq(GatewayId)
            /\ size \in [Worker -> Nat] /\ found \in [Worker -> Seq(GatewayId)]
        BY DEF TypeOK
      <4>2. \E n \in Nat : place' = [place EXCEPT ![w] = n]
        BY <2>18, <4>1 DEF AddGateway
      <4>3. \E k \in Nat : size' = [size EXCEPT ![w] = k]
        BY <2>18, <4>1 DEF AddGateway
      <4>4. \E numbers \in Seq(GatewayId) : found' = [found EXCEPT ![w] = numbers]
        BY <2>0, <2>18, <4>1 DEF AddGateway
      <4> QED
        BY <4>2, <4>3, <4>4 DEF TypeOK
    <3>6. \E label \in {"edit", "gateways"} : pc' = [pc EXCEPT ![w] = label]
      BY <2>18 DEF AddGateway, Goto
    <3>7. touched' \in [Worker -> BOOLEAN]
      BY <2>18, <2>01 DEF AddGateway
    <3>8. UNCHANGED <<redis, json_tables, configured, op, leg, json_tmp, result,
                      edits, bounds, counting, seen>>
      BY <2>18 DEF AddGateway
    <3> QED
      <4>1. PICK label \in {"edit", "gateways"} : pc' = [pc EXCEPT ![w] = label]
        BY <3>6
      <4> QED
        BY <3>3, <3>4, <3>5, <3>7, <3>8, <4>1 DEF TypeOK, redis, bounds, counting
  <2>9. ASSUME NEW w \in Worker, Edit(w) PROVE TypeOK'
    <3>1. Append(edits[w], {}) \in Seq(SUBSET Nat)
      BY AppendProperties DEF TypeOK
    <3>2. Len(json) \in Nat
      BY LenProperties DEF TypeOK
    <3> QED
      BY <2>9, <3>1, <3>2 DEF Edit, AfterEdit, TypeOK, Goto, redis, members, bounds,
                              counting, reading
  <2>19. ASSUME NEW w \in Worker, EditEntry(w) PROVE TypeOK'
    <3>1. edits' \in [Worker -> Seq(SUBSET Nat)]
      <4> DEFINE more == {place[w] + 1} \cap WithCapacity(json)
      <4>1. edits' = [edits EXCEPT ![w][leg[w]] = @ \cup more]
        BY <2>19 DEF EditEntry
      <4>2. more \in SUBSET Nat
        BY DEF TypeOK
      <4> HIDE DEF more
      <4>3. edits[w] \in Seq(SUBSET Nat)
        BY DEF TypeOK
      <4>4. [edits[w] EXCEPT ![leg[w]] = @ \cup more] \in Seq(SUBSET Nat)
        <5>1. edits[w] \in [1..Len(edits[w]) -> SUBSET Nat]
          BY <4>3, LenProperties, ElementOfSeq
        <5>2. [edits[w] EXCEPT ![leg[w]] = @ \cup more]
                \in [1..Len(edits[w]) -> SUBSET Nat]
          BY <4>2, <5>1
        <5>3. Len(edits[w]) \in Nat
          BY <4>3, LenProperties
        <5> QED
          BY <5>2, <5>3, ListIsSeq
      <4> QED
        BY <4>1, <4>4 DEF TypeOK
    <3>2. json' \in Seq(Entry)
      <4>1. place[w] + 1 \in Nat \ {0} /\ json \in Seq(Entry)
        BY DEF TypeOK
      <4>2. Placed(json, place[w] + 1, JsonNull) \in Seq(Entry)
        BY <4>1, PlacedType DEF Entry
      <4> QED
        BY <2>19, <4>1, <4>2 DEF EditEntry
    <3>3. place' \in [Worker -> Nat] /\ size' \in [Worker -> Nat]
      BY <2>19 DEF EditEntry, TypeOK
    <3>4. touched' \in [Worker -> BOOLEAN]
      BY <2>19 DEF EditEntry, Disturb, TypeOK
    <3> QED
      BY <2>19, <3>1, <3>2, <3>3, <3>4
         DEF EditEntry, AfterEdit, TypeOK, Goto, redis, bounds, counting
  <2>10. ASSUME NEW w \in Worker, GetResult(w) PROVE TypeOK'
    <3>1. Append(result[w], json) \in Seq(Seq(Entry))
      BY AppendProperties DEF TypeOK
    <3> QED
      BY <2>10, <3>1 DEF GetResult, TypeOK, Goto, redis, members, loops, bounds,
                         counting, reading
  <2>11. ASSUME NEW w \in Worker, GetGateway(w) PROVE TypeOK'
    <3>1. Updated(redisGateway, op[w].id, Increment(w)) \in Gateways
      <4>1. Increment(w) \in Int /\ redisGateway \in Gateways
        BY DEF Increment, TypeOK
      <4> QED
        BY <4>1, UpdatedType
    <3>2. incs' \in [GatewayId -> Nat] /\ decs' \in [GatewayId -> Nat]
      <4>1. \A g \in GatewayId : incs[g] \in Nat /\ decs[g] \in Nat
        BY DEF TypeOK
      <4> QED
        BY <2>11, <4>1 DEF GetGateway
    <3>3. /\ json_tmp' \in [Worker -> Gateways] /\ pc' = [pc EXCEPT ![w] = "set"]
          /\ UNCHANGED <<redis, members, configured, op, leg, loops, result, edits,
                         bounds, net, raced, reading>>
      BY <2>11, <3>1 DEF GetGateway, TypeOK, Goto
    <3> QED
      BY <3>2, <3>3 DEF TypeOK, redis, members, loops, bounds, reading
  <2>12. ASSUME NEW w \in Worker, GetGatewayFails(w) PROVE TypeOK'
    <3>1. UNCHANGED bounds \/ Fail
      BY <2>12 DEF GetGatewayFails
    <3> QED
      BY <2>00, <2>12, <3>1
         DEF GetGatewayFails, AfterUpdate, TypeOK, Goto, redis, members, locals,
             loops, counting, reading
  <2>20. ASSUME NEW w \in Worker, GetGatewayRejected(w) PROVE TypeOK'
    <3>1. UNCHANGED bounds \/ Fail
      BY <2>20 DEF GetGatewayRejected
    <3> QED
      BY <2>00, <2>20, <3>1
         DEF GetGatewayRejected, TypeOK, Goto, Gateways, redis, members, loops,
             counting, reading
  <2>21. ASSUME NEW w \in Worker, SetGatewayFails(w) PROVE TypeOK'
    <3>1. UNCHANGED bounds \/ Fail
      BY <2>21 DEF SetGatewayFails
    <3> QED
      BY <2>00, <2>21, <3>1
         DEF SetGatewayFails, AfterUpdate, TypeOK, Goto, redis, members, locals,
             loops, counting, reading
  <2>13. ASSUME NEW w \in Worker, SetGateway(w) PROVE TypeOK'
    <3>1. Updated(net, op[w].id, Increment(w)) \in [GatewayId -> Int]
      <4>1. Increment(w) \in Int /\ net \in Counts
        BY DEF Increment, TypeOK, Counts
      <4> QED
        BY <4>1, UpdatedType DEF Counts
    <3>2. raced' \in BOOLEAN
      BY <2>13 DEF SetGateway
    <3> QED
      BY <2>13, <3>1, <3>2 DEF SetGateway, AfterUpdate, TypeOK, Goto, members, locals,
                         loops, bounds, reading
  <2>14. ASSUME NEW w \in Worker, Reply(w) PROVE TypeOK'
    <3>1. Startup \in Operation
      BY DEF Startup, Operation
    <3> QED
      BY <2>0, <2>14, <3>1 DEF Reply, TypeOK, Goto, Gateways, redis, members,
                               loops, bounds, counting
  <2>15. CASE Restart
    <3>1. Startup \in Operation
      BY DEF Startup, Operation
    <3>2. crashes + 1 \in 0..NumCrashes
      BY <2>15 DEF Restart, TypeOK
    <3> QED
      BY <2>0, <2>15, <3>1, <3>2 DEF Restart, TypeOK, NoRoute, Tables, Gateways,
                                     redis, counting
  <2>16. CASE UNCHANGED vars
    BY <2>16 DEF vars, TypeOK, redis, members, locals, loops, bounds, counting,
                 reading
  <2> QED
    BY <2>1, <2>2, <2>3, <2>4, <2>5, <2>6, <2>7, <2>8, <2>9, <2>10, <2>11,
       <2>12, <2>13, <2>14, <2>15, <2>16, <2>17, <2>18, <2>19, <2>20, <2>21
       DEF Next, Step
<1>3. QED
  BY <1>1, <1>2, PTL DEF Spec
-----------------------------------------------------------------------------
(* What keeps CountBounded: an array on its way back to Redis is within    *)
(* the same bounds as the one that is there.                               *)
CountInv ==
  /\ Within(redisGateway)
  /\ \A w \in Worker : Updating(w) => Within(json_tmp[w])

(* What keeps ExactWhenSerial: an array on its way back to Redis is the    *)
(* exact one with the thread's own update.                                 *)
NetCounts == [g \in GatewayId |-> DbSessions[g] + net[g]]

SerialInv ==
  ~raced =>
    /\ redisGateway \in Counts => redisGateway = NetCounts
    /\ \A w \in Worker :
         Updating(w) /\ json_tmp[w] \in Counts =>
           json_tmp[w] = Updated(NetCounts, op[w].id, Increment(w))

(* All other steps leave the counts and the arrays under way alone, if     *)
(* there is an array under way at all.                                     *)
Uncounted ==
  /\ UNCHANGED <<redisGateway, counting>>
  /\ \A w \in Worker : Updating(w)' =>
       \/ json_tmp'[w] = JsonNull
       \/ Updating(w) /\ json_tmp'[w] = json_tmp[w] /\ op'[w] = op[w]

(* Only storing the array of MySQL and the two halves of an update count.  *)
LEMMA CountingSteps ==
  ASSUME TypeOK, [Next]_vars
  PROVE  \/ Uncounted \/ SaveGateway
         \/ \E w \in Worker : GetGateway(w) \/ SetGateway(w)
<1> USE DEF Uncounted, Updating, TypeOK, Goto
<1>1. CASE SaveTables \/ SaveGatewayRejected \/ SaveFails \/ SetSqlConfig
  BY <1>1 DEF SaveTables, SaveGatewayRejected, SaveFails, SetSqlConfig, redis,
              locals, counting
<1>2. ASSUME NEW w \in Session, NEW r \in Request, Begin(w, r) PROVE Uncounted
  BY <1>2 DEF Begin, redis, counting
<1>3. ASSUME NEW w \in Worker, Clear(w) \/ LoadTables(w) \/ LoadGateway(w)
      PROVE  Uncounted
  BY <1>3 DEF Clear, LoadTables, LoadGateway, redis, locals, counting
<1>4. ASSUME NEW w \in Worker, Lookup(w) \/ FindNumber(w) \/ AddGateway(w)
      PROVE  Uncounted
  BY <1>4 DEF Lookup, AfterSizes, FindNumber, AddGateway, redis, locals, counting
<1>8. ASSUME NEW w \in Worker, Edit(w) \/ EditEntry(w) \/ GetResult(w)
      PROVE  Uncounted
  BY <1>8 DEF Edit, EditEntry, AfterEdit, GetResult, redis, counting
<1>5. ASSUME NEW w \in Worker,
             \/ GetGatewayFails(w) \/ GetGatewayRejected(w)
             \/ SetGatewayFails(w) \/ Reply(w)
      PROVE  Uncounted
  BY <1>5 DEF GetGatewayFails, GetGatewayRejected, SetGatewayFails, AfterUpdate,
              Reply, redis, locals, counting
<1>6. CASE Restart
  BY <1>6 DEF Restart, redis, counting
<1>7. CASE UNCHANGED vars
  BY <1>7 DEF vars, redis, locals, counting
<1> QED
  BY <1>1, <1>2, <1>3, <1>4, <1>5, <1>6, <1>7, <1>8 DEF Next, Step

(* The bounds hold of Redis and of what is on its way there.               *)
LEMMA CountCorrect == Spec => []CountInv
<1> USE GatewayAssumption
<1>1. Init => CountInv
  BY DEF Init, CountInv, Within, Updating
<1>2. TypeOK /\ CountInv /\ [Next]_vars => CountInv'
  <2> SUFFICES ASSUME TypeOK, CountInv, [Next]_vars PROVE CountInv'
    OBVIOUS
  <2> USE DEF CountInv
  <2>1. CASE Uncounted
    <3>1. redisGateway' = redisGateway /\ incs' = incs /\ decs' = decs
      BY <2>1 DEF Uncounted, counting
    <3>2. \A w \in Worker : Updating(w)' =>
            \/ json_tmp'[w] \notin Counts
            \/ Updating(w) /\ json_tmp'[w] = json_tmp[w]
      BY <2>1 DEF Uncounted
    <3> QED
      BY <3>1, <3>2 DEF Within
  <2>2. CASE SaveGateway
    <3>1. incs' = incs /\ decs' = decs /\ json_tmp' = json_tmp
      BY <2>2 DEF SaveGateway, locals
    <3>2. Within(redisGateway)'
      <4>1. redisGateway' \in Counts => redisGateway' = DbSessions
        BY <2>2 DEF SaveGateway
      <4>2. \A g \in GatewayId :
              DbSessions[g] \in Int /\ incs[g] \in Nat /\ decs[g] \in Nat
        BY DEF TypeOK, Counts
      <4> QED
        BY <3>1, <4>1, <4>2 DEF Within
    <3>3. \A w \in Worker : Updating(w)' => Updating(w)
      BY <2>2 DEF SaveGateway, Goto, Updating, TypeOK
    <3> QED
      BY <3>1, <3>2, <3>3 DEF Within
  <2>3. ASSUME NEW w \in Worker, GetGateway(w) PROVE CountInv'
    <3>1. redisGateway' = redisGateway
      BY <2>3 DEF GetGateway, redis
    <3>2. \A g \in GatewayId :
            /\ incs[g] \in Nat /\ decs[g] \in Nat
            /\ incs'[g] \in Int /\ decs'[g] \in Int
            /\ incs[g] <= incs'[g] /\ decs[g] <= decs'[g]
      BY <2>3 DEF GetGateway, TypeOK
    <3> DEFINE WithinNow(counts) ==
                 counts \in Counts =>
                   \A g \in GatewayId : /\ DbSessions[g] - decs'[g] <= counts[g]
                                        /\ counts[g] <= DbSessions[g] + incs'[g]
    <3>3. \A counts : Within(counts) => WithinNow(counts)
      <4> SUFFICES ASSUME NEW counts \in Counts, Within(counts), NEW g \in GatewayId
                   PROVE  /\ DbSessions[g] - decs'[g] <= counts[g]
                          /\ counts[g] <= DbSessions[g] + incs'[g]
        OBVIOUS
      <4>1. DbSessions[g] \in Int /\ counts[g] \in Int
        BY DEF Counts
      <4>2. /\ DbSessions[g] - decs[g] <= counts[g]
            /\ counts[g] <= DbSessions[g] + incs[g]
        BY DEF Within
      <4> QED
        BY <3>2, <4>1, <4>2
    <3>4. WithinNow(json_tmp'[w])
      <4> SUFFICES ASSUME json_tmp'[w] \in Counts, NEW g \in GatewayId
                   PROVE  /\ DbSessions[g] - decs'[g] <= json_tmp'[w][g]
                          /\ json_tmp'[w][g] <= DbSessions[g] + incs'[g]
        OBVIOUS
      <4>1. json_tmp'[w] = Updated(redisGateway, op[w].id, Increment(w))
        BY <2>3 DEF GetGateway, TypeOK
      <4>2. redisGateway \in Counts
        BY <4>1 DEF Updated
      <4>3. Increment(w) = 1 \/ Increment(w) = -1
        BY DEF Increment
      <4>4. /\ DbSessions[g] \in Int /\ redisGateway[g] \in Int
            /\ DbSessions[g] - decs[g] <= redisGateway[g]
            /\ redisGateway[g] <= DbSessions[g] + incs[g]
        BY <4>2 DEF Within, Counts
      <4>5. CASE g # op[w].id
        <5>1. json_tmp'[w][g] = redisGateway[g]
          BY <4>1, <4>2, <4>5 DEF Updated, Counts
        <5> QED
          BY <3>2, <4>4, <5>1
      <4>6. CASE g = op[w].id
        <5>1. json_tmp'[w][g] = redisGateway[g] + Increment(w)
          BY <4>1, <4>2, <4>6 DEF Updated, Counts
        <5>2. /\ incs'[g] = incs[g] + (IF Increment(w) = 1 THEN 1 ELSE 0)
              /\ decs'[g] = decs[g] + (IF Increment(w) = -1 THEN 1 ELSE 0)
          BY <2>3, <4>2, <4>6 DEF GetGateway
        <5>3. incs[g] \in Nat /\ decs[g] \in Nat
          BY DEF TypeOK
        <5>4. CASE Increment(w) = 1
          BY SMTT(30), <4>4, <5>1, <5>2, <5>3, <5>4
        <5>5. CASE Increment(w) = -1
          BY SMTT(30), <4>4, <5>1, <5>2, <5>3, <5>5
        <5> QED
          BY <4>3, <5>4, <5>5
      <4> QED
        BY <4>5, <4>6
    <3>5. ASSUME NEW v \in Worker, v # w, Updating(v)'
          PROVE  WithinNow(json_tmp'[v])
      <4>1. Updating(v) /\ json_tmp'[v] = json_tmp[v]
        BY <2>3, <3>5 DEF GetGateway, Goto, Updating, TypeOK
      <4> QED
        BY <3>3, <4>1
    <3> QED
      BY <3>1, <3>3, <3>4, <3>5 DEF Within
  <2>4. ASSUME NEW w \in Worker, SetGateway(w) PROVE CountInv'
    <3>1. /\ Updating(w) /\ redisGateway' = json_tmp[w]
          /\ json_tmp' = json_tmp /\ incs' = incs /\ decs' = decs
      BY <2>4 DEF SetGateway, Updating, locals
    <3>2. \A v \in Worker : Updating(v)' => Updating(v)
      BY <2>4 DEF SetGateway, AfterUpdate, Goto, Updating, TypeOK
    <3> QED
      BY <3>1, <3>2 DEF Within
  <2> QED
    BY <2>1, <2>2, <2>3, <2>4, CountingSteps
<1>3. QED
  BY <1>1, <1>2, TypeCorrect, PTL DEF Spec

(* No count is further from the column in MySQL than the updates of its    *)
(* gateway explain, however they interleave and whatever a restart stops.  *)
THEOREM CountsBounded == Spec => []CountBounded
<1>1. CountInv => CountBounded
  BY DEF CountInv, CountBounded
<1> QED
  BY <1>1, CountCorrect, PTL

(* Without a race the counts are exact. *)
THEOREM SerialCountsExact == Spec => []ExactWhenSerial
<1> USE GatewayAssumption
<1>1. Init => SerialInv
  BY DEF Init, SerialInv, Updating
<1>2. TypeOK /\ SerialInv /\ [Next]_vars => SerialInv'
  <2> SUFFICES ASSUME TypeOK, SerialInv, [Next]_vars, ~raced' PROVE SerialInv'
    BY DEF SerialInv
  <2> DEFINE Exact(counts) == counts \in Counts => counts = NetCounts
             Due(w) == Updated(NetCounts, op[w].id, Increment(w))
  <2>1. CASE Uncounted
    BY <2>1 DEF Uncounted, SerialInv, NetCounts, Increment, counting
  <2>2. CASE SaveGateway
    <3>1. \A w \in Worker : ~Updating(w)
      BY <2>2 DEF SaveGateway
    <3>2. \A w \in Worker : ~Updating(w)'
      BY <2>2, <3>1 DEF SaveGateway, Goto, Updating, TypeOK
    <3>3. redisGateway' \in Counts => redisGateway' = DbSessions
      BY <2>2 DEF SaveGateway
    <3>4. NetCounts' = DbSessions
      BY <2>2 DEF SaveGateway, NetCounts, Counts
    <3> QED
      BY <3>2, <3>3, <3>4 DEF SerialInv
  <2>3. ASSUME NEW w \in Worker, GetGateway(w) PROVE SerialInv'
    <3>1. /\ ~raced /\ redisGateway' = redisGateway /\ net' = net /\ op' = op
          /\ json_tmp' = [json_tmp EXCEPT
                            ![w] = Updated(redisGateway, op[w].id, Increment(w))]
          /\ \A v \in Worker : v # w /\ Updating(v)' => Updating(v)
      BY <2>3 DEF GetGateway, redis, Goto, Updating, TypeOK
    <3>2. NetCounts' = NetCounts /\ \A v \in Worker : Increment(v)' = Increment(v)
      BY <3>1 DEF NetCounts, Increment
    <3>3. json_tmp'[w] \in Counts => json_tmp'[w] = Due(w)
      <4>1. json_tmp'[w] \in Counts => redisGateway \in Counts
        BY <3>1 DEF Updated, TypeOK
      <4> QED
        BY <3>1, <4>1 DEF SerialInv, TypeOK
    <3>4. \A v \in Worker : v # w => json_tmp'[v] = json_tmp[v]
      BY <3>1 DEF TypeOK
    <3> QED
      BY <3>1, <3>2, <3>3, <3>4 DEF SerialInv
  <2>4. ASSUME NEW w \in Worker, SetGateway(w) PROVE SerialInv'
    <3>1. ~raced /\ \A v \in Worker \ {w} : ~Updating(v)
      BY <2>4 DEF SetGateway
    <3>2. \A v \in Worker : ~Updating(v)'
      BY <2>4, <3>1 DEF SetGateway, AfterUpdate, Goto, Updating, TypeOK
    <3>3. redisGateway' \in Counts => redisGateway' = Due(w)
      BY <2>4, <3>1 DEF SetGateway, SerialInv, Updating
    <3>4. NetCounts' = Due(w)
      <4>1. net' = Updated(net, op[w].id, Increment(w)) /\ net \in Counts
        BY <2>4 DEF SetGateway, TypeOK, Counts
      <4>2. NetCounts \in Counts
        BY <4>1 DEF NetCounts, Counts
      <4>3. Increment(w) \in Int
        BY DEF Increment
      <4>4. CASE op[w].id \notin GatewayId
        BY <4>1, <4>4 DEF Updated, NetCounts
      <4>5. CASE op[w].id \in GatewayId
        <5>1. /\ net' = [net EXCEPT ![op[w].id] = @ + Increment(w)]
              /\ Due(w) = [NetCounts EXCEPT ![op[w].id] = @ + Increment(w)]
          BY <4>1, <4>2, <4>5 DEF Updated
        <5>2. \A g \in GatewayId : DbSessions[g] + net'[g] = Due(w)[g]
          <6> SUFFICES ASSUME NEW g \in GatewayId
                       PROVE  DbSessions[g] + net'[g] = Due(w)[g]
            OBVIOUS
          <6>1. DbSessions[g] \in Int /\ net[g] \in Int
            BY <4>1 DEF Counts
          <6>2. NetCounts[g] = DbSessions[g] + net[g]
            BY DEF NetCounts
          <6>3. net'[g] = IF g = op[w].id THEN net[g] + Increment(w) ELSE net[g]
            BY <4>1, <5>1 DEF Counts
          <6>4. Due(w)[g] = IF g = op[w].id THEN NetCounts[g] + Increment(w)
                                            ELSE NetCounts[g]
            BY <4>2, <5>1 DEF Counts
          <6> QED
            BY <4>3, <6>1, <6>2, <6>3, <6>4
        <5>3. Due(w) \in Counts
          BY <4>2, <4>3, UpdatedType
        <5> QED
          BY <5>2, <5>3 DEF NetCounts, Counts
      <4> QED
        BY <4>4, <4>5
    <3> QED
      BY <3>2, <3>3, <3>4 DEF SerialInv
  <2> QED
    BY <2>1, <2>2, <2>3, <2>4, CountingSteps
<1>3. SerialInv => ExactWhenSerial
  BY DEF SerialInv, ExactWhenSerial, NetCounts
<1>4. QED
  BY <1>1, <1>2, <1>3, TypeCorrect, PTL DEF Spec
-----------------------------------------------------------------------------
(* What keeps UndisturbedRoute.  The tables are stored only while nobody   *)
(* looks up: before set_sql_config.                                        *)
Starting == {"save", "saveGateway", "configure"}
Looking == {"lookup", "numbers", "gateways", "edit", "editing", "result"}
Reading == {"loadTables", "loadGateway", "reply"} \cup Looking

ConfigInv ==
  /\ pc[Main] \in Starting => ~configured
  /\ ~configured => \A w \in Worker : pc[w] \in Starting \cup {"idle", "clear"}

CallerOf(w, i) == IF i = 1 THEN op[w].caller ELSE op[w].callee
Answerable(w, i) ==
  CallerOf(w, i) # NoCaller /\ seen[w] \in Counts /\ redisTables = "tables"
Answer(w, i) == Join(redisTables, seen[w], CallerOf(w, i))

(* One result and one list of edits per leg that is behind the thread.     *)
LegInv(w) ==
  /\ pc[w] \in {"clear", "loadTables", "loadGateway"} =>
       leg[w] = 1 /\ result[w] = <<>> /\ edits[w] = <<>>
  /\ pc[w] \in {"lookup", "numbers", "gateways", "edit"} =>
       Len(result[w]) = leg[w] - 1 /\ Len(edits[w]) = leg[w] - 1
  /\ pc[w] \in {"editing", "result"} =>
       Len(result[w]) = leg[w] - 1 /\ Len(edits[w]) = leg[w]
  /\ pc[w] = "reply" => Len(result[w]) = leg[w] /\ Len(edits[w]) = leg[w]

(* Outside the loops nothing is left of them. *)
LoopInvOf(w) ==
  /\ pc[w] \notin {"numbers", "gateways"} => found[w] = <<>>
  /\ pc[w] \notin {"numbers", "gateways", "editing"} => place[w] = 0
  /\ pc[w] \notin {"gateways", "editing"} => size[w] = 0

LoopInv == \A w \in Worker : LoopInvOf(w)

(* How far the three loops of an undisturbed lookup have come: the first   *)
(* numbers' gateways are found, the first entries are in json, the first   *)
(* entries have changed the callee.                                        *)
Route(w) == RouteOf[CallerOf(w, leg[w])]

NumbersInv(w) ==
  /\ json = NoRoute
  /\ Len(found[w]) = place[w]
  /\ \A i \in 1..place[w] : found[w][i] = Route(w)[i]

GatewaysInv(w) ==
  /\ found[w] = Route(w)
  /\ size[w] = place[w] /\ Len(json) = place[w]
  /\ \A i \in 1..place[w] : json[i] = Answer(w, leg[w])[i]

EditingInv(w) ==
  /\ size[w] = Len(json)
  /\ edits[w][leg[w]] = {i \in WithCapacity(json) : i <= place[w]}

(* The members hold what Redis gave this thread, and in the end json holds *)
(* the answer.                                                             *)
MembersInv(w) ==
  /\ pc[w] \in {"loadGateway"} \cup Looking =>
       (redisTables = "tables" => json_tables = "tables")
  /\ pc[w] \in Looking => (seen[w] \in Counts => json_gateway = seen[w])
  /\ Answerable(w, leg[w]) =>
       /\ pc[w] = "numbers" => NumbersInv(w)
       /\ pc[w] = "gateways" => GatewaysInv(w)
       /\ pc[w] = "editing" => EditingInv(w)
       /\ pc[w] \in {"edit", "editing", "result"} => json = Answer(w, leg[w])

(* Each result so far is the answer; the last list of edits may be under   *)
(* way.                                                                    *)
ResultInv(w) ==
  /\ \A i \in DOMAIN result[w] : Answerable(w, i) => result[w][i] = Answer(w, i)
  /\ \A i \in DOMAIN edits[w] :
       Answerable(w, i) /\ ~(pc[w] = "editing" /\ i = leg[w]) =>
         edits[w][i] = WithCapacity(Answer(w, i))

RouteInvOf(w) ==
  op[w].kind \in {"route", "routeEx"} =>
    /\ pc[w] \in Reading \cup {"clear"}
    /\ LegInv(w)
    /\ ~touched[w] /\ pc[w] \in Reading => MembersInv(w) /\ ResultInv(w)

RouteInv == \A w \in Session : RouteInvOf(w)

(* No thread gets past its first Redis command before set_sql_config.      *)
LEMMA ConfigCorrect == Spec => []ConfigInv
<1> USE GatewayAssumption DEF Starting
<1>1. Init => ConfigInv
  BY DEF Init, ConfigInv
<1>2. TypeOK /\ ConfigInv /\ [Next]_vars => ConfigInv'
  <2> SUFFICES ASSUME TypeOK, ConfigInv, [Next]_vars PROVE ConfigInv'
    OBVIOUS
  <2> USE DEF ConfigInv, TypeOK, Goto
  <2>0. Main \in Worker /\ Main \notin Session /\ Session \subseteq Worker
    BY DEF Worker
  <2>1. CASE SaveTables \/ SaveGateway \/ SaveGatewayRejected \/ SaveFails
    <3>1. pc[Main] \in Starting /\ configured' = configured
      BY <2>1 DEF SaveTables, SaveGateway, SaveGatewayRejected, SaveFails
    <3>2. PICK label \in Starting : pc' = [pc EXCEPT ![Main] = label]
      BY <2>1 DEF SaveTables, SaveGateway, SaveGatewayRejected, SaveFails
    <3>3. ~configured'
      BY <3>1
    <3>4. \A w \in Worker : pc'[w] \in Starting \cup {"idle", "clear"}
      BY <2>0, <3>1, <3>2
    <3> QED
      BY <3>3, <3>4
  <2>2. CASE SetSqlConfig
    BY <2>0, <2>2 DEF SetSqlConfig
  <2>3. ASSUME NEW w \in Session, NEW r \in Request, Begin(w, r)
        PROVE  ConfigInv'
    BY <2>0, <2>3 DEF Begin
  <2>4. ASSUME NEW w \in Worker, Clear(w) \/ LoadTables(w) \/ LoadGateway(w)
        PROVE  ConfigInv'
    BY <2>0, <2>4 DEF Clear, LoadTables, LoadGateway
  <2>5. ASSUME NEW w \in Worker, Lookup(w) \/ FindNumber(w) \/ AddGateway(w)
        PROVE  ConfigInv'
    BY <2>0, <2>5 DEF Lookup, AfterSizes, FindNumber, AddGateway
  <2>9. ASSUME NEW w \in Worker, Edit(w) \/ GetResult(w) PROVE ConfigInv'
    <3>1. PICK label \in {"get", "editing", "result", "lookup", "reply"} :
            pc' = [pc EXCEPT ![w] = label]
      BY <2>9 DEF Edit, AfterEdit, GetResult
    <3>2. configured' = configured /\ pc[w] \in {"edit", "result"}
      BY <2>9 DEF Edit, GetResult
    <3> QED
      BY <2>0, <3>1, <3>2
  <2>10. ASSUME NEW w \in Worker, EditEntry(w) PROVE ConfigInv'
    <3>1. PICK label \in {"get", "editing", "result"} : pc' = [pc EXCEPT ![w] = label]
      BY <2>10 DEF EditEntry, AfterEdit
    <3>2. configured' = configured /\ pc[w] = "editing"
      BY <2>10 DEF EditEntry
    <3> QED
      BY <2>0, <3>1, <3>2
  <2>6. ASSUME NEW w \in Worker,
               \/ GetGateway(w) \/ GetGatewayFails(w) \/ GetGatewayRejected(w)
               \/ SetGateway(w) \/ SetGatewayFails(w) \/ Reply(w)
        PROVE  ConfigInv'
    BY <2>0, <2>6 DEF GetGateway, GetGatewayFails, GetGatewayRejected, SetGateway,
                      SetGatewayFails, Reply, AfterUpdate
  <2>7. CASE Restart
    BY <2>0, <2>7 DEF Restart
  <2>8. CASE UNCHANGED vars
    BY <2>8 DEF vars
  <2> QED
    BY <2>1, <2>2, <2>3, <2>4, <2>5, <2>6, <2>7, <2>8, <2>9, <2>10 DEF Next, Step
<1>3. QED
  BY <1>1, <1>2, TypeCorrect, PTL DEF Spec

(* The loops leave nothing behind.                                         *)
LEMMA LoopsCorrect == Spec => []LoopInv
<1> USE GatewayAssumption
<1>1. Init => LoopInv
  BY DEF Init, LoopInv, LoopInvOf
<1>2. TypeOK /\ LoopInv /\ [Next]_vars => LoopInv'
  <2> SUFFICES ASSUME TypeOK, LoopInv, [Next]_vars, NEW w \in Worker
               PROVE  LoopInvOf(w)'
    BY DEF LoopInv
  <2>0. /\ LoopInvOf(w) /\ w \in Worker /\ Main \in Worker /\ Session \subseteq Worker
        /\ DOMAIN pc = Worker /\ DOMAIN found = Worker
        /\ DOMAIN place = Worker /\ DOMAIN size = Worker
    BY DEF LoopInv, Worker, TypeOK
  <2> DEFINE Outside == {"save", "saveGateway", "configure", "clear", "loadTables",
                         "loadGateway", "lookup", "edit", "result", "get", "set",
                         "reply", "idle", "up"}
             Passing(v) ==
               /\ UNCHANGED loops
               /\ pc[v] \in Outside
               /\ \E label \in Outside : pc' = [pc EXCEPT ![v] = label]
  <2>1. ASSUME NEW v \in Worker, Passing(v) PROVE LoopInvOf(w)'
    BY <2>0, <2>1 DEF LoopInvOf, loops
  <2>2. CASE SaveTables \/ SaveGateway \/ SaveGatewayRejected \/ SaveFails
             \/ SetSqlConfig
    <3>1. Passing(Main)
      BY <2>2 DEF SaveTables, SaveGateway, SaveGatewayRejected, SaveFails,
                  SetSqlConfig, Goto, locals
    <3> QED
      BY <2>0, <2>1, <3>1
  <2>3. ASSUME NEW v \in Session, NEW q \in Request, Begin(v, q)
        PROVE  LoopInvOf(w)'
    <3>1. Passing(v)
      BY <2>3 DEF Begin, Goto
    <3> QED
      BY <2>0, <2>1, <3>1
  <2>4. ASSUME NEW v \in Worker,
               \/ Clear(v) \/ LoadTables(v) \/ LoadGateway(v) \/ GetResult(v)
               \/ GetGateway(v) \/ GetGatewayFails(v) \/ GetGatewayRejected(v)
               \/ SetGateway(v) \/ SetGatewayFails(v) \/ Reply(v)
        PROVE  LoopInvOf(w)'
    <3>1. Passing(v)
      BY <2>4 DEF Clear, LoadTables, LoadGateway, GetResult, GetGateway,
                  GetGatewayFails, GetGatewayRejected, SetGateway, SetGatewayFails,
                  Reply, AfterUpdate, Goto, locals
    <3> QED
      BY <2>1, <3>1
  <2>5. ASSUME NEW v \in Worker, Lookup(v) PROVE LoopInvOf(w)'
    <3>1. /\ UNCHANGED loops /\ pc[v] = "lookup"
          /\ \E label \in {"numbers", "edit"} : pc' = [pc EXCEPT ![v] = label]
      BY <2>5 DEF Lookup, AfterSizes, Goto, locals
    <3> QED
      BY <2>0, <3>1 DEF LoopInvOf, loops
  <2>6. ASSUME NEW v \in Worker, FindNumber(v) PROVE LoopInvOf(w)'
    <3>1. PICK numbers :
            /\ found' = [found EXCEPT ![v] = numbers]
            /\ \/ pc' = [pc EXCEPT ![v] = "numbers"]
               \/ place' = [place EXCEPT ![v] = 0]
                  /\ pc' = [pc EXCEPT ![v] = IF numbers = <<>> THEN "edit"
                                                              ELSE "gateways"]
      BY <2>6 DEF FindNumber, Goto
    <3>2. /\ pc[v] = "numbers" /\ size' = size
          /\ \A u \in Worker : u # v => place'[u] = place[u]
      BY <2>0, <2>6 DEF FindNumber
    <3> QED
      BY <2>0, <3>1, <3>2 DEF LoopInvOf
  <2>7. ASSUME NEW v \in Worker, AddGateway(v) PROVE LoopInvOf(w)'
    <3>1. \/ pc' = [pc EXCEPT ![v] = "gateways"]
          \/ /\ pc' = [pc EXCEPT ![v] = "edit"]
             /\ found'[v] = <<>> /\ place'[v] = 0 /\ size'[v] = 0
      BY <2>0, <2>7 DEF AddGateway, Goto
    <3>2. \A u \in Worker : u # v =>
            found'[u] = found[u] /\ place'[u] = place[u] /\ size'[u] = size[u]
      BY <2>0, <2>7 DEF AddGateway
    <3> QED
      BY <2>0, <3>1, <3>2 DEF LoopInvOf
  <2>8. ASSUME NEW v \in Worker, Edit(v) PROVE LoopInvOf(w)'
    <3>1. /\ found' = found /\ place' = place /\ pc[v] = "edit"
          /\ size' = [size EXCEPT ![v] = Len(json)]
      BY <2>8 DEF Edit
    <3>2. CASE json = <<>>
      <4>1. Len(json) = 0
        BY <3>2, EmptySeq
      <4>2. \E label \in {"get", "result"} : pc' = [pc EXCEPT ![v] = label]
        BY <2>8, <3>2 DEF Edit, AfterEdit, Goto
      <4> QED
        BY <2>0, <3>1, <4>1, <4>2 DEF LoopInvOf
    <3>3. CASE json # <<>>
      <4>1. pc' = [pc EXCEPT ![v] = "editing"]
        BY <2>8, <3>3 DEF Edit, Goto
      <4> QED
        BY <2>0, <3>1, <4>1 DEF LoopInvOf
    <3> QED
      BY <3>2, <3>3
  <2>9. ASSUME NEW v \in Worker, EditEntry(v) PROVE LoopInvOf(w)'
    <3>1. /\ found' = found /\ pc[v] = "editing"
          /\ \/ pc' = [pc EXCEPT ![v] = "editing"]
             \/ /\ \E label \in {"get", "result"} : pc' = [pc EXCEPT ![v] = label]
                /\ place'[v] = 0 /\ size'[v] = 0
      BY <2>0, <2>9 DEF EditEntry, AfterEdit, Goto
    <3>2. \A u \in Worker : u # v => place'[u] = place[u] /\ size'[u] = size[u]
      BY <2>0, <2>9 DEF EditEntry
    <3> QED
      BY <2>0, <3>1, <3>2 DEF LoopInvOf
  <2>10. CASE Restart
    BY <2>0, <2>10 DEF Restart, LoopInvOf
  <2>11. CASE UNCHANGED vars
    BY <2>0, <2>11 DEF vars, locals, loops, LoopInvOf
  <2> QED
    BY <2>2, <2>3, <2>4, <2>5, <2>6, <2>7, <2>8, <2>9, <2>10, <2>11 DEF Next, Step
<1>3. QED
  BY <1>1, <1>2, TypeCorrect, PTL DEF Spec

(* A step of another thread leaves what is thread w's own alone, and       *)
(* either the members too or marks w as disturbed.                         *)
Apart(w) ==
  /\ pc'[w] = pc[w] /\ op'[w] = op[w] /\ leg'[w] = leg[w]
  /\ found'[w] = found[w] /\ place'[w] = place[w] /\ size'[w] = size[w]
  /\ result'[w] = result[w] /\ edits'[w] = edits[w] /\ seen'[w] = seen[w]
  /\ pc[w] \in Reading => redisTables' = redisTables
  /\ touched'[w] \/ (touched'[w] = touched[w] /\ UNCHANGED members)

(* What a step of the program is to a session thread: its own, a restart,  *)
(* or another thread's.                                                    *)
LEMMA OthersApart ==
  ASSUME TypeOK, ConfigInv, [Next]_vars, NEW w \in Session
  PROVE  \/ Apart(w) \/ Restart
         \/ Step(w) \/ \E r \in Request : Begin(w, r)
<1> USE GatewayAssumption DEF Apart, TypeOK, Goto
<1>0. Main \in Worker /\ w # Main /\ w \in Worker /\ Session \subseteq Worker
  BY DEF Worker
<1>1. CASE SaveTables
  <2>1. pc[w] \notin Reading
    BY <1>0, <1>1 DEF SaveTables, ConfigInv, Starting, Reading, Looking
  <2> QED
    BY <1>0, <1>1, <2>1 DEF SaveTables, members, locals, loops, reading
<1>2. CASE SaveGateway \/ SaveGatewayRejected \/ SaveFails \/ SetSqlConfig
  BY <1>0, <1>2 DEF SaveGateway, SaveGatewayRejected, SaveFails, SetSqlConfig,
                    redis, members, locals, loops, reading
<1>3. ASSUME NEW v \in Session, v # w, NEW r \in Request, Begin(v, r)
      PROVE  Apart(w)
  BY <1>0, <1>3 DEF Begin, redis, members, loops, reading
<1>12. ASSUME NEW v \in Worker, v # w, Disturb(v) PROVE touched'[w]
  <2>1. touched'[w] = (touched[w] \/ w # v)
    BY <1>0, <1>12 DEF Disturb
  <2> QED
    BY <1>12, <2>1
<1>4. ASSUME NEW v \in Worker, v # w,
             Clear(v) \/ LoadTables(v) \/ LoadGateway(v)
      PROVE  Apart(w)
  <2>1. touched'[w] \/ (touched'[w] = touched[w] /\ UNCHANGED members)
    <3>1. CASE Clear(v)
      <4>1. touched'[w] = (w # v)
        BY <1>0, <3>1 DEF Clear
      <4> QED
        BY <1>4, <4>1
    <3>2. CASE LoadTables(v) \/ LoadGateway(v)
      <4>1. \/ Disturb(v)
            \/ touched' = [touched EXCEPT ![v] = TRUE] /\ UNCHANGED members
        BY <3>2 DEF LoadTables, LoadGateway, members
      <4>2. CASE touched' = [touched EXCEPT ![v] = TRUE] /\ UNCHANGED members
        <5>1. touched'[w] = touched[w]
          BY <1>0, <1>4, <4>2
        <5> QED
          BY <4>2, <5>1
      <4> QED
        BY <1>4, <1>12, <4>1, <4>2
    <3> QED
      BY <1>4, <3>1, <3>2
  <2>2. seen'[w] = seen[w] /\ pc'[w] = pc[w]
    BY <1>0, <1>4 DEF Clear, LoadTables, LoadGateway
  <2>3. UNCHANGED <<redis, locals>>
    BY <1>4 DEF Clear, LoadTables, LoadGateway
  <2> QED
    BY <2>1, <2>2, <2>3 DEF redis, locals, loops
<1>5. ASSUME NEW v \in Worker, v # w, Lookup(v) PROVE Apart(w)
  <2>1. /\ UNCHANGED <<redis, locals, seen>> /\ pc'[w] = pc[w]
        /\ UNCHANGED <<json_tables, json_gateway>>
    BY <1>0, <1>5 DEF Lookup
  <2>2. UNCHANGED <<json, touched>> \/ Disturb(v)
    BY <1>5 DEF Lookup
  <2>3. touched'[w] \/ (touched'[w] = touched[w] /\ json' = json)
    BY <1>5, <1>12, <2>2
  <2> QED
    BY <2>1, <2>3 DEF redis, locals, loops, members
<1>13. ASSUME NEW v \in Worker, v # w, FindNumber(v) \/ AddGateway(v)
       PROVE  Apart(w)
  <2>1. touched'[w]
    BY <1>12, <1>13 DEF FindNumber, AddGateway
  <2>2. /\ pc'[w] = pc[w] /\ found'[w] = found[w]
        /\ place'[w] = place[w] /\ size'[w] = size[w]
    BY <1>0, <1>13 DEF FindNumber, AddGateway
  <2>3. UNCHANGED <<redis, op, leg, result, edits, seen>>
    BY <1>13 DEF FindNumber, AddGateway
  <2> QED
    BY <2>1, <2>2, <2>3 DEF redis
<1>14. ASSUME NEW v \in Worker, v # w, EditEntry(v) PROVE Apart(w)
  <2>1. touched'[w] \/ (touched'[w] = touched[w] /\ UNCHANGED members)
    <3>1. Disturb(v) \/ UNCHANGED <<members, touched>>
      BY <1>14 DEF EditEntry, members
    <3> QED
      BY <1>12, <1>14, <3>1
  <2>2. /\ pc'[w] = pc[w] /\ edits'[w] = edits[w]
        /\ place'[w] = place[w] /\ size'[w] = size[w]
    BY <1>0, <1>14 DEF EditEntry
  <2>3. UNCHANGED <<redis, op, leg, found, result, seen>>
    BY <1>14 DEF EditEntry
  <2> QED
    BY <2>1, <2>2, <2>3 DEF redis
<1>6. ASSUME NEW v \in Worker, v # w, Edit(v) \/ GetResult(v) PROVE Apart(w)
  BY <1>0, <1>6 DEF Edit, GetResult, redis, members, loops, reading
<1>7. ASSUME NEW v \in Worker, v # w,
             GetGateway(v) \/ GetGatewayFails(v) \/ GetGatewayRejected(v)
      PROVE  Apart(w)
  BY <1>0, <1>7 DEF GetGateway, GetGatewayFails, GetGatewayRejected, redis, members,
                    locals, loops, reading
<1>8. ASSUME NEW v \in Worker, v # w, SetGateway(v) \/ SetGatewayFails(v) \/ Reply(v)
      PROVE  Apart(w)
  <2>1. CASE SetGateway(v) \/ SetGatewayFails(v)
    BY <1>0, <1>8, <2>1 DEF SetGateway, SetGatewayFails, redis, members, locals,
                            loops, reading
  <2>2. CASE Reply(v)
    BY <1>0, <1>8, <2>2 DEF Reply, redis, members, loops
  <2> QED
    BY <1>8, <2>1, <2>2
<1>9. CASE UNCHANGED vars
  BY <1>9 DEF vars, redis, members, locals, loops, reading
<1> HIDE DEF Apart, TypeOK, Goto
<1>10. ASSUME NEW v \in Worker, Step(v) PROVE Apart(w) \/ Step(w)
  BY <1>10, <1>4, <1>5, <1>6, <1>7, <1>8, <1>13, <1>14 DEF Step
<1>11. ASSUME NEW v \in Session, NEW r \in Request, Begin(v, r)
       PROVE  Apart(w) \/ Begin(w, r)
  BY <1>11, <1>3
<1> QED
  BY <1>1, <1>2, <1>9, <1>10, <1>11 DEF Next

(* What the answer to a leg looks like.                                    *)
LEMMA AnswerShape ==
  ASSUME TypeOK, NEW w \in Session, Answerable(w, leg[w])
  PROVE  /\ Route(w) \in Seq(GatewayId) /\ Len(Route(w)) \in Nat
         /\ Asked(w) = CallerOf(w, leg[w]) /\ Route(w) = RouteOf[Asked(w)]
         /\ Answer(w, leg[w]) \in Seq(Entry)
         /\ Len(Answer(w, leg[w])) = Len(Route(w))
         /\ \A k \in 1..Len(Route(w)) :
              Answer(w, leg[w])[k] = [route_id |-> Route(w)[k],
                                      currentsessions |-> seen[w][Route(w)[k]]]
<1> DEFINE route == Route(w)
           answer == [i \in DOMAIN route |->
                        [route_id |-> route[i], currentsessions |-> seen[w][route[i]]]]
<1>1. Asked(w) = CallerOf(w, leg[w]) /\ route = RouteOf[Asked(w)]
  BY DEF Asked, CallerOf, Route
<1>2. Asked(w) \in Caller
  BY DEF Asked, TypeOK, Operation, Worker
<1>3. route \in Seq(GatewayId) /\ Len(route) \in Nat /\ DOMAIN route = 1..Len(route)
  BY <1>1, <1>2, GatewayAssumption, LenProperties
<1>4. Answer(w, leg[w]) = answer
  BY DEF Answer, Join, Answerable, Route
<1>5. answer \in [1..Len(route) -> Entry]
  <2>1. \A i \in 1..Len(route) : route[i] \in GatewayId
    BY <1>3, ElementOfSeq
  <2>2. seen[w] \in [GatewayId -> Int]
    BY DEF Answerable, Counts
  <2> QED
    BY <1>3, <2>1, <2>2 DEF Entry
<1>6. answer \in Seq(Entry)
  BY <1>3, <1>5, ListIsSeq
<1>7. Len(answer) = Len(route)
  BY <1>3, <1>5, <1>6, LenProperties
<1> QED
  BY <1>1, <1>3, <1>4, <1>6, <1>7 DEF Route

(* The answers depend on nothing a lookup changes.                         *)
LEMMA AnswerSteady ==
  ASSUME NEW w, op'[w] = op[w], seen'[w] = seen[w], redisTables' = redisTables
  PROVE  /\ \A i : Answerable(w, i)' <=> Answerable(w, i)
         /\ \A i : Answer(w, i)' = Answer(w, i)
         /\ leg'[w] = leg[w] => Route(w)' = Route(w)
BY DEF Answerable, Answer, CallerOf, Route

(* Each step a thread with a route request takes keeps what it relies on,  *)
(* disturbed or not: first the start of a lookup, ...                      *)
LEMMA OwnLookup ==
  ASSUME TypeOK, LoopInv, NEW w \in Session, RouteInvOf(w), Lookup(w),
         op[w].kind \in {"route", "routeEx"}
  PROVE  RouteInvOf(w)'
<1>0. w \in Worker /\ DOMAIN pc = Worker /\ LoopInvOf(w)
  BY DEF TypeOK, LoopInv, Worker
<1>1. /\ pc[w] = "lookup" /\ pc'[w] \in {"numbers", "edit"}
      /\ UNCHANGED <<redisTables, json_tables, json_gateway, op, leg, found, place,
                     size, result, edits, seen>>
  BY <1>0 DEF Lookup, Goto, AfterSizes, redis, locals, loops
<1>2. LegInv(w)'
  BY <1>1 DEF RouteInvOf, LegInv
<1>3. ASSUME ~touched'[w] PROVE MembersInv(w)' /\ ResultInv(w)'
  <2>1. ~touched[w]
    BY <1>0, <1>3 DEF Lookup, Disturb, TypeOK
  <2>2. MembersInv(w) /\ ResultInv(w)
    BY <1>1, <2>1 DEF RouteInvOf, Reading, Looking
  <2>3. ResultInv(w)'
    BY <1>1, <2>2, AnswerSteady DEF ResultInv
  <2>4. ASSUME Answerable(w, leg[w])
        PROVE  /\ json' = NoRoute
               /\ pc'[w] = "numbers" => found[w] = <<>> /\ place[w] = 0
               /\ pc'[w] = "edit" => json' = Answer(w, leg[w])
    <3>1. json_tables = "tables" /\ json_gateway \in Counts
      BY <1>1, <2>2, <2>4 DEF MembersInv, Answerable, Looking
    <3>2. Asked(w) # NoCaller /\ Route(w) = RouteOf[Asked(w)]
      BY <2>4, AnswerShape DEF Answerable
    <3>3. ~LookupReturnsEarly(w)
      BY <3>1, <3>2, GatewayAssumption DEF LookupReturnsEarly
    <3>4. json' = NoRoute /\ pc'[w] = AfterSizes(w)
      BY <1>0, <3>3 DEF Lookup, Goto
    <3>5. pc'[w] = "edit" => Answer(w, leg[w]) = <<>>
      <4>1. pc'[w] = "edit" => Len(Answer(w, leg[w])) = 0
        BY <2>4, <3>1, <3>2, <3>4, AnswerShape, EmptySeq DEF AfterSizes
      <4> QED
        BY <2>4, <4>1, AnswerShape, EmptySeq
    <3> QED
      BY <1>0, <1>1, <3>4, <3>5 DEF LoopInvOf, NoRoute
  <2>5. MembersInv(w)'
    <3>1. Answerable(w, leg[w])' <=> Answerable(w, leg[w])
      BY <1>1, AnswerSteady
    <3>2. Answer(w, leg[w])' = Answer(w, leg[w])
      BY <1>1, AnswerSteady
    <3>3. ASSUME Answerable(w, leg[w]), pc'[w] = "numbers" PROVE NumbersInv(w)'
      BY <1>1, <2>4, <3>3, EmptySeq DEF NumbersInv
    <3> QED
      BY <1>1, <2>2, <2>4, <3>1, <3>2, <3>3 DEF MembersInv, Looking
  <2> QED
    BY <2>3, <2>5
<1> QED
  BY <1>1, <1>2, <1>3 DEF RouteInvOf, Reading, Looking

(* ... a number of the caller, ...                                         *)
LEMMA OwnNumber ==
  ASSUME TypeOK, LoopInv, NEW w \in Session, RouteInvOf(w), FindNumber(w),
         op[w].kind \in {"route", "routeEx"}
  PROVE  RouteInvOf(w)'
<1> DEFINE k == place[w] + 1
<1>0. /\ w \in Worker /\ DOMAIN pc = Worker /\ LoopInvOf(w)
      /\ DOMAIN found = Worker /\ DOMAIN place = Worker
      /\ found[w] \in Seq(GatewayId) /\ place[w] \in Nat
  BY DEF TypeOK, LoopInv, Worker
<1>1. /\ pc[w] = "numbers" /\ pc'[w] \in {"numbers", "gateways", "edit"}
      /\ UNCHANGED <<redisTables, json_gateway, json, op, leg, size, result, edits,
                     seen>>
      /\ touched'[w] = touched[w]
      /\ json_tables = "tables" => json_tables' = "tables"
  BY <1>0, GatewayAssumption DEF FindNumber, Goto, Disturb, Indexed, redis, TypeOK
<1>2. LegInv(w)'
  BY <1>1 DEF RouteInvOf, LegInv
<1>3. ASSUME ~touched'[w] PROVE MembersInv(w)' /\ ResultInv(w)'
  <2>1. MembersInv(w) /\ ResultInv(w)
    BY <1>1, <1>3 DEF RouteInvOf, Reading, Looking
  <2>2. ResultInv(w)'
    BY <1>1, <2>1, AnswerSteady DEF ResultInv
  <2>3. ASSUME Answerable(w, leg[w])
        PROVE  \/ pc'[w] = "numbers" /\ NumbersInv(w)'
               \/ pc'[w] = "gateways" /\ GatewaysInv(w)'
    <3>1. /\ Route(w) \in Seq(GatewayId) /\ Len(Route(w)) \in Nat
          /\ Route(w) = RouteOf[Asked(w)] /\ Route(w)' = Route(w)
      BY <1>1, <2>3, AnswerShape, AnswerSteady
    <3>2. k \in 1..Len(Route(w)) /\ Route(w)[k] \in GatewayId
      <4>1. place[w] < Len(Route(w))
        BY <3>1 DEF FindNumber
      <4>2. k \in 1..Len(Route(w))
        BY <1>0, <3>1, <4>1
      <4> QED
        BY <3>1, <4>2, ElementOfSeq
    <3>3. json_tables = "tables" /\ NumbersInv(w)
      BY <1>1, <2>1, <2>3 DEF MembersInv, Looking, Answerable
    <3> DEFINE numbers == Append(found[w], Route(w)[k])
    <3>4. /\ numbers \in Seq(GatewayId) /\ Len(numbers) = k
          /\ \A i \in 1..k : numbers[i] = Route(w)[i]
      <4>1. Len(found[w]) = place[w]
        BY <3>3 DEF NumbersInv
      <4>2. /\ numbers \in Seq(GatewayId) /\ Len(numbers) = k
            /\ numbers[k] = Route(w)[k]
            /\ \A i \in 1..place[w] : numbers[i] = found[w][i]
        BY <1>0, <3>2, <4>1, AppendProperties
      <4>3. \A i \in 1..place[w] : found[w][i] = Route(w)[i]
        BY <3>3 DEF NumbersInv
      <4> HIDE DEF numbers
      <4>4. \A i \in 1..k : i = k \/ i \in 1..place[w]
        BY <1>0
      <4> QED
        BY <4>2, <4>3, <4>4
    <3>5. numbers # <<>>
      BY <1>0, <3>4, EmptySeq
    <3>6. /\ found'[w] = numbers
          /\ place'[w] = IF k < Len(Route(w)) THEN k ELSE 0
          /\ pc'[w] = IF k < Len(Route(w)) THEN "numbers"
                      ELSE IF numbers = <<>> THEN "edit" ELSE "gateways"
      BY <1>0, <3>1, <3>3 DEF FindNumber, Goto
    <3> HIDE DEF numbers
    <3>7. CASE k < Len(Route(w))
      <4>1. found'[w] = numbers /\ place'[w] = k /\ pc'[w] = "numbers"
        BY <3>6, <3>7
      <4>2. json' = NoRoute
        BY <1>1, <3>3 DEF NumbersInv
      <4> QED
        BY <3>1, <3>4, <4>1, <4>2 DEF NumbersInv
    <3>8. CASE ~(k < Len(Route(w)))
      <4>1. k = Len(Route(w))
        BY <3>1, <3>2, <3>8
      <4>2. numbers = Route(w)
        BY <3>1, <3>4, <4>1, SeqEqual
      <4>3. found'[w] = Route(w) /\ place'[w] = 0 /\ pc'[w] = "gateways"
        BY <3>5, <3>6, <3>8, <4>2
      <4>4. size'[w] = 0 /\ Len(json') = 0
        BY <1>0, <1>1, <3>3, EmptySeq DEF LoopInvOf, NumbersInv, NoRoute
      <4> QED
        BY <3>1, <4>3, <4>4 DEF GatewaysInv
    <3> QED
      BY <3>7, <3>8
  <2>4. MembersInv(w)'
    <3>1. Answerable(w, leg[w])' <=> Answerable(w, leg[w])
      BY <1>1, AnswerSteady
    <3> QED
      BY <1>1, <2>1, <2>3, <3>1 DEF MembersInv, Looking
  <2> QED
    BY <2>2, <2>4
<1> QED
  BY <1>1, <1>2, <1>3 DEF RouteInvOf, Reading, Looking

(* ... a gateway of these numbers, ...                                     *)
LEMMA OwnGateway ==
  ASSUME TypeOK, NEW w \in Session, RouteInvOf(w), AddGateway(w),
         op[w].kind \in {"route", "routeEx"}
  PROVE  RouteInvOf(w)'
<1> DEFINE k == place[w] + 1
<1>0. /\ w \in Worker /\ DOMAIN pc = Worker
      /\ DOMAIN found = Worker /\ DOMAIN place = Worker /\ DOMAIN size = Worker
      /\ json \in Seq(Entry) /\ place[w] \in Nat
  BY DEF TypeOK, Worker
<1>1. /\ pc[w] = "gateways" /\ pc'[w] \in {"gateways", "edit"}
      /\ UNCHANGED <<redisTables, json_tables, op, leg, result, edits, seen>>
      /\ touched'[w] = touched[w]
      /\ json_gateway \in Counts => json_gateway' = json_gateway
  BY <1>0, GatewayAssumption DEF AddGateway, Goto, Disturb, Indexed, redis, TypeOK
<1>2. LegInv(w)'
  BY <1>1 DEF RouteInvOf, LegInv
<1>3. ASSUME ~touched'[w] PROVE MembersInv(w)' /\ ResultInv(w)'
  <2>1. MembersInv(w) /\ ResultInv(w)
    BY <1>1, <1>3 DEF RouteInvOf, Reading, Looking
  <2>2. ResultInv(w)'
    BY <1>1, <2>1, AnswerSteady DEF ResultInv
  <2>3. ASSUME Answerable(w, leg[w])
        PROVE  \/ pc'[w] = "gateways" /\ GatewaysInv(w)'
               \/ pc'[w] = "edit" /\ json' = Answer(w, leg[w])
    <3> DEFINE answer == Answer(w, leg[w])
    <3>1. /\ Route(w) \in Seq(GatewayId) /\ Len(Route(w)) \in Nat
          /\ answer \in Seq(Entry) /\ Len(answer) = Len(Route(w))
          /\ \A i \in 1..Len(Route(w)) :
               answer[i] = [route_id |-> Route(w)[i],
                            currentsessions |-> seen[w][Route(w)[i]]]
      BY <2>3, AnswerShape
    <3>2. Route(w)' = Route(w) /\ Answer(w, leg[w])' = answer
      BY <1>1, AnswerSteady
    <3>3. json_gateway = seen[w] /\ json_gateway \in Counts /\ GatewaysInv(w)
      BY <1>1, <2>1, <2>3 DEF MembersInv, Looking, Answerable
    <3>4. found[w] = Route(w) /\ size[w] = place[w] /\ Len(json) = place[w]
      BY <3>3 DEF GatewaysInv
    <3>5. k \in 1..Len(Route(w))
      <4>1. place[w] < Len(Route(w))
        BY <3>4 DEF AddGateway
      <4> QED
        BY <1>0, <3>1, <4>1
    <3> HIDE DEF answer
    <3>6. json' = Placed(json, k, answer[k])
      <4>1. answer[k] = [route_id |-> found[w][k],
                         currentsessions |-> json_gateway[found[w][k]]]
        BY <3>1, <3>3, <3>4, <3>5
      <4> QED
        BY <3>3, <3>4, <4>1 DEF AddGateway
    <3>7. /\ json' \in Seq(Entry) /\ Len(json') = k
          /\ \A i \in 1..k : json'[i] = answer[i]
      <4>1. answer[k] \in Entry
        BY <3>1, <3>5, ElementOfSeq
      <4>2. k \in Nat \ {0} /\ k = Len(json) + 1
        BY <1>0, <3>4
      <4>3. /\ json' \in Seq(Entry) /\ Len(json') = k /\ json'[k] = answer[k]
            /\ \A i \in 1..place[w] : json'[i] = json[i]
        <5>1. Placed(json, k, answer[k]) \in Seq(Entry)
          BY <1>0, <4>1, <4>2, PlacedType
        <5>2. /\ Len(Placed(json, k, answer[k])) = k
              /\ Placed(json, k, answer[k])[k] = answer[k]
              /\ \A i \in 1..Len(json) : Placed(json, k, answer[k])[i] = json[i]
          BY <1>0, <4>1, <4>2, PlacedBehind
        <5> QED
          BY <3>4, <3>6, <5>1, <5>2
      <4>4. \A i \in 1..place[w] : json[i] = answer[i]
        BY <3>3 DEF GatewaysInv, answer
      <4>5. \A i \in 1..k : i = k \/ i \in 1..place[w]
        BY <1>0
      <4> QED
        BY <4>3, <4>4, <4>5
    <3>8. CASE k # Len(Route(w))
      <4>1. /\ pc'[w] = "gateways" /\ found'[w] = found[w]
            /\ place'[w] = k /\ size'[w] = k
        BY <1>0, <3>3, <3>4, <3>8 DEF AddGateway, Goto
      <4> QED
        BY <3>2, <3>4, <3>7, <4>1 DEF GatewaysInv
    <3>9. CASE k = Len(Route(w))
      <4>1. pc'[w] = "edit"
        BY <1>0, <3>4, <3>9 DEF AddGateway, Goto
      <4>2. json' = answer
        BY <3>1, <3>7, <3>9, SeqEqual
      <4> QED
        BY <4>1, <4>2 DEF answer
    <3> QED
      BY <3>8, <3>9
  <2>4. MembersInv(w)'
    <3>1. /\ Answerable(w, leg[w])' <=> Answerable(w, leg[w])
          /\ Answer(w, leg[w])' = Answer(w, leg[w])
      BY <1>1, AnswerSteady
    <3> QED
      BY <1>1, <2>1, <2>3, <3>1 DEF MembersInv, Looking
  <2> QED
    BY <2>2, <2>4
<1> QED
  BY <1>1, <1>2, <1>3 DEF RouteInvOf, Reading, Looking

(* ... the start of the edits, ...                                         *)
LEMMA OwnEdit ==
  ASSUME TypeOK, LoopInv, NEW w \in Session, RouteInvOf(w), Edit(w),
         op[w].kind \in {"route", "routeEx"}
  PROVE  RouteInvOf(w)'
<1>0. /\ w \in Worker /\ DOMAIN pc = Worker /\ DOMAIN size = Worker
      /\ leg[w] \in {1, 2} /\ edits \in [Worker -> Seq(SUBSET Nat)]
      /\ edits[w] \in Seq(SUBSET Nat) /\ json \in Seq(Entry) /\ LoopInvOf(w)
  BY DEF TypeOK, LoopInv, Worker
<1>1. /\ pc[w] = "edit"
      /\ \/ json = <<>> /\ pc'[w] = "result"
         \/ json # <<>> /\ pc'[w] = "editing"
      /\ UNCHANGED <<redisTables, json_tables, json_gateway, json, op, leg, place,
                     result, seen, touched>>
      /\ edits'[w] = Append(edits[w], {}) /\ size'[w] = Len(json)
  BY <1>0 DEF Edit, AfterEdit, Goto, redis, members, reading
<1>2. /\ Len(edits[w]) = leg[w] - 1 /\ Len(edits'[w]) = leg[w]
      /\ DOMAIN edits'[w] = 1..leg[w] /\ DOMAIN edits[w] = 1..(leg[w] - 1)
      /\ edits'[w][leg[w]] = {}
      /\ \A i \in 1..(leg[w] - 1) : edits'[w][i] = edits[w][i]
  <2>1. Len(edits[w]) = leg[w] - 1
    BY <1>1 DEF RouteInvOf, LegInv
  <2> QED
    BY <1>0, <1>1, <2>1, AppendProperties, LenProperties
<1>3. LegInv(w)'
  BY <1>1, <1>2 DEF RouteInvOf, LegInv
<1>4. ASSUME ~touched'[w] PROVE MembersInv(w)' /\ ResultInv(w)'
  <2>1. MembersInv(w) /\ ResultInv(w)
    BY <1>1, <1>4 DEF RouteInvOf, Reading, Looking
  <2>2. /\ \A i : Answerable(w, i)' <=> Answerable(w, i)
        /\ \A i : Answer(w, i)' = Answer(w, i)
    BY <1>1, AnswerSteady
  <2>3. Answerable(w, leg[w]) => json = Answer(w, leg[w])
    BY <1>1, <2>1 DEF MembersInv
  <2>4. {} = {i \in WithCapacity(json) : i <= place[w]}
    <3>1. WithCapacity(json) \subseteq 1..Len(json) /\ Len(json) \in Nat
      BY <1>0, LenProperties DEF WithCapacity
    <3>2. place[w] = 0
      BY <1>0, <1>1 DEF LoopInvOf
    <3> QED
      BY <3>1, <3>2
  <2>5. EditingInv(w)'
    BY <1>1, <1>2, <2>4 DEF EditingInv, WithCapacity, HasCapacity
  <2>6. MembersInv(w)'
    BY <1>1, <2>1, <2>2, <2>3, <2>5 DEF MembersInv, Looking
  <2>7. ASSUME NEW i \in DOMAIN edits'[w], Answerable(w, i),
               ~(pc'[w] = "editing" /\ i = leg[w])
        PROVE  edits'[w][i] = WithCapacity(Answer(w, i))
    <3>1. CASE i = leg[w]
      <4>1. Answer(w, i) = <<>>
        BY <1>1, <2>3, <2>7, <3>1
      <4>2. WithCapacity(<<>>) = {}
        BY DEF WithCapacity
      <4> QED
        BY <1>2, <3>1, <4>1, <4>2
    <3>2. CASE i # leg[w]
      <4>1. i \in 1..(leg[w] - 1)
        BY <1>0, <1>2, <3>2
      <4> QED
        BY <1>1, <1>2, <2>1, <2>7, <4>1 DEF ResultInv
    <3> QED
      BY <3>1, <3>2
  <2>8. ResultInv(w)'
    BY <1>1, <2>1, <2>2, <2>7 DEF ResultInv
  <2> QED
    BY <2>6, <2>8
<1> QED
  BY <1>1, <1>3, <1>4 DEF RouteInvOf, Reading, Looking

(* ... an entry of json, ...                                               *)
LEMMA OwnEntry ==
  ASSUME TypeOK, NEW w \in Session, RouteInvOf(w), EditEntry(w),
         op[w].kind \in {"route", "routeEx"}
  PROVE  RouteInvOf(w)'
<1> DEFINE k == place[w] + 1
           more == {k} \cap WithCapacity(json)
<1>0. /\ w \in Worker /\ DOMAIN pc = Worker
      /\ DOMAIN size = Worker /\ DOMAIN place = Worker
      /\ leg[w] \in {1, 2} /\ edits \in [Worker -> Seq(SUBSET Nat)]
      /\ edits[w] \in Seq(SUBSET Nat) /\ json \in Seq(Entry) /\ place[w] \in Nat
  BY DEF TypeOK, Worker
<1>1. /\ pc[w] = "editing" /\ pc'[w] \in {"editing", "result"}
      /\ UNCHANGED <<redisTables, json_tables, json_gateway, op, leg, result, seen>>
      /\ touched'[w] = touched[w]
  BY <1>0 DEF EditEntry, AfterEdit, Disturb, Goto, redis, TypeOK
<1>2. /\ Len(edits'[w]) = leg[w]
      /\ DOMAIN edits'[w] = 1..leg[w] /\ DOMAIN edits[w] = 1..leg[w]
      /\ edits'[w][leg[w]] = edits[w][leg[w]] \cup more
      /\ \A i \in 1..leg[w] : i # leg[w] => edits'[w][i] = edits[w][i]
  <2>1. Len(edits[w]) = leg[w] /\ DOMAIN edits[w] = 1..leg[w]
    <3>1. Len(edits[w]) = leg[w]
      BY <1>1 DEF RouteInvOf, LegInv
    <3> QED
      BY <1>0, <3>1, LenProperties
  <2>2. edits'[w] = [edits[w] EXCEPT ![leg[w]] = @ \cup more]
    BY <1>0 DEF EditEntry
  <2>3. leg[w] \in 1..Len(edits[w]) /\ more \in SUBSET Nat
    BY <1>0, <2>1
  <2>4. edits[w][leg[w]] \cup more \in SUBSET Nat
    BY <1>0, <2>3, ElementOfSeq
  <2>5. edits'[w] \in Seq(SUBSET Nat) /\ Len(edits'[w]) = leg[w]
    BY <1>0, <2>1, <2>2, <2>3, <2>4, ExceptSeq
  <2>6. DOMAIN edits'[w] = 1..leg[w]
    BY <2>5, LenProperties
  <2> HIDE DEF more
  <2> QED
    BY <2>1, <2>2, <2>3, <2>5, <2>6
<1>3. LegInv(w)'
  BY <1>1, <1>2 DEF RouteInvOf, LegInv
<1>4. ASSUME ~touched'[w] PROVE MembersInv(w)' /\ ResultInv(w)'
  <2>1. MembersInv(w) /\ ResultInv(w)
    BY <1>1, <1>4 DEF RouteInvOf, Reading, Looking
  <2>2. /\ \A i : Answerable(w, i)' <=> Answerable(w, i)
        /\ \A i : Answer(w, i)' = Answer(w, i)
    BY <1>1, AnswerSteady
  <2>3. ASSUME Answerable(w, leg[w])
        PROVE  /\ json = Answer(w, leg[w]) /\ json' = json
               /\ \/ pc'[w] = "editing" /\ EditingInv(w)'
                  \/ /\ pc'[w] = "result"
                     /\ edits'[w][leg[w]] = WithCapacity(json)
    <3>1. json = Answer(w, leg[w]) /\ EditingInv(w)
      BY <1>1, <2>1, <2>3 DEF MembersInv
    <3>2. WithCapacity(json) \subseteq 1..Len(json) /\ Len(json) \in Nat
      BY <1>0, LenProperties DEF WithCapacity
    <3>3. k <= Len(json) /\ size[w] = Len(json)
      <4>1. place[w] < size[w]
        BY DEF EditEntry
      <4>2. size[w] = Len(json)
        BY <3>1 DEF EditingInv
      <4> QED
        BY <1>0, <3>2, <4>1, <4>2
    <3>4. json' = json
      BY <3>3 DEF EditEntry
    <3>5. edits'[w][leg[w]] = {i \in WithCapacity(json) : i <= k}
      <4>1. edits[w][leg[w]] = {i \in WithCapacity(json) : i <= place[w]}
        BY <3>1 DEF EditingInv
      <4>2. \A i \in WithCapacity(json) : i <= k <=> i <= place[w] \/ i = k
        BY <1>0, <3>2
      <4>3. {i \in WithCapacity(json) : i <= place[w]} \cup more
              = {i \in WithCapacity(json) : i <= k}
        BY <4>2
      <4> QED
        BY <1>2, <4>1, <4>3
    <3>6. CASE k # size[w]
      <4>1. pc'[w] = "editing" /\ place'[w] = k /\ size'[w] = size[w]
        BY <1>0, <3>6 DEF EditEntry, Goto
      <4> QED
        BY <1>1, <3>1, <3>3, <3>4, <3>5, <4>1
           DEF EditingInv, WithCapacity, HasCapacity
    <3>7. CASE k = size[w]
      <4>1. pc'[w] = "result"
        BY <1>0, <3>7 DEF EditEntry, AfterEdit, Goto
      <4>2. \A i \in WithCapacity(json) : i <= k
        BY <3>2, <3>3, <3>7
      <4>3. {i \in WithCapacity(json) : i <= k} = WithCapacity(json)
        BY <4>2
      <4> QED
        BY <3>1, <3>4, <3>5, <4>1, <4>3
    <3> QED
      BY <3>1, <3>4, <3>6, <3>7
  <2>4. MembersInv(w)'
    BY <1>1, <2>1, <2>2, <2>3 DEF MembersInv, Looking
  <2>5. ASSUME NEW i \in DOMAIN edits'[w], Answerable(w, i),
               ~(pc'[w] = "editing" /\ i = leg[w])
        PROVE  edits'[w][i] = WithCapacity(Answer(w, i))
    <3>1. CASE i = leg[w]
      BY <2>3, <2>5, <3>1
    <3>2. CASE i # leg[w]
      BY <1>1, <1>2, <2>1, <2>5, <3>2 DEF ResultInv
    <3> QED
      BY <3>1, <3>2
  <2>6. ResultInv(w)'
    BY <1>1, <2>1, <2>2, <2>5 DEF ResultInv
  <2> QED
    BY <2>4, <2>6
<1> QED
  BY <1>1, <1>3, <1>4 DEF RouteInvOf, Reading, Looking

(* ... and all of them.                                                    *)
LEMMA OwnSteps ==
  ASSUME TypeOK, LoopInv, NEW w \in Session, RouteInvOf(w), Step(w),
         op[w].kind \in {"route", "routeEx"}
  PROVE  RouteInvOf(w)'
<1> USE DEF Goto
<1>0. /\ w \in Worker /\ DOMAIN pc = Worker /\ leg[w] \in {1, 2}
      /\ leg \in [Worker -> {1, 2}] /\ seen \in [Worker -> Gateways]
      /\ result[w] \in Seq(Seq(Entry)) /\ edits[w] \in Seq(SUBSET Nat)
      /\ result \in [Worker -> Seq(Seq(Entry))]
      /\ edits \in [Worker -> Seq(SUBSET Nat)] /\ json \in Seq(Entry)
  BY DEF TypeOK, Worker
<1>1. pc[w] \in Reading \cup {"clear"} /\ LegInv(w)
  BY DEF RouteInvOf
<1>2. ASSUME ~touched[w], pc[w] \in Reading PROVE MembersInv(w) /\ ResultInv(w)
  BY <1>2 DEF RouteInvOf
<1>3. CASE Clear(w) \/ LoadTables(w) \/ LoadGateway(w)
  <2>1. /\ result[w] = <<>> /\ edits[w] = <<>> /\ leg[w] = 1
        /\ result' = result /\ edits' = edits /\ leg' = leg /\ op' = op
    BY <1>1, <1>3 DEF Clear, LoadTables, LoadGateway, LegInv, locals
  <2>2. ResultInv(w)'
    BY <2>1 DEF ResultInv
  <2>3. pc'[w] \in {"loadTables", "loadGateway", "lookup"}
    BY <1>0, <1>3 DEF Clear, LoadTables, LoadGateway
  <2>4. LegInv(w)'
    BY <2>1, <2>3, EmptySeq DEF LegInv
  <2>5. ASSUME ~touched'[w] PROVE MembersInv(w)'
    <3>1. CASE Clear(w)
      BY <1>0, <3>1 DEF Clear, MembersInv, Looking
    <3>2. CASE LoadTables(w)
      <4>1. pc'[w] = "loadGateway"
        BY <1>0, <3>2 DEF LoadTables
      <4>2. redisTables' = "tables" => json_tables' = "tables"
        <5>1. json_tables' = Loaded(redisTables, json_tables)
          BY <1>0, <2>5, <3>2 DEF LoadTables, TypeOK
        <5> QED
          BY <3>2, <5>1, GatewayAssumption DEF LoadTables, Loaded, redis
      <4> QED
        BY <4>1, <4>2 DEF MembersInv, Looking
    <3>3. CASE LoadGateway(w)
      <4>1. pc[w] = "loadGateway" /\ pc'[w] = "lookup"
        BY <1>0, <2>3, <3>3 DEF LoadGateway
      <4>5. /\ json_gateway' = Loaded(redisGateway, json_gateway)
            /\ seen' = [seen EXCEPT ![w] = redisGateway]
            /\ Disturb(w)
        BY <1>0, <2>5, <3>3 DEF LoadGateway, TypeOK
      <4>2. touched'[w] = touched[w]
        BY <1>0, <4>5 DEF Disturb, TypeOK
      <4>3. redisTables' = "tables" => json_tables' = "tables"
        BY <1>2, <2>5, <3>3, <4>1, <4>2
           DEF LoadGateway, MembersInv, Reading, Looking, redis
      <4>4. seen'[w] \in Counts => json_gateway' = seen'[w]
        BY <1>0, <4>5, GatewayAssumption DEF Loaded
      <4> QED
        BY <4>1, <4>3, <4>4 DEF MembersInv, Looking
    <3> QED
      BY <1>3, <3>1, <3>2, <3>3
  <2> QED
    BY <2>2, <2>3, <2>4, <2>5 DEF RouteInvOf, Reading, Looking
<1>4. CASE Lookup(w) \/ FindNumber(w) \/ AddGateway(w)
  BY <1>4, OwnLookup, OwnNumber, OwnGateway
<1>5. CASE Edit(w) \/ EditEntry(w)
  BY <1>5, OwnEdit, OwnEntry
<1>6. CASE GetResult(w)
  <2>1. /\ pc[w] = "result"
        /\ UNCHANGED <<redisTables, json_tables, json_gateway, json, op, edits,
                       seen, touched>>
        /\ result'[w] = Append(result[w], json)
    BY <1>0, <1>6 DEF GetResult, redis, members, reading
  <2>2. \/ pc'[w] = "lookup" /\ leg[w] = 1 /\ leg'[w] = 2
        \/ pc'[w] = "reply" /\ leg'[w] = leg[w]
    BY <1>0, <1>6 DEF GetResult
  <2>3. /\ Len(result'[w]) = leg[w] /\ Len(edits[w]) = leg[w]
        /\ DOMAIN result'[w] = 1..leg[w] /\ DOMAIN result[w] = 1..(leg[w] - 1)
        /\ result'[w][leg[w]] = json
        /\ \A i \in 1..(leg[w] - 1) : result'[w][i] = result[w][i]
    <3>1. Len(result[w]) = leg[w] - 1 /\ Len(edits[w]) = leg[w]
      BY <1>1, <2>1 DEF LegInv
    <3> QED
      BY <1>0, <2>1, <3>1, AppendProperties, LenProperties
  <2>4. LegInv(w)'
    BY <1>0, <2>1, <2>2, <2>3 DEF LegInv
  <2>5. ASSUME ~touched'[w] PROVE MembersInv(w)' /\ ResultInv(w)'
    <3>1. MembersInv(w) /\ ResultInv(w)
      BY <1>2, <2>1, <2>5 DEF Reading, Looking
    <3>2. MembersInv(w)'
      <4>1. /\ pc'[w] \in Looking => pc'[w] = "lookup"
            /\ pc'[w] \notin {"loadGateway", "numbers", "gateways", "edit",
                             "editing", "result"}
        BY <2>2 DEF Looking
      <4> QED
        BY <2>1, <3>1, <4>1 DEF MembersInv, Looking
    <3>3. Answerable(w, leg[w]) => json = Answer(w, leg[w])
      BY <2>1, <3>1 DEF MembersInv
    <3>4. \A i \in DOMAIN result'[w] :
            Answerable(w, i) => result'[w][i] = Answer(w, i)
      <4> SUFFICES ASSUME NEW i \in 1..leg[w], Answerable(w, i)
                   PROVE  result'[w][i] = Answer(w, i)
        BY <2>3
      <4>1. CASE i = leg[w]
        BY <2>3, <3>3, <4>1
      <4>2. CASE i # leg[w]
        <5>1. i \in 1..(leg[w] - 1)
          BY <1>0, <4>2
        <5> QED
          BY <2>3, <3>1, <5>1 DEF ResultInv
      <4> QED
        BY <4>1, <4>2
    <3>5. \A i : (Answerable(w, i)' <=> Answerable(w, i)) /\ Answer(w, i)' = Answer(w, i)
      BY <2>1 DEF Answerable, Answer, CallerOf
    <3> QED
      BY <2>1, <3>1, <3>2, <3>4, <3>5 DEF ResultInv
  <2> QED
    BY <2>1, <2>2, <2>4, <2>5 DEF RouteInvOf, Reading, Looking
<1>7. CASE Reply(w)
  BY <1>0, <1>7 DEF Reply, Startup, RouteInvOf, TypeOK
<1>8. CASE \/ GetGateway(w) \/ GetGatewayFails(w) \/ GetGatewayRejected(w)
          \/ SetGateway(w) \/ SetGatewayFails(w)
  BY <1>1, <1>8 DEF GetGateway, GetGatewayFails, GetGatewayRejected, SetGateway,
                    SetGatewayFails, Reading, Looking
<1> QED
  BY <1>3, <1>4, <1>5, <1>6, <1>7, <1>8 DEF Step

(* What a route request relies on holds at each of its steps.              *)
LEMMA RouteCorrect == Spec => []RouteInv
<1> USE GatewayAssumption
<1>1. Init => RouteInv
  BY DEF Init, RouteInv, RouteInvOf, Startup, Worker
<1>2. TypeOK /\ ConfigInv /\ LoopInv /\ RouteInv /\ [Next]_vars => RouteInv'
  <2> SUFFICES ASSUME TypeOK, ConfigInv, LoopInv, RouteInv, [Next]_vars,
                      NEW w \in Session
               PROVE  RouteInvOf(w)'
    BY DEF RouteInv
  <2>0. RouteInvOf(w) /\ w \in Worker
    BY DEF RouteInv, Worker
  <2>1. CASE Apart(w)
    <3>1. /\ pc'[w] = pc[w] /\ op'[w] = op[w] /\ leg'[w] = leg[w]
          /\ found'[w] = found[w] /\ place'[w] = place[w] /\ size'[w] = size[w]
          /\ result'[w] = result[w] /\ edits'[w] = edits[w] /\ seen'[w] = seen[w]
          /\ pc[w] \in Reading => redisTables' = redisTables
      BY <2>1 DEF Apart
    <3>2. LegInv(w) => LegInv(w)'
      BY <3>1 DEF LegInv
    <3>3. ASSUME ~touched'[w], pc[w] \in Reading, MembersInv(w), ResultInv(w)
          PROVE  MembersInv(w)' /\ ResultInv(w)'
      <4>1. UNCHANGED <<json_tables, json_gateway, json, redisTables>>
        BY <2>1, <3>1, <3>3 DEF Apart, members
      <4>2. /\ \A i : Answerable(w, i)' <=> Answerable(w, i)
            /\ \A i : Answer(w, i)' = Answer(w, i)
            /\ Route(w)' = Route(w)
        BY <3>1, <4>1, AnswerSteady
      <4>3. NumbersInv(w)' <=> NumbersInv(w)
        BY <3>1, <4>1, <4>2 DEF NumbersInv
      <4>4. GatewaysInv(w)' <=> GatewaysInv(w)
        BY <3>1, <4>1, <4>2 DEF GatewaysInv
      <4>5. EditingInv(w)' <=> EditingInv(w)
        BY <3>1, <4>1 DEF EditingInv, WithCapacity, HasCapacity
      <4>6. MembersInv(w)'
        BY <3>1, <3>3, <4>1, <4>2, <4>3, <4>4, <4>5 DEF MembersInv
      <4>7. ResultInv(w)'
        BY <3>1, <3>3, <4>2 DEF ResultInv
      <4> QED
        BY <4>6, <4>7
    <3>4. ~touched'[w] => ~touched[w]
      BY <2>1 DEF Apart
    <3> QED
      BY <2>0, <3>1, <3>2, <3>3, <3>4 DEF RouteInvOf
  <2>2. ASSUME NEW r \in Request, Begin(w, r) PROVE RouteInvOf(w)'
    <3>1. /\ pc'[w] = "clear" /\ leg'[w] = 1
          /\ result'[w] = <<>> /\ edits'[w] = <<>>
      BY <2>0, <2>2 DEF Begin, Goto, TypeOK
    <3> QED
      BY <3>1 DEF RouteInvOf, LegInv, Reading, Looking
  <2>3. CASE Step(w)
    <3>1. CASE op[w].kind \in {"route", "routeEx"}
      BY <2>0, <2>3, <3>1, OwnSteps
    <3>2. CASE op[w].kind \notin {"route", "routeEx"}
      <4>1. op'[w] = op[w] \/ op'[w] = Startup
        BY <2>0, <2>3 DEF Step, Clear, LoadTables, LoadGateway, Lookup, FindNumber,
           AddGateway, Edit, EditEntry, GetResult, GetGateway, GetGatewayFails,
           GetGatewayRejected, SetGateway, SetGatewayFails, Reply, locals, TypeOK
      <4> QED
        BY <3>2, <4>1 DEF RouteInvOf, Startup
    <3> QED
      BY <3>1, <3>2
  <2>4. CASE Restart
    BY <2>0, <2>4 DEF Restart, RouteInvOf, Startup
  <2> QED
    BY <2>1, <2>2, <2>3, <2>4, OthersApart
<1>3. QED
  BY <1>1, <1>2, TypeCorrect, ConfigCorrect, LoopsCorrect, PTL DEF Spec

(* A lookup no other thread came between is answered from the caller's own *)
(* gateways with the counts the thread read, for every table and however   *)
(* many threads there are.                                                 *)
THEOREM RouteUndisturbed == Spec => []UndisturbedRoute
<1>1. TypeOK /\ RouteInv => UndisturbedRoute
  <2> SUFFICES ASSUME TypeOK, RouteInv, NEW w \in Session, pc[w] = "reply",
                      op[w].kind \in {"route", "routeEx"}, ~touched[w],
                      NEW i \in DOMAIN result[w],
                      CallerOf(w, i) # NoCaller, seen[w] \in Counts,
                      redisTables = "tables"
               PROVE  /\ result[w][i] = Answer(w, i)
                      /\ edits[w][i] = WithCapacity(Answer(w, i))
    BY DEF UndisturbedRoute, CallerOf, Answer
  <2>1. ResultInv(w) /\ LegInv(w)
    BY DEF RouteInv, RouteInvOf, Reading, Looking
  <2>2. Answerable(w, i)
    BY DEF Answerable
  <2>3. DOMAIN edits[w] = DOMAIN result[w]
    <3>1. result[w] \in Seq(Seq(Entry)) /\ edits[w] \in Seq(SUBSET Nat)
      BY DEF TypeOK, Worker
    <3> QED
      BY <2>1, <3>1, LenProperties DEF LegInv
  <2> QED
    BY <2>1, <2>2, <2>3 DEF ResultInv
<1> QED
  BY <1>1, TypeCorrect, RouteCorrect, PTL
-----------------------------------------------------------------------------
(* Where a thread is with its request, and which leg of it.                *)
LegsInvOf(w) ==
  /\ op[w].kind = "startup" => pc[w] = "idle"
  /\ op[w].kind \in {"used", "end"} =>
       /\ pc[w] \in {"clear", "loadTables", "loadGateway", "get", "set", "reply"}
       /\ result[w] = <<>> /\ edits[w] = <<>>
  /\ op[w].kind = "route" => leg[w] = 1
  /\ op[w].kind = "routeEx" /\ pc[w] = "reply" => leg[w] = 2

LegsInv == \A w \in Session : LegsInvOf(w)

(* A thread's own step takes it through the legs of its request in turn.   *)
LEMMA OwnLegs ==
  ASSUME TypeOK, NEW w \in Session, RouteInvOf(w), LegsInvOf(w), Step(w)
  PROVE  LegsInvOf(w)'
<1> USE DEF Goto, LegsInvOf
<1>0. /\ w \in Worker /\ w # Main /\ pc[w] # "idle"
      /\ op[w].kind \in {"route", "routeEx", "used", "end"}
      /\ leg[w] \in {1, 2} /\ DOMAIN pc = Worker /\ DOMAIN op = Worker
      /\ DOMAIN leg = Worker /\ DOMAIN result = Worker /\ DOMAIN edits = Worker
  <2>1. w \in Worker /\ w # Main
    BY GatewayAssumption DEF Worker
  <2>2. pc[w] # "idle"
    BY DEF Step, Clear, LoadTables, LoadGateway, Lookup, FindNumber, AddGateway,
           Edit, EditEntry, GetResult, GetGateway, GetGatewayFails,
           GetGatewayRejected, SetGateway, SetGatewayFails, Reply
  <2> QED
    BY <2>1, <2>2 DEF TypeOK, Operation
<1>1. CASE Clear(w) \/ LoadTables(w) \/ LoadGateway(w)
  BY <1>0, <1>1 DEF Clear, LoadTables, LoadGateway, locals
<1>2. CASE Lookup(w) \/ FindNumber(w) \/ AddGateway(w) \/ Edit(w) \/ EditEntry(w)
  <2>1. /\ op' = op /\ leg' = leg
        /\ pc[w] \in {"lookup", "numbers", "gateways", "edit", "editing"}
    BY <1>2 DEF Lookup, FindNumber, AddGateway, Edit, EditEntry, locals
  <2>2. op[w].kind \in {"route", "routeEx"}
    BY <1>0, <2>1
  <2>3. pc'[w] \in {"numbers", "gateways", "edit", "editing", "result"}
    BY <1>0, <1>2, <2>2 DEF Lookup, AfterSizes, FindNumber, AddGateway, Edit,
                            EditEntry, AfterEdit
  <2> QED
    BY <1>0, <2>1, <2>2, <2>3
<1>3. CASE GetResult(w)
  <2>1. op' = op /\ pc[w] = "result"
    BY <1>3 DEF GetResult
  <2>2. \/ op[w].kind = "routeEx" /\ pc'[w] = "lookup"
        \/ pc'[w] = "reply" /\ leg'[w] = leg[w]
           /\ ~(op[w].kind = "routeEx" /\ leg[w] = 1)
    BY <1>0, <1>3 DEF GetResult
  <2> QED
    BY <1>0, <2>1, <2>2
<1>4. CASE \/ GetGateway(w) \/ GetGatewayFails(w) \/ GetGatewayRejected(w)
          \/ SetGateway(w) \/ SetGatewayFails(w)
  <2>1. /\ UNCHANGED <<op, leg, result, edits>> /\ pc[w] \in {"get", "set"}
        /\ pc'[w] \in {"set", "reply"}
    BY <1>0, <1>4
       DEF GetGateway, GetGatewayFails, GetGatewayRejected, SetGateway,
           SetGatewayFails, AfterUpdate, locals
  <2>2. op[w].kind \in {"used", "end"}
    BY <1>0, <2>1 DEF RouteInvOf, Reading, Looking
  <2> QED
    BY <2>1, <2>2
<1>5. CASE Reply(w)
  BY <1>0, <1>5 DEF Reply, Startup
<1> QED
  BY <1>1, <1>2, <1>3, <1>4, <1>5 DEF Step

(* And so it is in every state.                                           *)
LEMMA LegsCorrect == Spec => []LegsInv
<1> USE GatewayAssumption
<1>1. Init => LegsInv
  BY DEF Init, LegsInv, LegsInvOf, Startup, Worker
<1>2. TypeOK /\ ConfigInv /\ RouteInv /\ LegsInv /\ [Next]_vars => LegsInv'
  <2> SUFFICES ASSUME TypeOK, ConfigInv, RouteInv, LegsInv, [Next]_vars,
                      NEW w \in Session
               PROVE  LegsInvOf(w)'
    BY DEF LegsInv
  <2>0. RouteInvOf(w) /\ LegsInvOf(w) /\ w \in Worker /\ w # Main
    BY DEF RouteInv, LegsInv, Worker
  <2>1. CASE Apart(w)
    BY <2>0, <2>1 DEF Apart, LegsInvOf
  <2>2. ASSUME NEW r \in Request, Begin(w, r) PROVE LegsInvOf(w)'
    <3>1. /\ pc'[w] = "clear" /\ leg'[w] = 1 /\ op'[w] = r
          /\ result'[w] = <<>> /\ edits'[w] = <<>>
      BY <2>0, <2>2 DEF Begin, Goto, TypeOK
    <3> QED
      BY <3>1 DEF LegsInvOf
  <2>3. CASE Step(w)
    BY <2>0, <2>3, OwnLegs
  <2>4. CASE Restart
    BY <2>0, <2>4 DEF Restart, LegsInvOf, Startup
  <2> QED
    BY <2>1, <2>2, <2>3, <2>4, OthersApart
<1>3. QED
  BY <1>1, <1>2, TypeCorrect, ConfigCorrect, RouteCorrect, PTL DEF Spec

(* Every handler that replies has one result and one list of edits per leg *)
(* of its request, for any number of threads and restarts.                 *)
THEOREM LegsAnswered == Spec => []EveryLegAnswered
<1>1. TypeOK /\ RouteInv /\ LegsInv => EveryLegAnswered
  <2> SUFFICES ASSUME TypeOK, RouteInv, LegsInv, NEW w \in Session, pc[w] = "reply"
               PROVE  /\ Len(result[w]) = CASE op[w].kind = "routeEx" -> 2
                                             [] op[w].kind = "route"   -> 1
                                             [] OTHER                  -> 0
                      /\ Len(edits[w]) = Len(result[w])
    BY DEF EveryLegAnswered
  <2>1. RouteInvOf(w) /\ LegsInvOf(w)
    BY DEF RouteInv, LegsInv
  <2>2. op[w].kind \in {"route", "routeEx", "used", "end"}
    BY <2>1 DEF LegsInvOf, TypeOK, Operation, Worker
  <2>3. CASE op[w].kind \in {"route", "routeEx"}
    BY <2>1, <2>3 DEF RouteInvOf, LegInv, LegsInvOf
  <2>4. CASE op[w].kind \in {"used", "end"}
    BY <2>1, <2>4, EmptySeq DEF LegsInvOf
  <2> QED
    BY <2>2, <2>3, <2>4
<1> QED
  BY <1>1, TypeCorrect, RouteCorrect, LegsCorrect, PTL

(* The tables in Redis change only while nobody looks up.                  *)
THEOREM TablesKept == Spec => TablesStable
<1>1. TypeOK /\ ConfigInv /\ RouteInv /\ LegsInv /\ [Next]_vars =>
        (redisTables' # redisTables =>
           /\ ~configured
           /\ \A w \in Session : pc[w] \in {"idle", "clear"})
  <2> SUFFICES ASSUME TypeOK, ConfigInv, RouteInv, LegsInv, [Next]_vars,
                      redisTables' # redisTables
               PROVE  /\ ~configured
                      /\ \A w \in Session : pc[w] \in {"idle", "clear"}
    OBVIOUS
  <2>1. SaveTables
    BY DEF Next, Step, SaveTables, SaveGateway, SaveGatewayRejected, SaveFails,
           SetSqlConfig, Begin, Clear, LoadTables, LoadGateway, Lookup, FindNumber,
           AddGateway, Edit, EditEntry, GetResult, GetGateway, GetGatewayFails,
           GetGatewayRejected, SetGateway, SetGatewayFails, Reply, Restart, vars,
           redis
  <2>2. ~configured
    BY <2>1 DEF SaveTables, ConfigInv, Starting
  <2>3. ASSUME NEW w \in Session PROVE pc[w] \in {"idle", "clear"}
    <3>1. w \in Worker /\ op[w] \in Operation
      BY DEF Worker, TypeOK
    <3>2. RouteInvOf(w) /\ LegsInvOf(w)
      BY DEF RouteInv, LegsInv
    <3>3. pc[w] \notin Starting
      BY <3>1, <3>2
         DEF RouteInvOf, LegsInvOf, Starting, Reading, Looking, Operation
    <3> QED
      BY <2>2, <3>1, <3>3 DEF ConfigInv
  <2> QED
    BY <2>2, <2>3
<1> QED
  BY <1>1, TypeCorrect, ConfigCorrect, RouteCorrect, LegsCorrect, PTL
     DEF Spec, TablesStable
=============================================================================
