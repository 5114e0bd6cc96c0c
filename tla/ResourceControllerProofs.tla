----------------------- MODULE ResourceControllerProofs -----------------------
(***************************************************************************)
(* Proofs about ResourceController, for every set of /info modes and       *)
(* requests.  Each operator on one ResourceManager keeps its type and its  *)
(* borrow count (GoodManager) and honours the constraints of the other     *)
(* side (Kept); what an accepted request makes of the controller follows   *)
(* by induction over the loop through its parts (Run).                     *)
(***************************************************************************)
EXTENDS ResourceController, ProofBasics

\* The invariant of one resource: it has a borrow count exactly while borrowed.
GoodManager(m) == m \in Manager /\ (m.borrows_count > 0 <=> is_borrowed(m.state))

\* ResourceManager::new without a borrow is good.
LEMMA NewManagerGood ==
    ASSUME NEW s \in ResourceState, ~is_borrowed(s),
           NEW t \in ResourceConstraint, NEW b \in ResourceConstraint
    PROVE  GoodManager(NewManager(s, t, b))
  BY DEF NewManager, GoodManager, Manager, ResourceConstraint, is_borrowed, ResourceState

\* A resource with another state, count and unborrow constraint.
Updated(m, s, k, u) == [m EXCEPT !.state = s, !.borrows_count = k, !.unborrow_constraint = u]

\* Changing a resource's state, count and unborrow constraint keeps its type.
LEMMA ManagerUpdate ==
    ASSUME NEW m \in Manager, NEW s \in ResourceState, NEW k \in Nat,
           NEW u \in ResourceConstraint
    PROVE  /\ Updated(m, s, k, u) \in Manager
           /\ Updated(m, s, k, u).state = s
           /\ Updated(m, s, k, u).borrows_count = k
  <1> DEFINE m1 == [m EXCEPT !.state = s]
             m2 == [m1 EXCEPT !.borrows_count = k]
             m3 == [m2 EXCEPT !.unborrow_constraint = u]
  <1>1. m1 \in Manager /\ m1.state = s
    BY DEF Manager
  <1>2. m2 \in Manager /\ m2.state = m1.state /\ m2.borrows_count = k
    BY <1>1 DEF Manager
  <1>3. m3 \in Manager /\ m3.state = m2.state /\ m3.borrows_count = m2.borrows_count
    BY <1>2 DEF Manager
  <1>4. Updated(m, s, k, u) = m3
    BY DEF Updated, Manager
  <1> QED
    BY <1>1, <1>2, <1>3, <1>4

\* An accepted Take names both constraints and makes the actor the owner (take_by).
LEMMA TakeGood ==
    ASSUME NEW m \in Manager, NEW r \in Resource, NEW actor \in Actor,
           take_accepted(m, r, actor)
    PROVE  GoodManager(take_by(m, r, actor))
  <1>1. /\ r.take_constraint \in ResourceConstraint
        /\ r.borrow_constraint \in ResourceConstraint
    BY DEF take_accepted, take_request_fields, Resource
  <1>2. actor_has(actor) \in ResourceState /\ ~is_borrowed(actor_has(actor))
    BY DEF actor_has, from_pair, Actor, ResourceState, is_borrowed
  <1> QED
    BY <1>1, <1>2, NewManagerGood DEF take_by

\* Untake leaves the resource to nobody, without a borrow (untake_by).
LEMMA UntakeGood ==
    ASSUME NEW m, GoodManager(m), NEW actor \in Actor
    PROVE  GoodManager(untake_by(m, actor))
  <1>1. GoodManager(unclaimed)
    BY NewManagerGood DEF unclaimed, ResourceState, is_borrowed, ResourceConstraint
  <1> QED
    BY <1>1 DEF untake_by

\* An accepted Borrow starts the count at one or adds one to it (borrow_by).
LEMMA BorrowGood ==
    ASSUME NEW m, GoodManager(m), NEW r \in Resource, NEW actor \in Actor,
           borrow_accepted(m, r, actor)
    PROVE  GoodManager(borrow_by(m, r, actor))
  <1>1. r.unborrow_constraint \in ResourceConstraint
    BY DEF borrow_accepted, borrow_request_fields, Resource
  <1>2. actor_borrowed(actor) \in ResourceState /\ is_borrowed(actor_borrowed(actor))
    BY DEF actor_borrowed, from_pair, other_entity, Actor, ResourceState, is_borrowed
  <1> DEFINE n == borrow_by(m, r, actor)
  <1>3. n \in Manager
    <2>1. m \in Manager /\ m.borrows_count + 1 \in Nat
      BY DEF GoodManager, Manager
    <2>2. CASE m.state = actor_borrowed(actor)
      BY <2>1, <2>2 DEF borrow_by, Manager
    <2>3. CASE m.state # actor_borrowed(actor)
      <3>1. n = Updated(m, actor_borrowed(actor), 1, r.unborrow_constraint)
        BY <2>1, <2>3 DEF borrow_by, Manager, Updated
      <3> QED
        BY <1>1, <1>2, <2>1, <3>1, ManagerUpdate
    <2> QED
      BY <2>2, <2>3
  <1>4. n.borrows_count > 0
    BY DEF borrow_by, GoodManager, Manager
  <1>5. n.state = actor_borrowed(actor)
    BY DEF borrow_by, GoodManager, Manager
  <1>6. is_borrowed(n.state)
    BY <1>2, <1>5
  <1> QED
    BY <1>3, <1>4, <1>6 DEF GoodManager

\* Unborrow gives the resource back with the last borrow (unborrow_by).
LEMMA UnborrowGood ==
    ASSUME NEW m, GoodManager(m), NEW actor \in Actor
    PROVE  GoodManager(unborrow_by(m, actor))
  <1>1. /\ actor_has(other_entity(actor)) \in ResourceState
        /\ ~is_borrowed(actor_has(other_entity(actor)))
        /\ is_borrowed(actor_borrowed(actor))
    BY DEF actor_has, actor_borrowed, from_pair, other_entity, Actor, ResourceState, is_borrowed
  <1>2. "Anytime" \in ResourceConstraint
    BY DEF ResourceConstraint
  <1> DEFINE n == unborrow_by(m, actor)
             count == IF m.borrows_count = 0 THEN 0 ELSE m.borrows_count - 1
  <1>3. m \in Manager /\ count \in Nat
    BY DEF GoodManager, Manager
  <1>4. CASE m.state # actor_borrowed(actor)
    BY <1>4 DEF unborrow_by
  <1>5. CASE m.state = actor_borrowed(actor) /\ count > 0
    <2>1. n = [m EXCEPT !.borrows_count = count]
      BY <1>5 DEF unborrow_by
    <2>2. n \in Manager /\ n.state = m.state /\ n.borrows_count > 0
      BY <2>1, <1>3, <1>5 DEF Manager
    <2>3. is_borrowed(n.state)
      BY <2>2, <1>1, <1>5
    <2> QED
      BY <2>2, <2>3 DEF GoodManager
  <1>6. CASE m.state = actor_borrowed(actor) /\ ~(count > 0)
    <2>1. n = Updated(m, actor_has(other_entity(actor)), 0, "Anytime")
      BY <1>3, <1>6 DEF unborrow_by, Manager, Updated
    <2>2. n \in Manager /\ n.state = actor_has(other_entity(actor)) /\ n.borrows_count = 0
      BY <2>1, <1>1, <1>2, <1>3, ManagerUpdate
    <2>3. ~is_borrowed(n.state)
      BY <2>2, <1>1
    <2> QED
      BY <2>2, <2>3 DEF GoodManager
  <1> QED
    BY <1>4, <1>5, <1>6

\* Every accepted request of either side leaves a good resource.
LEMMA OutcomeGood ==
    ASSUME NEW m, GoodManager(m), NEW r \in Resource, NEW actor \in Actor,
           accepts(m, r, actor)
    PROVE  GoodManager(outcome(m, r, actor))
  <1>0. m \in Manager
    BY DEF GoodManager
  <1>2. CASE r.type = "Take"
    BY <1>0, <1>2, TakeGood DEF outcome, accepts
  <1>3. CASE r.type = "Untake"
    BY <1>3, UntakeGood DEF outcome
  <1>4. CASE r.type = "Borrow"
    BY <1>4, BorrowGood DEF outcome, accepts
  <1>5. CASE r.type = "Unborrow"
    BY <1>5, UnborrowGood DEF outcome
  <1> QED
    BY <1>2, <1>3, <1>4, <1>5 DEF Resource

\* What the requests `made` of a resource leave of m: what its constraints deny them
\* stays as it was, unless they give up the resource first.
Kept(actor, m, x, made) ==
    LET other == other_entity(actor)
        priority == IF \E r \in made : r.priority = "UserInitiated" THEN "UserInitiated"
                    ELSE "NiceToHave"
        denied(constraint) == ~priority_satisfies(priority, constraint)
    IN  /\ owner(m.state) = other /\ denied(m.take_constraint) =>
             owner(x.state) = other /\ x.take_constraint = m.take_constraint
        /\ m.state = actor_has(other) /\ denied(m.take_constraint) /\ denied(m.borrow_constraint)
             => x.state = m.state /\ x.borrow_constraint = m.borrow_constraint
        /\ m.state = other_borrowed(actor) /\ denied(m.unborrow_constraint) =>
             \/ x.state = m.state /\ x.unborrow_constraint = m.unborrow_constraint
             \/ x.state = "Invalid" /\ \E r \in made : r.type = "Untake"
             \/ /\ \E r \in made : r.type = "Untake"
                /\ \E r \in made : r.type \in {"Take", "Borrow"}

\* Before the first request everything is kept.
LEMMA KeptFirst ==
    ASSUME NEW m, NEW made, NEW actor
    PROVE  Kept(actor, m, m, made)
  BY DEF Kept

\* An accepted request of those made keeps it.
LEMMA KeptStep ==
    ASSUME NEW m \in Manager, NEW x \in Manager, NEW made \in SUBSET Resource, NEW r \in made,
           NEW actor \in Actor, accepts(x, r, actor), Kept(actor, m, x, made)
    PROVE  Kept(actor, m, outcome(x, r, actor), made)
  <1> DEFINE other == other_entity(actor)
             priority == IF \E q \in made : q.priority = "UserInitiated" THEN "UserInitiated"
                         ELSE "NiceToHave"
             denied(constraint) == ~priority_satisfies(priority, constraint)
  <1> PICK n : n = outcome(x, r, actor)
    OBVIOUS
  <1>1. r \in Resource /\ r.type \in {"Take", "Untake", "Borrow", "Unborrow"}
    BY DEF Resource
  <1>2. /\ actor_has(actor) = IF actor = "Controller" THEN "ControllerHas" ELSE "AccessoryHas"
        /\ actor_has(other) = IF actor = "Controller" THEN "AccessoryHas" ELSE "ControllerHas"
        /\ actor_borrowed(actor) = IF actor = "Controller" THEN "ControllerBorrowed"
                                   ELSE "AccessoryBorrowed"
        /\ other_borrowed(actor) = IF actor = "Controller" THEN "AccessoryBorrowed"
                                   ELSE "ControllerBorrowed"
        /\ other = IF actor = "Controller" THEN "Accessory" ELSE "Controller"
    BY DEF actor_has, actor_borrowed, other_borrowed, from_pair, other_entity, Actor
  <1>3. ASSUME NEW constraint, r.priority # Absent, denied(constraint)
        PROVE  ~priority_satisfies(r.priority, constraint)
    BY <1>1, <1>3 DEF priority_satisfies, Resource, ResourceTransferPriority
  <1>4. x.state \in ResourceState /\ m.state \in ResourceState
    BY DEF Manager
  <1>5. r.type = "Take" => /\ r.priority # Absent /\ n.state = actor_has(actor)
                           /\ x.state = other_borrowed(actor) =>
                                priority_satisfies(r.priority, x.unborrow_constraint)
                           /\ x.state \notin {actor_has(actor), other_borrowed(actor)} =>
                                priority_satisfies(r.priority, x.take_constraint)
    BY DEF accepts, outcome, take_accepted, take_request_fields, take_by, NewManager
  <1>6. r.type = "Untake" => n = IF owner(x.state) = actor THEN unclaimed ELSE x
    BY DEF outcome, untake_by
  <1>7. ASSUME r.type = "Borrow"
        PROVE
          /\ r.priority # Absent /\ n.state = actor_borrowed(actor)
          /\ n.take_constraint = x.take_constraint /\ n.borrow_constraint = x.borrow_constraint
          /\ x.state # actor_borrowed(actor) =>
               /\ x.state \notin {actor_has(actor), other_borrowed(actor)}
               /\ priority_satisfies(r.priority, x.borrow_constraint)
    <2>1. borrow_accepted(x, r, actor) /\ n = borrow_by(x, r, actor)
      BY <1>7 DEF accepts, outcome
    <2>2. CASE x.state = actor_borrowed(actor)
      BY <2>1, <2>2 DEF borrow_accepted, borrow_request_fields, borrow_by, Manager
    <2>3. CASE x.state # actor_borrowed(actor)
      BY <2>1, <2>3 DEF borrow_accepted, borrow_request_fields, borrow_by, can_borrow, Manager
    <2> QED
      BY <2>2, <2>3
  <1>8. r.type = "Unborrow" =>
          /\ x.state # other_borrowed(actor)
          /\ n.take_constraint = x.take_constraint /\ n.borrow_constraint = x.borrow_constraint
          /\ IF x.state = actor_borrowed(actor)
             THEN n.state \in {x.state, actor_has(other)} ELSE n = x
    BY DEF accepts, outcome, unborrow_accepted, unborrow_by, Manager
  <1>9. unclaimed.state = "Invalid"
    BY DEF unclaimed, NewManager
  <1>10. ASSUME owner(m.state) = other, denied(m.take_constraint)
         PROVE  owner(n.state) = other /\ n.take_constraint = m.take_constraint
    <2>1. owner(x.state) = other /\ x.take_constraint = m.take_constraint
      BY <1>10 DEF Kept
    <2>2. x.state \in {actor_has(other), actor_borrowed(actor)}
      BY <2>1, <1>2, <1>4 DEF owner, ResourceState, Actor
    <2>3. r.type # "Take"
      <3>1. ~(x.state \in {actor_has(actor), other_borrowed(actor)})
        BY <2>2, <1>2 DEF Actor
      <3> QED
        BY <1>3, <1>5, <1>10, <2>1, <3>1
    <2>4. owner(x.state) # actor
      BY <2>1, <1>2 DEF Actor
    <2>5. owner(actor_borrowed(actor)) = other /\ owner(actor_has(other)) = other
      BY <1>2 DEF owner, Actor
    <2> QED
      BY <1>1, <1>6, <1>7, <1>8, <2>1, <2>2, <2>3, <2>4, <2>5
  <1>11. ASSUME m.state = actor_has(other), denied(m.take_constraint), denied(m.borrow_constraint)
         PROVE  n.state = m.state /\ n.borrow_constraint = m.borrow_constraint
    <2>1. x.state = m.state /\ x.borrow_constraint = m.borrow_constraint
      BY <1>11 DEF Kept
    <2>2. owner(m.state) = other
      BY <1>2, <1>11 DEF owner
    <2>3. x.take_constraint = m.take_constraint
      BY <1>11, <2>2 DEF Kept
    <2>4. /\ x.state \notin {actor_has(actor), other_borrowed(actor)}
          /\ x.state # actor_borrowed(actor) /\ owner(x.state) # actor
      BY <1>2, <1>11, <2>1, <2>2 DEF Actor
    <2>5. r.type \notin {"Take", "Borrow"}
      BY <1>3, <1>5, <1>7, <1>11, <2>1, <2>3, <2>4
    <2> QED
      BY <1>1, <1>6, <1>8, <2>1, <2>4, <2>5
  <1>12. ASSUME m.state = other_borrowed(actor), denied(m.unborrow_constraint)
         PROVE  \/ n.state = m.state /\ n.unborrow_constraint = m.unborrow_constraint
                \/ n.state = "Invalid" /\ \E q \in made : q.type = "Untake"
                \/ /\ \E q \in made : q.type = "Untake"
                   /\ \E q \in made : q.type \in {"Take", "Borrow"}
    <2>1. CASE x.state = m.state /\ x.unborrow_constraint = m.unborrow_constraint
      <3>1. r.type # "Take"
        BY <1>3, <1>5, <1>12, <2>1
      <3>2. r.type # "Borrow" /\ r.type # "Unborrow"
        BY <1>2, <1>7, <1>8, <1>12, <2>1
      <3> QED
        BY <1>1, <1>6, <1>9, <2>1, <3>1, <3>2
    <2>2. CASE x.state = "Invalid" /\ \E q \in made : q.type = "Untake"
      <3>1. r.type \in {"Take", "Borrow"} => \E q \in made : q.type \in {"Take", "Borrow"}
        OBVIOUS
      <3>2. r.type = "Untake" => n.state = "Invalid"
        BY <1>6, <1>9, <2>2
      <3>3. r.type = "Unborrow" => n.state = "Invalid"
        <4>1. x.state # actor_borrowed(actor)
          BY <1>2, <2>2
        <4> QED
          BY <1>8, <2>2, <4>1
      <3> QED
        BY <1>1, <2>2, <3>1, <3>2, <3>3
    <2>3. CASE /\ \E q \in made : q.type = "Untake"
               /\ \E q \in made : q.type \in {"Take", "Borrow"}
      BY <2>3
    <2> QED
      BY <1>12, <2>1, <2>2, <2>3 DEF Kept
  <1> QED
    BY <1>10, <1>11, <1>12 DEF Kept

\* What is kept is what the constraints ask for.
LEMMA KeptHonours ==
    ASSUME NEW m \in Manager, NEW x, NEW made, NEW actor \in Actor, Kept(actor, m, x, made)
    PROVE  Honours(actor, m, x, made)
  <1> DEFINE other == other_entity(actor)
             priority == IF \E r \in made : r.priority = "UserInitiated" THEN "UserInitiated"
                         ELSE "NiceToHave"
             denied(constraint) == ~priority_satisfies(priority, constraint)
             types == {r.type : r \in made}
             reclaimed == "Untake" \in types /\ ("Take" \in types \/ "Borrow" \in types)
  <1>1. ASSUME m.state = other_borrowed(actor), denied(m.unborrow_constraint), ~reclaimed
        PROVE  entity(x.state) # actor
    <2>1. x.state \in {m.state, "Invalid"}
      BY <1>1 DEF Kept
    <2> QED
      BY <1>1, <2>1 DEF other_borrowed, from_pair, other_entity, entity, Actor
  <1> QED
    BY <1>1 DEF Kept, Honours

\* The resources of the controller that an /info message makes are good
\* (from_permanent_entity, apply_initial_transaction).
LEMMA InitialGood ==
    ASSUME NEW perm \in PermanentEntity, NEW transaction,
           transaction = << >> \/ \E r \in Resource : transaction = <<r>>
    PROVE  GoodManager(apply_initial_transaction(from_permanent_entity(perm), transaction))
  <1> DEFINE m == from_permanent_entity(perm)
             n == apply_initial_transaction(m, transaction)
  <1>1. GoodManager(m) /\ m \in Manager
    BY NewManagerGood DEF from_permanent_entity, controller_owned, PermanentEntity, ResourceState,
                          is_borrowed, ResourceConstraint, GoodManager
  <1> SUFFICES ASSUME transaction # << >> PROVE GoodManager(n)
    BY <1>1 DEF apply_initial_transaction
  <1> PICK r \in Resource : transaction = <<r>>
    OBVIOUS
  <1>2. CASE r.type = "Take"
    <2>1. /\ (IF r.take_constraint = Absent THEN "Anytime" ELSE r.take_constraint)
               \in ResourceConstraint
          /\ (IF r.borrow_constraint = Absent THEN "Anytime" ELSE r.borrow_constraint)
               \in ResourceConstraint
      BY DEF Resource, ResourceConstraint
    <2> QED
      BY <1>2, <2>1, NewManagerGood DEF apply_initial_transaction, ResourceState, is_borrowed
  <1>3. CASE r.type = "Borrow" /\ owner(m.state) # "Accessory"
    <2> DEFINE u == IF r.unborrow_constraint = Absent THEN "Anytime" ELSE r.unborrow_constraint
    <2>1. n = Updated(m, "AccessoryBorrowed", 1, u)
      BY <1>3 DEF apply_initial_transaction, Updated
    <2>2. u \in ResourceConstraint
      BY DEF Resource, ResourceConstraint
    <2>3. n \in Manager /\ n.state = "AccessoryBorrowed" /\ n.borrows_count = 1
      BY <1>1, <2>1, <2>2, ManagerUpdate DEF ResourceState
    <2> QED
      BY <2>3 DEF GoodManager, is_borrowed
  <1>4. CASE r.type # "Take" /\ ~(r.type = "Borrow" /\ owner(m.state) # "Accessory")
    BY <1>1, <1>4 DEF apply_initial_transaction
  <1> QED
    BY <1>2, <1>3, <1>4
-----------------------------------------------------------------------------
(* The loop through the parts of a request. *)

\* The last of a list with an id is the one behind all others.
LEMMA LastNamed ==
    ASSUME NEW S, NEW list \in Seq(S), NEW id
    PROVE  \/ named(list, id) = {} /\ last_named(list, id) = << >>
           \/ \E t \in named(list, id) : /\ last_named(list, id) = <<list[t]>>
                                         /\ \A j \in named(list, id) : j <= t
  <1> PICK T : T = named(list, id)
    OBVIOUS
  <1>1. DOMAIN list = 1..Len(list) /\ Len(list) \in Nat
    BY LenProperties
  <1>2. T \subseteq 1..Len(list)
    BY <1>1 DEF named
  <1>3. CASE T = {}
    BY <1>3 DEF last_named
  <1>4. CASE T # {}
    <2>1. T \in SUBSET Nat /\ \A j \in T : j <= Len(list)
      BY <1>1, <1>2
    <2>2. PICK n \in T : \A j \in T : j <= n
      BY <1>1, <1>4, <2>1, GreatestNatural
    <2>3. PICK t : t = CHOOSE i \in T : \A j \in T : j <= i
      OBVIOUS
    <2>4. t \in T /\ \A j \in T : j <= t
      BY <2>2, <2>3
    <2>5. last_named(list, id) = <<list[t]>>
      BY <1>4, <2>3 DEF last_named
    <2> QED
      BY <2>4, <2>5
  <1> QED
    BY <1>3, <1>4

\* A sequence p is s followed by t, of lengths k and n.
Parts(p, s, t, k, n) ==
    /\ k \in Nat /\ n \in Nat /\ Len(p) = k + n
    /\ DOMAIN s = 1..k /\ DOMAIN t = 1..n
    /\ \A i \in 1..k : p[i] = s[i] /\ p[i] \in AppState
    /\ \A i \in 1..n : p[k + i] = t[i] /\ p[k + i] \in Resource

\* The parts of a request are its app states, then its resources.
LEMMA RequestParts ==
    ASSUME NEW req \in ChangeModes
    PROVE  \E k \in Nat, n \in Nat : Parts(parts(req), req.app_states, req.resources, k, n)
  <1>1. req.app_states \in Seq(AppState) /\ req.resources \in Seq(Resource)
    BY DEF ChangeModes
  <1>2. PICK s \in Seq(AppState) : s = req.app_states
    BY <1>1
  <1>3. PICK t \in Seq(Resource) : t = req.resources
    BY <1>1
  <1>4. PICK u : u = s \o t
    OBVIOUS
  <1> DEFINE E == AppState \cup Resource
  <1>5. /\ DOMAIN s = 1..Len(s) /\ DOMAIN t = 1..Len(t) /\ Len(s) \in Nat /\ Len(t) \in Nat
        /\ \A i \in 1..Len(s) : s[i] \in AppState
        /\ \A i \in 1..Len(t) : t[i] \in Resource
    BY LenProperties, ElementOfSeq
  <1>6. s \in Seq(E) /\ t \in Seq(E)
    BY <1>5, SeqDef
  <1>7. Joined(u, s, t)
    <2> HIDE DEF E
    <2> QED
      BY <1>4, <1>6, JoinSeq
  <1>8. Parts(u, s, t, Len(s), Len(t))
    BY <1>5, <1>7 DEF Joined, Parts
  <1>9. parts(req) = u
    BY <1>2, <1>3, <1>4 DEF parts
  <1> QED
    BY <1>2, <1>3, <1>5, <1>8, <1>9

\* Each part is an app state or a resource of the request.
LEMMA RequestPart ==
    ASSUME NEW req \in ChangeModes
    PROVE  /\ Len(parts(req)) \in Nat
           /\ \A i \in 1..Len(parts(req)) : parts(req)[i] \in AppState \cup Resource
           /\ \A i \in 1..Len(parts(req)) : parts(req)[i] \in Resource =>
                \E j \in DOMAIN req.resources : parts(req)[i] = req.resources[j]
  <1>1. PICK p, s, t : p = parts(req) /\ s = req.app_states /\ t = req.resources
    OBVIOUS
  <1>2. PICK k \in Nat, n \in Nat : Parts(p, s, t, k, n)
    BY <1>1, RequestParts
  <1>3. Len(p) = k + n
    BY <1>2 DEF Parts
  <1>4. Len(p) \in Nat
    BY <1>3
  <1>5. ASSUME NEW x \in AppState
        PROVE  x \notin Resource
    BY DEF AppState, AppStateEnum, Resource, ResourceID
  <1>6. ASSUME NEW i \in 1..Len(p)
        PROVE  /\ p[i] \in AppState \cup Resource
               /\ p[i] \in Resource => \E j \in DOMAIN t : p[i] = t[j]
    <2>1. CASE i <= k
      <3>1. i \in 1..k
        BY <1>3, <2>1
      <3>2. p[i] \in AppState
        BY <1>2, <3>1 DEF Parts
      <3> QED
        BY <1>5, <3>2
    <2>2. CASE ~(i <= k)
      <3>1. i - k \in 1..n /\ k + (i - k) = i
        BY <1>3, <2>2
      <3>2. /\ p[k + (i - k)] = t[i - k] /\ p[k + (i - k)] \in Resource
            /\ i - k \in DOMAIN t
        BY <1>2, <3>1 DEF Parts
      <3> QED
        BY <3>1, <3>2
    <2> QED
      BY <2>1, <2>2
  <1> QED
    BY <1>1, <1>4, <1>6

\* One turn of the loop.
LoopStep(c, p, f, i) ==
    IF i = 0 THEN <<c>>
    ELSE IF f[i - 1] = << >> \/ ~part_accepted(f[i - 1][1], p[i]) THEN << >>
         ELSE <<process_part(f[i - 1][1], p[i])>>

\* The loop, turn by turn.
LEMMA LoopExists ==
    ASSUME NEW c, NEW p, NEW n \in Nat
    PROVE  \E f : f = [i \in 0..n |-> LoopStep(c, p, f, i)]
  <1> DEFINE S == {k \in Nat : \E f : f = [i \in 0..k |-> LoopStep(c, p, f, i)]}
  <1>1. 0 \in S
    <2> DEFINE f == [i \in 0..0 |-> <<c>>]
    <2>1. f = [i \in 0..0 |-> LoopStep(c, p, f, i)]
      BY DEF LoopStep
    <2> HIDE DEF f
    <2> QED
      BY <2>1
  <1>2. ASSUME NEW k \in Nat, k \in S
        PROVE  k + 1 \in S
    <2> PICK f : f = [i \in 0..k |-> LoopStep(c, p, f, i)]
      BY <1>2
    <2> DEFINE g == [i \in 0..(k + 1) |-> IF i <= k THEN f[i] ELSE LoopStep(c, p, f, i)]
    <2>1. ASSUME NEW i \in 0..(k + 1)
          PROVE  g[i] = LoopStep(c, p, g, i)
      <3>1. i # 0 => g[i - 1] = f[i - 1]
        OBVIOUS
      <3>2. g[i] = LoopStep(c, p, f, i)
        OBVIOUS
      <3> HIDE DEF g
      <3> QED
        BY <3>1, <3>2 DEF LoopStep
    <2>2. g = [i \in 0..(k + 1) |-> LoopStep(c, p, g, i)]
      <3>1. g = [i \in 0..(k + 1) |-> g[i]]
        OBVIOUS
      <3> HIDE DEF g
      <3> QED
        BY <2>1, <3>1
    <2> HIDE DEF g
    <2> QED
      BY <2>2
  <1>3. \A k \in Nat : k \in S
    <2> HIDE DEF S
    <2> QED
      BY <1>1, <1>2, SetInduction
  <1> QED
    BY <1>3

\* The controllers an accepted request passes through, one part after the other.
Run(g, c, p, n) ==
    /\ g[0] = c
    /\ \A i \in 0..(n - 1) :
         part_accepted(g[i], p[i + 1]) /\ g[i + 1] = process_part(g[i], p[i + 1])

\* An accepted request runs through all its parts (process_request).
LEMMA AcceptedRuns ==
    ASSUME NEW c, NEW req \in ChangeModes, request_accepted(c, req)
    PROVE  \E g : /\ Run(g, c, parts(req), Len(parts(req)))
                  /\ process_request(c, req) = g[Len(parts(req))]
  <1> PICK p : p = parts(req)
    OBVIOUS
  <1> PICK n \in Nat : n = Len(p)
    BY RequestPart
  <1> PICK f : f = processing(c, req)
    OBVIOUS
  <1>1. f = [i \in 0..n |-> LoopStep(c, p, f, i)]
    <2>1. f = CHOOSE h : h = [i \in 0..n |->
                                IF i = 0 THEN <<c>>
                                ELSE IF h[i - 1] = << >> \/ ~part_accepted(h[i - 1][1], p[i])
                                     THEN << >>
                                     ELSE <<process_part(h[i - 1][1], p[i])>>]
      BY DEF processing
    <2>2. f = CHOOSE h : h = [i \in 0..n |-> LoopStep(c, p, h, i)]
      BY <2>1 DEF LoopStep
    <2>3. \E h : h = [i \in 0..n |-> LoopStep(c, p, h, i)]
      BY ONLY n \in Nat, LoopExists
    <2> QED
      BY <2>2, <2>3
  <1>2. f[0] = <<c>> /\ \A i \in 1..n : f[i] = LoopStep(c, p, f, i)
    BY <1>1 DEF LoopStep
  <1>3. f[n] # << >>
    BY DEF request_accepted
  <1> DEFINE P == {k \in Nat : k <= n => f[n - k] # << >>}
  <1>4. \A k \in Nat : k \in P
    <2>1. 0 \in P
      BY <1>3
    <2>2. ASSUME NEW k \in Nat, k \in P
          PROVE  k + 1 \in P
      <3> SUFFICES ASSUME k + 1 <= n PROVE f[n - (k + 1)] # << >>
        OBVIOUS
      <3>1. n - k \in 1..n /\ (n - k) - 1 = n - (k + 1)
        OBVIOUS
      <3>2. f[n - k] # << >> /\ f[n - k] = LoopStep(c, p, f, n - k)
        BY <1>2, <2>2, <3>1
      <3> QED
        BY <3>1, <3>2 DEF LoopStep
    <2> HIDE DEF P
    <2> QED
      BY <2>1, <2>2, SetInduction
  <1>5. \A i \in 0..n : f[i] # << >>
    <2> TAKE i \in 0..n
    <2>1. n - i \in P /\ n - (n - i) = i
      BY <1>4
    <2> QED
      BY <2>1
  <1> DEFINE g == [i \in 0..n |-> f[i][1]]
  <1>6. g[0] = c
    BY <1>2
  <1>7. ASSUME NEW i \in 0..(n - 1)
        PROVE  part_accepted(g[i], p[i + 1]) /\ g[i + 1] = process_part(g[i], p[i + 1])
    <2>1. i + 1 \in 1..n /\ i \in 0..n /\ i + 1 \in 0..n /\ (i + 1) - 1 = i /\ i + 1 # 0
      OBVIOUS
    <2>2. f[i + 1] = LoopStep(c, p, f, i + 1) /\ f[i + 1] # << >>
      BY <1>2, <1>5, <2>1
    <2>3. part_accepted(f[i][1], p[i + 1]) /\ f[i + 1] = <<process_part(f[i][1], p[i + 1])>>
      BY <2>1, <2>2 DEF LoopStep
    <2> QED
      BY <2>1, <2>3
  <1>8. process_request(c, req) = g[n]
    BY DEF process_request
  <1> HIDE DEF g
  <1>9. Run(g, c, p, n)
    BY <1>6, <1>7 DEF Run
  <1> QED
    BY <1>8, <1>9
-----------------------------------------------------------------------------
\* A controller with two good resources.
GoodController(c) == c \in Controller /\ GoodManager(c.screen) /\ GoodManager(c.main_audio)

\* An accepted part leaves a good controller, and changes nothing but what it names.
LEMMA PartGood ==
    ASSUME NEW c, GoodController(c), NEW part \in AppState \cup Resource, part_accepted(c, part)
    PROVE  LET d == process_part(c, part)
           IN  /\ GoodController(d)
               /\ part \in Resource =>
                    /\ part.id \in ResourceID /\ accepts(c[part.id], part, "Accessory")
                    /\ d[part.id] = outcome(c[part.id], part, "Accessory")
                    /\ \A id \in ResourceID \ {part.id} : d[id] = c[id]
                    /\ d.phone_call = c.phone_call /\ d.turn_by_turn = c.turn_by_turn
                    /\ d.speech = c.speech
               /\ part \in AppState =>
                    /\ \A id \in ResourceID : d[id] = c[id]
                    /\ app_state_accepted(c, part)
                    /\ d.phone_call = IF part.id = "PhoneCall" THEN switched(c.phone_call, part.state)
                                      ELSE c.phone_call
                    /\ d.turn_by_turn = IF part.id = "TurnByTurn"
                                        THEN switched(c.turn_by_turn, part.state)
                                        ELSE c.turn_by_turn
                    /\ d.speech = IF part.id = "Speech" THEN speech_of(part.speech_mode)
                                  ELSE c.speech
  <1> PICK d : d = process_part(c, part)
    OBVIOUS
  <1>0. /\ c \in Controller /\ c.screen \in Manager /\ c.main_audio \in Manager
        /\ c.speech \in SpeechState /\ c.phone_call \in EntityEnum /\ c.turn_by_turn \in EntityEnum
    BY DEF GoodController, Controller
  <1>1. CASE part \in Resource
    <2>1. part.id \in {"screen", "main_audio"} /\ part.id \in ResourceID
      BY <1>1 DEF Resource, ResourceID
    <2>2. part \notin AppState
      BY <2>1 DEF AppState, AppStateEnum
    <2> PICK n : n = outcome(c[part.id], part, "Accessory")
      OBVIOUS
    <2>3. accepts(c[part.id], part, "Accessory") /\ d = [c EXCEPT ![part.id] = n]
      BY <2>1 DEF part_accepted, process_part
    <2>4. GoodManager(c[part.id])
      BY <2>1 DEF GoodController
    <2>5. GoodManager(n)
      BY <1>1, <2>3, <2>4, OutcomeGood DEF Actor
    <2>6. n \in Manager
      BY <2>5 DEF GoodManager
    <2>7. /\ d \in Controller /\ d[part.id] = n
          /\ \A id \in ResourceID \ {part.id} : d[id] = c[id]
          /\ d.phone_call = c.phone_call /\ d.turn_by_turn = c.turn_by_turn /\ d.speech = c.speech
      BY <1>0, <2>1, <2>3, <2>6 DEF Controller, ResourceID
    <2>8. GoodManager(d.screen) /\ GoodManager(d.main_audio)
      BY <2>1, <2>5, <2>7 DEF GoodController, ResourceID
    <2> QED
      BY <2>1, <2>2, <2>3, <2>7, <2>8 DEF GoodController
  <1>2. CASE part \in AppState
    <2>1. part.id \in AppStateEnum /\ part.id \notin ResourceID
      BY <1>2 DEF AppState, AppStateEnum, ResourceID
    <2>2. part \notin Resource
      BY <2>1 DEF Resource
    <2>3. app_state_accepted(c, part) /\ d = process_app_state(c, part)
      BY <2>1 DEF part_accepted, process_part
    <2>4. \A now \in EntityEnum : switched(now, part.state) \in EntityEnum
      BY DEF switched, EntityEnum
    <2>5. CASE part.id = "Speech"
      <3>1. d = [c EXCEPT !.speech = speech_of(part.speech_mode)]
        BY <2>3, <2>5 DEF process_app_state
      <3>2. part.speech_mode \in SpeechMode
        BY <1>2, <2>3, <2>5 DEF app_state_accepted, AppState
      <3>3. speech_of(part.speech_mode) \in SpeechState
        BY <3>2 DEF speech_of, SpeechState, EntityEnum
      <3>4. d \in Controller /\ d.screen = c.screen /\ d.main_audio = c.main_audio
            /\ d.phone_call = c.phone_call /\ d.turn_by_turn = c.turn_by_turn
            /\ d.speech = speech_of(part.speech_mode)
        BY <1>0, <3>1, <3>3 DEF Controller
      <3> QED
        BY <2>2, <2>3, <2>5, <3>4 DEF GoodController, ResourceID
    <2>6. CASE part.id = "PhoneCall"
      <3>1. d = [c EXCEPT !.phone_call = switched(@, part.state)]
        BY <2>3, <2>6 DEF process_app_state
      <3>2. d \in Controller /\ d.screen = c.screen /\ d.main_audio = c.main_audio
            /\ d.phone_call = switched(c.phone_call, part.state)
            /\ d.turn_by_turn = c.turn_by_turn /\ d.speech = c.speech
        BY <1>0, <2>4, <3>1 DEF Controller
      <3> QED
        BY <2>2, <2>3, <2>6, <3>2 DEF GoodController, ResourceID
    <2>7. CASE part.id = "TurnByTurn"
      <3>1. d = [c EXCEPT !.turn_by_turn = switched(@, part.state)]
        BY <2>3, <2>7 DEF process_app_state
      <3>2. d \in Controller /\ d.screen = c.screen /\ d.main_audio = c.main_audio
            /\ d.turn_by_turn = switched(c.turn_by_turn, part.state)
            /\ d.phone_call = c.phone_call /\ d.speech = c.speech
        BY <1>0, <2>4, <3>1 DEF Controller
      <3> QED
        BY <2>2, <2>3, <2>7, <3>2 DEF GoodController, ResourceID
    <2> QED
      BY <2>3, <2>5, <2>6, <2>7 DEF app_state_accepted
  <1> QED
    BY <1>1, <1>2

\* Every controller of a run is good.
LEMMA RunGood ==
    ASSUME NEW c, GoodController(c), NEW req \in ChangeModes, NEW n \in Nat,
           n = Len(parts(req)), NEW g, Run(g, c, parts(req), n)
    PROVE  \A i \in 0..n : GoodController(g[i])
  <1> PICK p : p = parts(req)
    OBVIOUS
  <1>1. \A i \in 1..n : p[i] \in AppState \cup Resource
    BY RequestPart
  <1> DEFINE S == {i \in Nat : i <= n => GoodController(g[i])}
  <1>2. 0 \in S
    BY DEF Run
  <1>3. ASSUME NEW i \in Nat, i \in S
        PROVE  i + 1 \in S
    <2> SUFFICES ASSUME i + 1 <= n PROVE GoodController(g[i + 1])
      OBVIOUS
    <2>1. i \in 0..(n - 1) /\ i + 1 \in 1..n
      OBVIOUS
    <2>2. part_accepted(g[i], p[i + 1]) /\ g[i + 1] = process_part(g[i], p[i + 1])
      BY <2>1 DEF Run
    <2>3. GoodController(g[i])
      BY <1>3, <2>1
    <2> QED
      BY <1>1, <2>1, <2>2, <2>3, PartGood
  <1>4. \A i \in Nat : i \in S
    <2> HIDE DEF S
    <2> QED
      BY <1>2, <1>3, SetInduction
  <1> QED
    BY <1>4

\* process_request keeps a controller good: an accepted request leaves good
\* resources, a rejected one leaves the controller alone.
LEMMA RequestGood ==
    ASSUME NEW c, GoodController(c), NEW req \in ChangeModes
    PROVE  GoodController(process_request(c, req))
  <1>1. CASE ~request_accepted(c, req)
    BY <1>1 DEF process_request
  <1>2. CASE request_accepted(c, req)
    <2> PICK p : p = parts(req)
      OBVIOUS
    <2>1. PICK n \in Nat : n = Len(p)
      BY RequestPart
    <2>2. PICK g : Run(g, c, parts(req), n) /\ process_request(c, req) = g[n]
      BY <1>2, <2>1, AcceptedRuns
    <2> QED
      BY <2>1, <2>2, RunGood
  <1> QED
    BY <1>1, <1>2
-----------------------------------------------------------------------------
\* What a run has kept of a resource it keeps to the end (Kept), whatever the parts
\* of the request and their order.
LEMMA RunKeeps ==
    ASSUME NEW c, GoodController(c), NEW req \in ChangeModes, NEW n \in Nat,
           n = Len(parts(req)), NEW g, Run(g, c, parts(req), n), NEW id \in ResourceID
    PROVE  Kept("Accessory", c[id], g[n][id], requested(req, id))
  <1> PICK p : p = parts(req)
    OBVIOUS
  <1> PICK made : made = requested(req, id)
    OBVIOUS
  <1>1. \A i \in 1..n : /\ p[i] \in AppState \cup Resource
                        /\ p[i] \in Resource =>
                             \E j \in DOMAIN req.resources : p[i] = req.resources[j]
    BY RequestPart
  <1>2. made \subseteq Resource
    <2>1. req.resources \in Seq(Resource)
      BY DEF ChangeModes
    <2>2. \A j \in DOMAIN req.resources : req.resources[j] \in Resource
      BY <2>1, LenProperties, ElementOfSeq
    <2> QED
      BY <2>2 DEF requested, named
  <1>3. ASSUME NEW i \in 1..n
        PROVE  \/ p[i] \in AppState
               \/ p[i] \in Resource /\ (p[i].id = id => p[i] \in made)
    <2>1. CASE p[i] \in Resource
      <3>1. PICK j \in DOMAIN req.resources : p[i] = req.resources[j]
        BY <1>1, <2>1
      <3> QED
        BY <2>1, <3>1 DEF requested, named
    <2> QED
      BY <1>1, <2>1
  <1>4. \A i \in 0..n : GoodController(g[i])
    BY RunGood
  <1> DEFINE S == {i \in Nat : i <= n => Kept("Accessory", c[id], g[i][id], made)}
  <1>5. 0 \in S
    BY KeptFirst DEF Run
  <1>6. ASSUME NEW i \in Nat, i \in S
        PROVE  i + 1 \in S
    <2> SUFFICES ASSUME i + 1 <= n PROVE Kept("Accessory", c[id], g[i + 1][id], made)
      OBVIOUS
    <2>1. i \in 0..(n - 1) /\ i + 1 \in 1..n /\ i \in 0..n
      OBVIOUS
    <2>2. part_accepted(g[i], p[i + 1]) /\ g[i + 1] = process_part(g[i], p[i + 1])
      BY <2>1 DEF Run
    <2>3. GoodController(g[i]) /\ Kept("Accessory", c[id], g[i][id], made)
      BY <1>4, <1>6, <2>1
    <2>4. CASE g[i + 1][id] = g[i][id]
      BY <2>3, <2>4
    <2>5. CASE g[i + 1][id] # g[i][id]
      <3>1. p[i + 1] \in Resource /\ p[i + 1].id = id /\ p[i + 1] \in made
        BY <1>3, <2>1, <2>2, <2>3, <2>5, PartGood
      <3>2. /\ accepts(g[i][id], p[i + 1], "Accessory")
            /\ g[i + 1][id] = outcome(g[i][id], p[i + 1], "Accessory")
        BY <2>2, <2>3, <3>1, PartGood
      <3>3. c[id] \in Manager /\ g[i][id] \in Manager
        BY <2>3 DEF GoodController, GoodManager, ResourceID
      <3> QED
        BY <1>2, <2>3, <3>1, <3>2, <3>3, KeptStep DEF Actor
    <2> QED
      BY <2>4, <2>5
  <1>7. \A i \in Nat : i \in S
    <2> HIDE DEF S
    <2> QED
      BY <1>5, <1>6, SetInduction
  <1> QED
    BY <1>7

\* process_request honours the constraints on a resource.
LEMMA RequestHonours ==
    ASSUME NEW c, GoodController(c), NEW req \in ChangeModes, NEW id \in ResourceID
    PROVE  Honours("Accessory", c[id], process_request(c, req)[id], requested(req, id))
  <1>1. c[id] \in Manager /\ "Accessory" \in Actor
    BY DEF GoodController, GoodManager, ResourceID, Actor
  <1>2. Kept("Accessory", c[id], process_request(c, req)[id], requested(req, id))
    <2>1. CASE ~request_accepted(c, req)
      BY <2>1, KeptFirst DEF process_request
    <2>2. CASE request_accepted(c, req)
      <3> PICK p : p = parts(req)
        OBVIOUS
      <3>1. PICK n \in Nat : n = Len(p)
        BY RequestPart
      <3>2. PICK g : Run(g, c, p, n) /\ process_request(c, req) = g[n]
        BY <2>2, <3>1, AcceptedRuns
      <3>3. Kept("Accessory", c[id], g[n][id], requested(req, id))
        BY <3>1, <3>2, RunKeeps
      <3> QED
        BY <3>2, <3>3
    <2> QED
      BY <2>1, <2>2
  <1> QED
    BY <1>1, <1>2, KeptHonours
-----------------------------------------------------------------------------
\* What a request can change of a controller.
Named == ResourceID \cup {"Speech", "PhoneCall", "TurnByTurn"}
ValueOf(c, id) ==
    IF id \in ResourceID THEN c[id]
    ELSE IF id = "Speech" THEN c.speech
    ELSE IF id = "PhoneCall" THEN c.phone_call ELSE c.turn_by_turn

\* What a granted part makes of what it names.
GrantedBy(part, v) ==
    IF part.id \in ResourceID
    THEN /\ part.type = "Take" =>
              v = NewManager("AccessoryHas", part.take_constraint, part.borrow_constraint)
         /\ part.type = "Untake" => owner(v.state) # "Accessory"
         /\ part.type = "Borrow" => v.state = "AccessoryBorrowed"
         /\ part.type = "Unborrow" => v.state # "ControllerBorrowed"
    ELSE IF part.id = "Speech" THEN v = speech_of(part.speech_mode)
    ELSE part.state = "On" <=> v = "Accessory"

\* An accepted request of the accessory for a resource is granted.
LEMMA OutcomeGranted ==
    ASSUME NEW m \in Manager, NEW r \in Resource, accepts(m, r, "Accessory")
    PROVE  GrantedBy(r, outcome(m, r, "Accessory"))
  <1> PICK v : v = outcome(m, r, "Accessory")
    OBVIOUS
  <1>1. r.id \in ResourceID /\ r.type \in {"Take", "Untake", "Borrow", "Unborrow"}
    BY DEF Resource
  <1>2. /\ actor_has("Accessory") = "AccessoryHas" /\ actor_has("Controller") = "ControllerHas"
        /\ actor_borrowed("Accessory") = "AccessoryBorrowed"
        /\ other_borrowed("Accessory") = "ControllerBorrowed"
        /\ other_entity("Accessory") = "Controller"
    BY DEF actor_has, actor_borrowed, other_borrowed, from_pair, other_entity
  <1>3. CASE r.type = "Take"
    <2>1. v = NewManager("AccessoryHas", r.take_constraint, r.borrow_constraint)
      BY <1>2, <1>3 DEF outcome, take_by
    <2> QED
      BY <1>1, <1>3, <2>1 DEF GrantedBy
  <1>4. CASE r.type = "Untake"
    <2>1. v = IF owner(m.state) = "Accessory" THEN unclaimed ELSE m
      BY <1>4 DEF outcome, untake_by
    <2>2. owner(unclaimed.state) # "Accessory"
      BY DEF unclaimed, NewManager, owner
    <2> QED
      BY <1>1, <1>4, <2>1, <2>2 DEF GrantedBy
  <1>5. CASE r.type = "Borrow"
    <2>1. v = borrow_by(m, r, "Accessory")
      BY <1>5 DEF outcome
    <2>2. v.state = "AccessoryBorrowed"
      BY <1>2, <2>1 DEF borrow_by, Manager
    <2> QED
      BY <1>1, <1>5, <2>2 DEF GrantedBy
  <1>6. CASE r.type = "Unborrow"
    <2>1. m.state # "ControllerBorrowed"
      BY <1>2, <1>6 DEF accepts, unborrow_accepted
    <2>2. v.state \in {m.state, "ControllerHas"}
      BY <1>2, <1>6 DEF outcome, unborrow_by, Manager
    <2> QED
      BY <1>1, <1>6, <2>1, <2>2 DEF GrantedBy
  <1> QED
    BY <1>1, <1>3, <1>4, <1>5, <1>6

\* An accepted part is granted, and nothing else changes.
LEMMA PartGranted ==
    ASSUME NEW c, GoodController(c), NEW part \in AppState \cup Resource, part_accepted(c, part)
    PROVE  LET d == process_part(c, part)
           IN  /\ part.id \in Named /\ GrantedBy(part, ValueOf(d, part.id))
               /\ \A id \in Named \ {part.id} : ValueOf(d, id) = ValueOf(c, id)
  <1> PICK d : d = process_part(c, part)
    OBVIOUS
  <1>1. CASE part \in Resource
    <2>1. /\ part.id \in ResourceID /\ accepts(c[part.id], part, "Accessory")
          /\ d[part.id] = outcome(c[part.id], part, "Accessory")
          /\ \A id \in ResourceID \ {part.id} : d[id] = c[id]
          /\ d.phone_call = c.phone_call /\ d.turn_by_turn = c.turn_by_turn /\ d.speech = c.speech
      BY <1>1, PartGood
    <2>2. c[part.id] \in Manager
      BY <2>1 DEF GoodController, GoodManager, ResourceID
    <2>3. GrantedBy(part, d[part.id])
      BY <1>1, <2>1, <2>2, OutcomeGranted
    <2>4. ValueOf(d, part.id) = d[part.id]
      BY <2>1 DEF ValueOf
    <2>5. \A id \in Named \ {part.id} : ValueOf(d, id) = ValueOf(c, id)
      BY <2>1 DEF ValueOf, Named
    <2> QED
      BY <2>1, <2>3, <2>4, <2>5 DEF Named
  <1>2. CASE part \in AppState
    <2>1. /\ \A id \in ResourceID : d[id] = c[id]
          /\ app_state_accepted(c, part)
          /\ d.phone_call = IF part.id = "PhoneCall" THEN switched(c.phone_call, part.state)
                            ELSE c.phone_call
          /\ d.turn_by_turn = IF part.id = "TurnByTurn" THEN switched(c.turn_by_turn, part.state)
                              ELSE c.turn_by_turn
          /\ d.speech = IF part.id = "Speech" THEN speech_of(part.speech_mode) ELSE c.speech
      BY <1>2, PartGood
    <2>2. part.id \in {"Speech", "PhoneCall", "TurnByTurn"} /\ part.id \notin ResourceID
      BY <2>1 DEF app_state_accepted, ResourceID
    <2>3. \A now : part.state = "On" <=> switched(now, part.state) = "Accessory"
      BY DEF switched
    <2>4. GrantedBy(part, ValueOf(d, part.id))
      BY <2>1, <2>2, <2>3 DEF GrantedBy, ValueOf
    <2>5. \A id \in Named \ {part.id} : ValueOf(d, id) = ValueOf(c, id)
      BY <2>1 DEF ValueOf, Named
    <2> QED
      BY <2>2, <2>4, <2>5 DEF Named
  <1> QED
    BY <1>1, <1>2

\* What the first i parts have made of id: what the last of them that named it was
\* granted, or what it was before them.
GrantedSoFar(p, i, id, before, v) ==
    \/ (\A x \in 1..i : p[x].id # id) /\ v = before
    \/ \E x \in 1..i : /\ p[x].id = id /\ GrantedBy(p[x], v)
                       /\ \A y \in 1..i : p[y].id = id => y <= x

\* A run grants what each part asks for, the later ones over the earlier ones.
LEMMA RunGrants ==
    ASSUME NEW c, GoodController(c), NEW req \in ChangeModes, NEW n \in Nat,
           n = Len(parts(req)), NEW g, Run(g, c, parts(req), n), NEW id \in Named
    PROVE  GrantedSoFar(parts(req), n, id, ValueOf(c, id), ValueOf(g[n], id))
  <1> PICK p : p = parts(req)
    OBVIOUS
  <1> PICK before : before = ValueOf(c, id)
    OBVIOUS
  <1>1. \A i \in 1..n : p[i] \in AppState \cup Resource
    BY RequestPart
  <1>2. \A i \in 0..n : GoodController(g[i])
    BY RunGood
  <1> DEFINE S == {i \in Nat : i <= n => GrantedSoFar(p, i, id, before, ValueOf(g[i], id))}
  <1>3. 0 \in S
    BY DEF Run, GrantedSoFar
  <1>4. ASSUME NEW i \in Nat, i \in S
        PROVE  i + 1 \in S
    <2> SUFFICES ASSUME i + 1 <= n
                 PROVE  GrantedSoFar(p, i + 1, id, before, ValueOf(g[i + 1], id))
      OBVIOUS
    <2>1. /\ i \in 0..(n - 1) /\ i + 1 \in 1..n /\ i \in 0..n
          /\ \A y \in 1..(i + 1) : y \in 1..i \/ y = i + 1
          /\ 1..i \subseteq 1..(i + 1) /\ i + 1 \in 1..(i + 1)
          /\ \A y \in 1..(i + 1) : y <= i + 1
      OBVIOUS
    <2>2. part_accepted(g[i], p[i + 1]) /\ g[i + 1] = process_part(g[i], p[i + 1])
      BY <2>1 DEF Run
    <2>3. /\ GrantedBy(p[i + 1], ValueOf(g[i + 1], p[i + 1].id))
          /\ p[i + 1].id # id => ValueOf(g[i + 1], id) = ValueOf(g[i], id)
      <3>1. GoodController(g[i]) /\ p[i + 1] \in AppState \cup Resource
        BY <1>1, <1>2, <2>1
      <3> QED
        BY <2>2, <3>1, PartGranted
    <2>4. GrantedSoFar(p, i, id, before, ValueOf(g[i], id))
      BY <1>4, <2>1
    <2>5. CASE p[i + 1].id = id
      <3>1. GrantedBy(p[i + 1], ValueOf(g[i + 1], id))
        BY <2>3, <2>5
      <3> QED
        BY <2>1, <2>5, <3>1 DEF GrantedSoFar
    <2>6. CASE p[i + 1].id # id
      <3> PICK v : v = ValueOf(g[i], id) /\ v = ValueOf(g[i + 1], id)
        BY <2>3, <2>6
      <3>1. GrantedSoFar(p, i, id, before, v)
        BY <2>4
      <3>2. CASE (\A x \in 1..i : p[x].id # id) /\ v = before
        <4>1. \A x \in 1..(i + 1) : p[x].id # id
          BY <2>1, <2>6, <3>2
        <4> QED
          BY <3>2, <4>1 DEF GrantedSoFar
      <3>3. CASE ~((\A x \in 1..i : p[x].id # id) /\ v = before)
        <4>1. PICK x \in 1..i : /\ p[x].id = id /\ GrantedBy(p[x], v)
                                /\ \A y \in 1..i : p[y].id = id => y <= x
          BY <3>1, <3>3 DEF GrantedSoFar
        <4>2. x \in 1..(i + 1) /\ \A y \in 1..(i + 1) : p[y].id = id => y <= x
          BY <2>1, <2>6, <4>1
        <4> QED
          BY <4>1, <4>2 DEF GrantedSoFar
      <3> QED
        BY <3>2, <3>3
    <2> QED
      BY <2>5, <2>6
  <1>5. \A i \in Nat : i \in S
    <2> HIDE DEF S
    <2> QED
      BY <1>3, <1>4, SetInduction
  <1> QED
    BY <1>5

\* What a resource was last asked for is what it was granted.
LEMMA LastResource ==
    ASSUME NEW req \in ChangeModes, NEW id \in ResourceID, NEW before, NEW v,
           GrantedSoFar(parts(req), Len(parts(req)), id, before, v)
    PROVE  \/ last_named(req.resources, id) = << >> /\ v = before
           \/ \E r : r.id = id /\ last_named(req.resources, id) = <<r>> /\ GrantedBy(r, v)
  <1>1. PICK p, s, t : p = parts(req) /\ s = req.app_states /\ t = req.resources
    OBVIOUS
  <1>2. PICK k \in Nat, n \in Nat : Parts(p, s, t, k, n)
    BY <1>1, RequestParts
  <1>3. /\ Len(p) = k + n /\ DOMAIN t = 1..n
        /\ \A i \in 1..k : p[i] \in AppState
        /\ \A i \in 1..n : p[k + i] = t[i] /\ p[k + i] \in Resource
    BY <1>2 DEF Parts
  <1>4. t \in Seq(Resource)
    BY <1>1 DEF ChangeModes
  <1>5. ASSUME NEW x \in 1..(k + n), p[x].id = id
        PROVE  x - k \in named(t, id) /\ p[x] = t[x - k] /\ k + (x - k) = x
    <2>1. x \notin 1..k
      BY <1>3, <1>5 DEF AppState, AppStateEnum, ResourceID
    <2>2. x - k \in 1..n /\ k + (x - k) = x
      BY <2>1
    <2>3. p[x] = t[x - k]
      BY <1>3, <2>2
    <2> QED
      BY <1>3, <1>5, <2>2, <2>3 DEF named
  <1>6. GrantedSoFar(p, k + n, id, before, v)
    BY <1>1, <1>3
  <1>7. CASE named(t, id) = {} /\ last_named(t, id) = << >>
    BY <1>1, <1>5, <1>6, <1>7 DEF GrantedSoFar
  <1>8. CASE \E j \in named(t, id) : /\ last_named(t, id) = <<t[j]>>
                                     /\ \A i \in named(t, id) : i <= j
    <2>1. PICK j \in named(t, id) : /\ last_named(t, id) = <<t[j]>>
                                    /\ \A i \in named(t, id) : i <= j
      BY <1>8
    <2>2. j \in 1..n /\ t[j].id = id
      BY <1>3, <2>1 DEF named
    <2>3. k + j \in 1..(k + n) /\ p[k + j].id = id
      BY <1>3, <2>2
    <2>4. PICK x \in 1..(k + n) : /\ p[x].id = id /\ GrantedBy(p[x], v)
                                  /\ \A y \in 1..(k + n) : p[y].id = id => y <= x
      BY <1>6, <2>3 DEF GrantedSoFar
    <2>5. x - k <= j /\ k + j <= x /\ p[x] = t[x - k]
      BY <1>5, <2>1, <2>3, <2>4
    <2>6. x - k = j
      BY <2>2, <2>5
    <2> QED
      BY <1>1, <2>1, <2>2, <2>4, <2>5, <2>6
  <1> QED
    BY <1>4, <1>7, <1>8, LastNamed

\* What an app state was last asked for is what it was granted.
LEMMA LastAppState ==
    ASSUME NEW req \in ChangeModes, NEW id \in {"Speech", "PhoneCall", "TurnByTurn"},
           NEW before, NEW v, GrantedSoFar(parts(req), Len(parts(req)), id, before, v)
    PROVE  \/ last_named(req.app_states, id) = << >> /\ v = before
           \/ \E s : s.id = id /\ last_named(req.app_states, id) = <<s>> /\ GrantedBy(s, v)
  <1>1. PICK p, s, t : p = parts(req) /\ s = req.app_states /\ t = req.resources
    OBVIOUS
  <1>2. PICK k \in Nat, n \in Nat : Parts(p, s, t, k, n)
    BY <1>1, RequestParts
  <1>3. /\ Len(p) = k + n /\ DOMAIN s = 1..k
        /\ \A i \in 1..k : p[i] = s[i]
        /\ \A i \in 1..n : p[k + i] \in Resource
    BY <1>2 DEF Parts
  <1>4. s \in Seq(AppState)
    BY <1>1 DEF ChangeModes
  <1>5. ASSUME NEW x \in 1..(k + n), p[x].id = id
        PROVE  x \in named(s, id) /\ p[x] = s[x]
    <2>1. x \in 1..k
      <3>1. CASE x \notin 1..k
        <4>1. x - k \in 1..n /\ k + (x - k) = x
          BY <3>1
        <4>2. p[x] \in Resource
          BY <1>3, <4>1
        <4> QED
          BY <1>5, <4>2 DEF Resource, ResourceID
      <3> QED
        BY <3>1
    <2> QED
      BY <1>3, <1>5, <2>1 DEF named
  <1>6. GrantedSoFar(p, k + n, id, before, v)
    BY <1>1, <1>3
  <1>7. CASE named(s, id) = {} /\ last_named(s, id) = << >>
    BY <1>1, <1>5, <1>6, <1>7 DEF GrantedSoFar
  <1>8. CASE \E j \in named(s, id) : /\ last_named(s, id) = <<s[j]>>
                                     /\ \A i \in named(s, id) : i <= j
    <2>1. PICK j \in named(s, id) : /\ last_named(s, id) = <<s[j]>>
                                    /\ \A i \in named(s, id) : i <= j
      BY <1>8
    <2>2. j \in 1..k /\ s[j].id = id
      BY <1>3, <2>1 DEF named
    <2>3. j \in 1..(k + n) /\ p[j].id = id
      BY <1>3, <2>2
    <2>4. PICK x \in 1..(k + n) : /\ p[x].id = id /\ GrantedBy(p[x], v)
                                  /\ \A y \in 1..(k + n) : p[y].id = id => y <= x
      BY <1>6, <2>3 DEF GrantedSoFar
    <2>5. x <= j /\ j <= x /\ p[x] = s[x]
      BY <1>5, <2>1, <2>3, <2>4
    <2>6. x = j
      BY <2>2, <2>5
    <2> QED
      BY <1>1, <2>1, <2>2, <2>4, <2>5, <2>6
  <1> QED
    BY <1>4, <1>7, <1>8, LastNamed

\* An accepted request has what it asks for last (process_request).
LEMMA RequestGranted ==
    ASSUME NEW c, GoodController(c), NEW req \in ChangeModes, request_accepted(c, req)
    PROVE  Granted(req, c, process_request(c, req))
  <1> PICK d : d = process_request(c, req)
    OBVIOUS
  <1>1. PICK n \in Nat : n = Len(parts(req))
    BY RequestPart
  <1>2. PICK g : Run(g, c, parts(req), n) /\ d = g[n]
    BY <1>1, AcceptedRuns
  <1>3. ASSUME NEW id \in Named
        PROVE  GrantedSoFar(parts(req), Len(parts(req)), id, ValueOf(c, id), ValueOf(d, id))
    BY <1>1, <1>2, RunGrants
  <1>4. ASSUME NEW id \in ResourceID
        PROVE  GrantedResource(req, id, c[id], d[id])
    <2>1. id \in Named /\ ValueOf(c, id) = c[id] /\ ValueOf(d, id) = d[id]
      BY DEF Named, ValueOf
    <2>2. \/ last_named(req.resources, id) = << >> /\ d[id] = c[id]
          \/ \E r : r.id = id /\ last_named(req.resources, id) = <<r>> /\ GrantedBy(r, d[id])
      <3>1. GrantedSoFar(parts(req), Len(parts(req)), id, c[id], d[id])
        BY <1>3, <2>1
      <3> QED
        BY <3>1, LastResource
    <2> QED
      BY <2>2 DEF GrantedResource, GrantedBy
  <1>5. ASSUME NEW id \in {"PhoneCall", "TurnByTurn"}
        PROVE  GrantedSwitch(req, id, ValueOf(c, id), ValueOf(d, id))
    <2>1. id \in Named /\ id \in {"Speech", "PhoneCall", "TurnByTurn"} /\ id \notin ResourceID
          /\ id # "Speech"
      BY DEF Named, ResourceID
    <2>2. \/ last_named(req.app_states, id) = << >> /\ ValueOf(d, id) = ValueOf(c, id)
          \/ \E s : /\ s.id = id /\ last_named(req.app_states, id) = <<s>>
                    /\ GrantedBy(s, ValueOf(d, id))
      <3>1. GrantedSoFar(parts(req), Len(parts(req)), id, ValueOf(c, id), ValueOf(d, id))
        BY <1>3, <2>1
      <3> QED
        BY <2>1, <3>1, LastAppState
    <2>3. \A s : s.id = id /\ GrantedBy(s, ValueOf(d, id)) =>
            (s.state = "On" <=> ValueOf(d, id) = "Accessory")
      BY <2>1 DEF GrantedBy
    <2> QED
      BY <2>2, <2>3 DEF GrantedSwitch
  <1>6. /\ ValueOf(c, "PhoneCall") = c.phone_call /\ ValueOf(d, "PhoneCall") = d.phone_call
        /\ ValueOf(c, "TurnByTurn") = c.turn_by_turn /\ ValueOf(d, "TurnByTurn") = d.turn_by_turn
        /\ ValueOf(c, "Speech") = c.speech /\ ValueOf(d, "Speech") = d.speech
        /\ "Speech" \in Named /\ "Speech" \notin ResourceID
    BY DEF ValueOf, ResourceID, Named
  <1>7. d.speech = LET last == last_named(req.app_states, "Speech")
                   IN  IF last = << >> THEN c.speech ELSE speech_of(last[1].speech_mode)
    <2>1. \/ last_named(req.app_states, "Speech") = << >> /\ d.speech = c.speech
          \/ \E s : /\ s.id = "Speech" /\ last_named(req.app_states, "Speech") = <<s>>
                    /\ GrantedBy(s, d.speech)
      <3>1. GrantedSoFar(parts(req), Len(parts(req)), "Speech", c.speech, d.speech)
        BY <1>3, <1>6
      <3> QED
        BY <3>1, LastAppState
    <2>2. \A s : s.id = "Speech" /\ GrantedBy(s, d.speech) => d.speech = speech_of(s.speech_mode)
      BY <1>6 DEF GrantedBy
    <2> QED
      BY <2>1, <2>2
  <1>8. /\ GrantedSwitch(req, "PhoneCall", c.phone_call, d.phone_call)
        /\ GrantedSwitch(req, "TurnByTurn", c.turn_by_turn, d.turn_by_turn)
    BY <1>5, <1>6
  <1> QED
    BY <1>4, <1>7, <1>8 DEF Granted
-----------------------------------------------------------------------------
\* Where a list names an id once, that is what it named last.
LEMMA NamedOnce ==
    ASSUME NEW S, NEW list \in Seq(S), NEW id, NEW t \in DOMAIN list, list[t].id = id,
           \A j \in DOMAIN list : list[j].id = id => j = t
    PROVE  last_named(list, id) = <<list[t]>>
  <1>1. named(list, id) = {t}
    BY DEF named
  <1> QED
    BY <1>1, LastNamed

\* A list that does not name an id has no last one.
LEMMA NotNamed ==
    ASSUME NEW list, NEW id, \A j \in DOMAIN list : list[j].id # id
    PROVE  last_named(list, id) = << >>
  BY DEF last_named, named

\* Lists of up to three elements.
LEMMA ShortLists ==
    ASSUME NEW a, NEW b, NEW c
    PROVE  /\ <<a>> \in Seq({a}) /\ DOMAIN <<a>> = 1..1 /\ <<a>>[1] = a
           /\ <<a, b>> \in Seq({a, b}) /\ DOMAIN <<a, b>> = 1..2
           /\ <<a, b>>[1] = a /\ <<a, b>>[2] = b /\ <<a>> \o <<b>> = <<a, b>>
           /\ <<a, b, c>> \in Seq({a, b, c}) /\ DOMAIN <<a, b, c>> = 1..3
           /\ <<a, b, c>>[1] = a /\ <<a, b, c>>[2] = b /\ <<a, b, c>>[3] = c
  <1>1. <<a>> \in Seq({a}) /\ Len(<<a>>) = 1 /\ <<a>>[1] = a
    OBVIOUS
  <1>2. <<a, b>> \in Seq({a, b}) /\ Len(<<a, b>>) = 2 /\ <<a, b>>[1] = a /\ <<a, b>>[2] = b
    OBVIOUS
  <1>3. <<a, b, c>> \in Seq({a, b, c}) /\ Len(<<a, b, c>>) = 3
    OBVIOUS
  <1>4. <<a, b, c>>[1] = a /\ <<a, b, c>>[2] = b /\ <<a, b, c>>[3] = c
    OBVIOUS
  <1>5. <<a>> \o <<b>> = <<a, b>>
    <2>1. <<a>> \in Seq({a, b}) /\ b \in {a, b}
      OBVIOUS
    <2>2. <<a>> \o <<b>> = Append(<<a>>, b)
      BY <2>1, AnswerSeq
    <2>3. Append(<<a>>, b) = <<a, b>>
      <3>1. PICK u : u = Append(<<a>>, b)
        OBVIOUS
      <3>2. u \in Seq({a, b}) /\ Appended(u, <<a>>, b)
        BY <2>1, <3>1, AppendSeq
      <3>3. Len(u) = 2 /\ u[1] = a /\ u[2] = b
        BY <1>1, <3>2 DEF Appended
      <3>4. PICK w \in Seq({a, b}) : w = <<a, b>>
        BY <1>2
      <3>5. Len(w) = 2 /\ w[1] = a /\ w[2] = b
        BY <1>2, <3>4
      <3>6. \A i \in 1..Len(u) : u[i] = w[i]
        BY <3>3, <3>5
      <3>7. u = w
        BY <3>2, <3>3, <3>5, <3>6, SeqEqual
      <3> QED
        BY <3>1, <3>4, <3>7
    <2> QED
      BY <2>2, <2>3
  <1>6. DOMAIN <<a>> = 1..1 /\ DOMAIN <<a, b>> = 1..2 /\ DOMAIN <<a, b, c>> = 1..3
    BY <1>1, <1>2, <1>3, LenProperties
  <1> QED
    BY <1>1, <1>2, <1>3, <1>4, <1>5, <1>6

\* What is sent of each app state in /info (serialize_to_info_request).
LEMMA InfoAppStates ==
    ASSUME NEW c, NEW list, list = serialize_to_info_request(c).modes.app_states
    PROVE  /\ last_named(list, "PhoneCall") = <<app_state("PhoneCall", to_switch(c.phone_call))>>
           /\ last_named(list, "TurnByTurn") = <<app_state("TurnByTurn", to_switch(c.turn_by_turn))>>
           /\ last_named(list, "Speech") =
                <<speech_state(IF c.speech.entity = "Accessory" THEN c.speech.mode ELSE "None")>>
  <1>1. PICK a : a = app_state("PhoneCall", to_switch(c.phone_call))
    OBVIOUS
  <1>2. PICK b : b = app_state("TurnByTurn", to_switch(c.turn_by_turn))
    OBVIOUS
  <1>3. PICK s : s = speech_state(IF c.speech.entity = "Accessory" THEN c.speech.mode ELSE "None")
    OBVIOUS
  <1>4. list = <<a, b, s>>
    BY <1>1, <1>2, <1>3 DEF serialize_to_info_request
  <1>5. a.id = "PhoneCall" /\ b.id = "TurnByTurn" /\ s.id = "Speech"
    BY <1>1, <1>2, <1>3 DEF app_state, speech_state
  <1>6. /\ list \in Seq({a, b, s}) /\ DOMAIN list = 1..3
        /\ list[1] = a /\ list[2] = b /\ list[3] = s
    BY <1>4, ShortLists
  <1>7. last_named(list, "PhoneCall") = <<list[1]>>
    <2>1. 1 \in DOMAIN list /\ list[1].id = "PhoneCall"
          /\ \A j \in DOMAIN list : list[j].id = "PhoneCall" => j = 1
      BY <1>5, <1>6
    <2> QED
      BY <1>6, <2>1, NamedOnce
  <1>8. last_named(list, "TurnByTurn") = <<list[2]>>
    BY <1>5, <1>6, NamedOnce
  <1>9. last_named(list, "Speech") = <<list[3]>>
    BY <1>5, <1>6, NamedOnce
  <1> QED
    BY <1>1, <1>2, <1>3, <1>6, <1>7, <1>8, <1>9

\* What is sent of each resource in /info (serialize_to_info_request).
LEMMA InfoResources ==
    ASSUME NEW c, NEW list, list = serialize_to_info_request(c).modes.resources,
           NEW id \in ResourceID
    PROVE  last_named(list, id) = serialize_to_info_transaction(c[id], id)
  <1>1. PICK s, t : /\ s = serialize_to_info_transaction(c.screen, "screen")
                    /\ t = serialize_to_info_transaction(c.main_audio, "main_audio")
    OBVIOUS
  <1>2. list = s \o t
    BY <1>1 DEF serialize_to_info_request
  <1>0. ASSUME NEW m, NEW i
        PROVE  LET o == serialize_to_info_transaction(m, i)
               IN  o = << >> \/ \E r : o = <<r>> /\ r.id = i
    <2> PICK r : r = borrow(i, "UserInitiated", m.unborrow_constraint)
      OBVIOUS
    <2>1. r.id = i
      BY DEF borrow, untake
    <2> QED
      BY <2>1 DEF serialize_to_info_transaction
  <1>3. s = << >> \/ \E r : s = <<r>> /\ r.id = "screen"
    BY <1>0, <1>1
  <1>4. t = << >> \/ \E r : t = <<r>> /\ r.id = "main_audio"
    BY <1>0, <1>1
  <1>5. last_named(list, "screen") = s /\ last_named(list, "main_audio") = t
    <2>1. CASE s = << >> /\ t = << >>
      <3>1. list = << >> /\ DOMAIN list = {}
        BY <1>2, <2>1
      <3> QED
        BY <2>1, <3>1, NotNamed
    <2>2. CASE s = << >> /\ t # << >>
      <3>1. PICK r : t = <<r>> /\ r.id = "main_audio"
        BY <1>4, <2>2
      <3>2. list = <<r>>
        BY <1>2, <2>2, <3>1
      <3>3. list \in Seq({r}) /\ DOMAIN list = 1..1 /\ list[1] = r
        BY <3>2, ShortLists
      <3>4. last_named(list, "main_audio") = <<list[1]>>
        BY <3>1, <3>3, NamedOnce
      <3>5. last_named(list, "screen") = << >>
        BY <3>1, <3>3, NotNamed
      <3> QED
        BY <2>2, <3>1, <3>3, <3>4, <3>5
    <2>3. CASE s # << >> /\ t = << >>
      <3>1. PICK r : s = <<r>> /\ r.id = "screen"
        BY <1>3, <2>3
      <3>2. list = <<r>>
        BY <1>2, <2>3, <3>1
      <3>3. list \in Seq({r}) /\ DOMAIN list = 1..1 /\ list[1] = r
        BY <3>2, ShortLists
      <3>4. last_named(list, "screen") = <<list[1]>>
        BY <3>1, <3>3, NamedOnce
      <3>5. last_named(list, "main_audio") = << >>
        BY <3>1, <3>3, NotNamed
      <3> QED
        BY <2>3, <3>1, <3>3, <3>4, <3>5
    <2>4. CASE s # << >> /\ t # << >>
      <3>1. PICK r : s = <<r>> /\ r.id = "screen"
        BY <1>3, <2>4
      <3>2. PICK q : t = <<q>> /\ q.id = "main_audio"
        BY <1>4, <2>4
      <3>6. list = <<r, q>>
        BY <1>2, <3>1, <3>2, ShortLists
      <3>3. /\ list \in Seq({r, q}) /\ DOMAIN list = 1..2
            /\ list[1] = r /\ list[2] = q
        BY <3>6, ShortLists
      <3>4. last_named(list, "screen") = <<list[1]>>
        BY <3>1, <3>2, <3>3, NamedOnce
      <3>5. last_named(list, "main_audio") = <<list[2]>>
        BY <3>1, <3>2, <3>3, NamedOnce
      <3> QED
        BY <3>1, <3>2, <3>3, <3>4, <3>5
    <2> QED
      BY <2>1, <2>2, <2>3, <2>4
  <1> QED
    BY <1>1, <1>5 DEF ResourceID

\* The controller that an /info message makes is good (from_change_modes).
LEMMA FromInfoGood ==
    ASSUME NEW info \in InfoModes
    PROVE  GoodController(from_change_modes(info))
  <1> PICK req : req = info.modes
    OBVIOUS
  <1>1. /\ req.app_states \in Seq(AppState) /\ req.resources \in Seq(Resource)
        /\ info.screen_perm \in PermanentEntity /\ info.main_audio_perm \in PermanentEntity
    BY DEF InfoModes, ChangeModes
  <1>2. ASSUME NEW id, NEW perm \in PermanentEntity
        PROVE  GoodManager(initial_resource(perm, req, id))
    <2> PICK last : last = last_named(req.resources, id)
      OBVIOUS
    <2>1. last = << >> \/ \E r \in Resource : last = <<r>>
      <3>1. \A t \in named(req.resources, id) : req.resources[t] \in Resource
        BY <1>1, LenProperties, ElementOfSeq DEF named
      <3> QED
        BY <1>1, <3>1, LastNamed
    <2> QED
      BY <2>1, InitialGood DEF initial_resource
  <1>3. \A id : initial_switch(req, id) \in EntityEnum
    BY DEF initial_switch, EntityEnum
  <1>4. initial_speech(req) \in SpeechState
    <2> PICK last : last = last_named(req.app_states, "Speech")
      OBVIOUS
    <2>1. last = << >> \/ \E s \in AppState : last = <<s>>
      <3>1. \A t \in named(req.app_states, "Speech") : req.app_states[t] \in AppState
        BY <1>1, LenProperties, ElementOfSeq DEF named
      <3> QED
        BY <1>1, <3>1, LastNamed
    <2>2. NoSpeech \in SpeechState
      BY DEF NoSpeech, SpeechState, EntityEnum, SpeechMode
    <2>3. \A mode \in SpeechMode : speech_of(mode) \in SpeechState
      BY DEF speech_of, SpeechState, EntityEnum
    <2>4. last # << >> /\ last[1].speech_mode # Absent => last[1].speech_mode \in SpeechMode
      BY <2>1 DEF AppState
    <2>5. initial_speech(req) = IF last = << >> \/ last[1].speech_mode = Absent THEN NoSpeech
                                ELSE speech_of(last[1].speech_mode)
      BY DEF initial_speech
    <2> QED
      BY <2>2, <2>3, <2>4, <2>5
  <1> PICK c : c = from_change_modes(info)
    OBVIOUS
  <1>5. c = [screen |-> initial_resource(info.screen_perm, req, "screen"),
             main_audio |-> initial_resource(info.main_audio_perm, req, "main_audio"),
             phone_call |-> initial_switch(req, "PhoneCall"), speech |-> initial_speech(req),
             turn_by_turn |-> initial_switch(req, "TurnByTurn")]
    BY DEF from_change_modes
  <1>6. /\ GoodManager(initial_resource(info.screen_perm, req, "screen"))
        /\ GoodManager(initial_resource(info.main_audio_perm, req, "main_audio"))
    BY <1>1, <1>2
  <1>7. c \in Controller
    BY <1>3, <1>4, <1>5, <1>6 DEF Controller, GoodManager
  <1> QED
    BY <1>5, <1>6, <1>7 DEF GoodController
-----------------------------------------------------------------------------
\* The inductive invariant: types, and good resources.
IInv == TypeOK /\ BorrowsCounted

\* In a state of the right type the borrow counts are right exactly when every
\* resource is good.
LEMMA GoodResources ==
    ASSUME TypeOK
    PROVE  BorrowsCounted <=> GoodManager(modes.screen) /\ GoodManager(modes.main_audio)
  BY DEF TypeOK, BorrowsCounted, GoodManager, Controller, ResourceID

\* A session starts in a state of the invariant.
LEMMA InitInv == Init => IInv
  <1> SUFFICES ASSUME Init PROVE IInv
    OBVIOUS
  <1>1. PICK info \in Info : modes = from_change_modes(info)
    BY DEF Init
  <1>2. info \in InfoModes
    BY RequestAssumption
  <1>3. GoodController(from_change_modes(info))
    BY <1>2, FromInfoGood
  <1>4. modes \in Controller /\ GoodManager(modes.screen) /\ GoodManager(modes.main_audio)
    BY <1>1, <1>3 DEF GoodController
  <1>5. TypeOK
    BY <1>4 DEF TypeOK, Init
  <1> QED
    BY <1>4, <1>5, GoodResources DEF IInv

\* The controller of a state of the invariant is good, and the other way round.
LEMMA InvGood == IInv => GoodController(modes)
  BY GoodResources DEF IInv, TypeOK, GoodController

\* process_request keeps the invariant.
LEMMA AccessoryInv ==
    ASSUME IInv, NEW req \in AccessoryRequests, AccessoryRequest(req)
    PROVE  IInv'
  <1>1. req \in ChangeModes
    BY RequestAssumption
  <1>2. modes' = process_request(modes, req) /\ status' \in {0, 1}
    BY DEF AccessoryRequest
  <1>3. GoodController(process_request(modes, req))
    BY <1>1, InvGood, RequestGood
  <1>4. modes' \in Controller /\ GoodManager(modes'.screen) /\ GoodManager(modes'.main_audio)
    BY <1>2, <1>3 DEF GoodController
  <1> QED
    BY <1>2, <1>4 DEF IInv, TypeOK, BorrowsCounted, GoodManager, ResourceID

\* A request of the controller for one resource keeps the invariant.
LEMMA ControllerInv ==
    ASSUME IInv, NEW r \in ControllerRequests, ControllerRequest(r)
    PROVE  IInv'
  <1> PICK id : id = r.id
    OBVIOUS
  <1>1. r \in Resource /\ "Controller" \in Actor /\ id \in ResourceID
    BY RequestAssumption DEF Actor, Resource
  <1>2. modes \in Controller /\ \A i \in ResourceID : GoodManager(modes[i])
    BY GoodResources DEF IInv, TypeOK, ResourceID
  <1>3. status' \in {0, 1}
    BY DEF ControllerRequest
  <1>4. CASE ~accepts(modes[id], r, "Controller")
    BY <1>3, <1>4 DEF ControllerRequest, IInv, TypeOK, BorrowsCounted
  <1>5. CASE accepts(modes[id], r, "Controller")
    <2> DEFINE n == outcome(modes[id], r, "Controller")
    <2>1. modes' = [modes EXCEPT ![id] = n]
      BY <1>5 DEF ControllerRequest
    <2>2. GoodManager(n)
      BY <1>1, <1>2, <1>5, OutcomeGood
    <2> HIDE DEF n
    <2>3. modes' \in Controller
      BY <1>1, <1>2, <2>1, <2>2 DEF Controller, GoodManager, ResourceID
    <2>4. GoodManager(modes'.screen) /\ GoodManager(modes'.main_audio)
      BY <1>1, <1>2, <2>1, <2>2 DEF Controller, ResourceID
    <2> QED
      BY <1>3, <2>3, <2>4 DEF IInv, TypeOK, BorrowsCounted, GoodManager, ResourceID
  <1> QED
    BY <1>4, <1>5

\* IInv is an invariant of every session.
LEMMA Invariance == Spec => []IInv
  <1>1. IInv /\ [Next]_vars => IInv'
    <2> SUFFICES ASSUME IInv, [Next]_vars PROVE IInv'
      OBVIOUS
    <2>1. CASE AccessoryStep
      BY <2>1, AccessoryInv DEF AccessoryStep
    <2>2. CASE ControllerStep
      BY <2>2, ControllerInv DEF ControllerStep
    <2>3. CASE UNCHANGED vars
      BY <2>3 DEF vars, IInv, TypeOK, BorrowsCounted
    <2> QED
      BY <2>1, <2>2, <2>3 DEF Next
  <1> QED
    BY <1>1, InitInv, PTL DEF Spec

\* The controller and the status keep their types (ResourceController,
\* ChangeModesResponse) whatever the accessory requests.
THEOREM ResourcesTypeCorrect == Spec => []TypeOK
  BY Invariance, PTL DEF IInv

\* A resource has a borrow count exactly while it is borrowed, however often the
\* two sides take, untake, borrow and unborrow it (take_by, untake_by, borrow_by,
\* unborrow_by).
THEOREM BorrowsAlwaysCounted == Spec => []BorrowsCounted
  BY Invariance, PTL DEF IInv

\* No request of one side, whatever its parts and their order, takes the ownership or
\* the use of a resource from the other side where its constraints deny it (take_by,
\* borrow_by, and the loop of process_request).
THEOREM ConstraintsAlwaysHonoured == Spec => []ConstraintsHonoured
  <1>1. ASSUME IInv
        PROVE  ConstraintsHonoured
    <2>1. GoodController(modes)
      BY <1>1, InvGood
    <2>2. ASSUME NEW id \in ResourceID, NEW req \in AccessoryRequests
          PROVE  Honours("Accessory", modes[id], process_request(modes, req)[id],
                         requested(req, id))
      <3>1. req \in ChangeModes
        BY RequestAssumption
      <3> QED
        BY <2>1, <3>1, RequestHonours
    <2>3. ASSUME NEW id \in ResourceID, NEW r \in ControllerRequests, r.id = id,
                 accepts(modes[id], r, "Controller")
          PROVE  Honours("Controller", modes[id], outcome(modes[id], r, "Controller"), {r})
      <3>1. modes[id] \in Manager
        BY <2>1 DEF GoodController, GoodManager, ResourceID
      <3>2. r \in {r} /\ {r} \in SUBSET Resource /\ "Controller" \in Actor
        BY RequestAssumption DEF Actor
      <3>3. Kept("Controller", modes[id], modes[id], {r})
        BY KeptFirst
      <3>4. Kept("Controller", modes[id], outcome(modes[id], r, "Controller"), {r})
        BY <2>3, <3>1, <3>2, <3>3, KeptStep
      <3> QED
        BY <3>1, <3>2, <3>4, KeptHonours
    <2> QED
      BY <2>2, <2>3 DEF ConstraintsHonoured
  <1> QED
    BY <1>1, Invariance, PTL

\* An accessory that is answered 0 has everything it asked for last, and one that is
\* refused has changed nothing (the loop over a copy of process_request).
THEOREM RequestsAlwaysAnswered == Spec => []RequestsAnswered
  <1>1. ASSUME IInv
        PROVE  RequestsAnswered
    <2> SUFFICES ASSUME NEW req \in AccessoryRequests
                 PROVE  IF request_accepted(modes, req)
                        THEN Granted(req, modes, process_request(modes, req))
                        ELSE process_request(modes, req) = modes
      BY DEF RequestsAnswered
    <2>1. req \in ChangeModes
      BY RequestAssumption
    <2>2. CASE request_accepted(modes, req)
      BY <1>1, <2>1, <2>2, InvGood, RequestGranted
    <2>3. CASE ~request_accepted(modes, req)
      BY <2>3 DEF process_request
    <2> QED
      BY <2>2, <2>3
  <1> QED
    BY <1>1, Invariance, PTL

\* An accessory that speaks has a mode to say so.
SpeechNamed == modes.speech.entity = "Accessory" => modes.speech.mode # "None"

\* Only requests of the accessory change who speaks (speech_of).
LEMMA SpeechInv == Spec => []SpeechNamed
  <1>1. ASSUME NEW mode
        PROVE  speech_of(mode).entity = "Accessory" => speech_of(mode).mode # "None"
    BY DEF speech_of
  <1>2. ASSUME Init
        PROVE  SpeechNamed
    <2> PICK info \in Info : modes = from_change_modes(info)
      BY <1>2 DEF Init
    <2>1. modes.speech = NoSpeech \/ \E mode : modes.speech = speech_of(mode)
      BY DEF from_change_modes, initial_speech
    <2>2. NoSpeech.entity # "Accessory"
      BY DEF NoSpeech
    <2> QED
      BY <1>1, <2>1, <2>2 DEF SpeechNamed
  <1>3. ASSUME IInv, SpeechNamed, [Next]_vars
        PROVE  SpeechNamed'
    <2>1. ASSUME NEW req \in AccessoryRequests, AccessoryRequest(req)
          PROVE  SpeechNamed'
      <3>1. req \in ChangeModes /\ modes' = process_request(modes, req)
        BY <2>1, RequestAssumption DEF AccessoryRequest
      <3>2. CASE request_accepted(modes, req)
        <4>1. Granted(req, modes, modes')
          BY <1>3, <3>1, <3>2, InvGood, RequestGranted
        <4>2. modes'.speech = modes.speech \/ \E mode : modes'.speech = speech_of(mode)
          BY <4>1 DEF Granted
        <4> QED
          BY <1>1, <1>3, <4>2 DEF SpeechNamed
      <3>3. CASE ~request_accepted(modes, req)
        BY <1>3, <3>1, <3>3 DEF process_request, SpeechNamed
      <3> QED
        BY <3>2, <3>3
    <2>2. ASSUME NEW r \in ControllerRequests, ControllerRequest(r)
          PROVE  SpeechNamed'
      <3>1. r.id # "speech"
        BY RequestAssumption DEF Resource, ResourceID
      <3>2. modes'.speech = modes.speech
        <4>1. modes \in Controller
          BY <1>3 DEF IInv, TypeOK
        <4> QED
          BY <2>2, <3>1, <4>1 DEF ControllerRequest, Controller
      <3> QED
        BY <1>3, <3>2 DEF SpeechNamed
    <2> QED
      BY <1>3, <2>1, <2>2 DEF Next, AccessoryStep, ControllerStep, vars, SpeechNamed
  <1> QED
    BY <1>2, <1>3, Invariance, PTL DEF Spec

\* What /info says of one resource (serialize_to_permanent_entity,
\* serialize_to_info_transaction), read back by the peer.
LEMMA InfoResource ==
    ASSUME NEW m \in Manager, NEW id, NEW n,
           n = apply_initial_transaction(from_permanent_entity(serialize_to_permanent_entity(m)),
                                         serialize_to_info_transaction(m, id))
    PROVE  /\ to_pair(n.state) = IF m.state = "ControllerBorrowed"
                                 THEN <<"Accessory", "Accessory">> ELSE to_pair(m.state)
           /\ owner(m.state) = "Accessory" =>
                n.take_constraint = m.take_constraint /\ n.borrow_constraint = m.borrow_constraint
           /\ m.state = "AccessoryBorrowed" => n.unborrow_constraint = m.unborrow_constraint
  <1> PICK perm : perm = serialize_to_permanent_entity(m)
    OBVIOUS
  <1> PICK base : base = from_permanent_entity(perm)
    OBVIOUS
  <1> PICK r : r = serialize_to_info_transaction(m, id)
    OBVIOUS
  <1>0. n = apply_initial_transaction(base, r)
    OBVIOUS
  <1>1. CASE owner(m.state) = "Accessory"
    <2>1. m.state \in {"AccessoryHas", "ControllerBorrowed"}
      BY <1>1 DEF owner
    <2>2. /\ perm.owner = "Accessory" /\ perm.take_constraint = m.take_constraint
          /\ perm.borrow_constraint = m.borrow_constraint
      BY <1>1 DEF serialize_to_permanent_entity
    <2>3. base = NewManager("AccessoryHas", m.take_constraint, m.borrow_constraint)
      BY <2>2 DEF from_permanent_entity
    <2>4. r = << >>
      BY <2>1 DEF serialize_to_info_transaction
    <2>5. n = base
      BY <1>0, <2>4 DEF apply_initial_transaction
    <2>6. /\ n.state = "AccessoryHas" /\ n.take_constraint = m.take_constraint
          /\ n.borrow_constraint = m.borrow_constraint
      BY <2>3, <2>5 DEF NewManager
    <2>7. m.state # "AccessoryBorrowed"
      BY <2>1
    <2>8. to_pair("AccessoryHas") = <<"Accessory", "Accessory">>
      BY DEF to_pair, is_unclaimed, entity, owner
    <2> QED
      BY <2>1, <2>6, <2>7, <2>8
  <1>2. CASE owner(m.state) # "Accessory"
    <2>1. m.state \in {"ControllerHas", "AccessoryBorrowed", "Invalid"}
      BY <1>2 DEF owner, Manager, ResourceState
    <2>2. perm.owner # "Accessory"
      BY <1>2 DEF serialize_to_permanent_entity
    <2>3. base = controller_owned
      BY <2>2 DEF from_permanent_entity
    <2>4. base.state = "ControllerHas"
      BY <2>3 DEF controller_owned, NewManager
    <2>5. CASE m.state = "AccessoryBorrowed"
      <3>1. /\ r # << >> /\ r[1].type = "Borrow"
            /\ r[1].unborrow_constraint = m.unborrow_constraint
        BY <2>5 DEF serialize_to_info_transaction, borrow, untake
      <3>2. owner(base.state) # "Accessory"
        BY <2>4 DEF owner
      <3>3. m.unborrow_constraint # Absent
        BY DEF Manager, ResourceConstraint, Absent
      <3>4. n = [base EXCEPT !.state = "AccessoryBorrowed", !.borrows_count = 1,
                             !.unborrow_constraint = m.unborrow_constraint]
        BY <1>0, <3>1, <3>2, <3>3 DEF apply_initial_transaction
      <3>5. n.state = "AccessoryBorrowed" /\ n.unborrow_constraint = m.unborrow_constraint
        BY <2>3, <3>4 DEF controller_owned, NewManager
      <3> QED
        BY <1>2, <2>5, <3>5
    <2>6. CASE m.state # "AccessoryBorrowed"
      <3>1. r = << >>
        BY <2>6 DEF serialize_to_info_transaction
      <3>2. n.state = "ControllerHas"
        BY <1>0, <2>4, <3>1 DEF apply_initial_transaction
      <3>3. to_pair("ControllerHas") = to_pair("Invalid")
        BY DEF to_pair, is_unclaimed, entity, owner
      <3> QED
        BY <1>2, <2>1, <2>6, <3>2, <3>3
    <2> QED
      BY <2>5, <2>6
  <1> QED
    BY <1>1, <1>2

\* A peer that rebuilds the controller from /info sees the same users, owners and
\* constraints (serialize_to_info_request, from_change_modes).
THEOREM InfoCarriesModes == Spec => []InfoRoundTrip
  <1>1. ASSUME IInv, SpeechNamed
        PROVE  InfoRoundTrip
    <2> PICK info : info = serialize_to_info_request(modes)
      OBVIOUS
    <2> PICK rebuilt : rebuilt = from_change_modes(info)
      OBVIOUS
    <2> PICK states : states = info.modes.app_states
      OBVIOUS
    <2> PICK list : list = info.modes.resources
      OBVIOUS
    <2>1. /\ modes.screen \in Manager /\ modes.main_audio \in Manager
          /\ modes.speech \in SpeechState
      BY <1>1 DEF IInv, TypeOK, Controller
    <2>2. ASSUME NEW id \in ResourceID
          PROVE  /\ modes[id] \in Manager
                 /\ rebuilt[id] = apply_initial_transaction(
                      from_permanent_entity(serialize_to_permanent_entity(modes[id])),
                      serialize_to_info_transaction(modes[id], id))
      <3>1. last_named(list, id) = serialize_to_info_transaction(modes[id], id)
        BY InfoResources
      <3>2. CASE id = "screen"
        <4>1. rebuilt[id] = initial_resource(info.screen_perm, info.modes, "screen")
          BY <3>2 DEF from_change_modes
        <4>2. info.screen_perm = serialize_to_permanent_entity(modes[id])
          BY <3>2 DEF serialize_to_info_request
        <4> QED
          BY <2>1, <3>1, <3>2, <4>1, <4>2 DEF initial_resource
      <3>3. CASE id = "main_audio"
        <4>1. rebuilt[id] = initial_resource(info.main_audio_perm, info.modes, "main_audio")
          BY <3>3 DEF from_change_modes
        <4>2. info.main_audio_perm = serialize_to_permanent_entity(modes[id])
          BY <3>3 DEF serialize_to_info_request
        <4> QED
          BY <2>1, <3>1, <3>3, <4>1, <4>2 DEF initial_resource
      <3> QED
        BY <3>2, <3>3 DEF ResourceID
    <2>3. ASSUME NEW id \in ResourceID
          PROVE  LET m == modes[id]
                     n == rebuilt[id]
                 IN  /\ to_pair(n.state) = IF m.state = "ControllerBorrowed"
                                           THEN <<"Accessory", "Accessory">> ELSE to_pair(m.state)
                     /\ owner(m.state) = "Accessory" =>
                          /\ n.take_constraint = m.take_constraint
                          /\ n.borrow_constraint = m.borrow_constraint
                     /\ m.state = "AccessoryBorrowed" =>
                          n.unborrow_constraint = m.unborrow_constraint
      BY <2>2, InfoResource
    <2>4. /\ last_named(states, "PhoneCall") =
               <<app_state("PhoneCall", to_switch(modes.phone_call))>>
          /\ last_named(states, "TurnByTurn") =
               <<app_state("TurnByTurn", to_switch(modes.turn_by_turn))>>
          /\ last_named(states, "Speech") =
               <<speech_state(IF modes.speech.entity = "Accessory" THEN modes.speech.mode
                              ELSE "None")>>
      BY InfoAppStates
    <2>5. rebuilt.phone_call = "Accessory" <=> modes.phone_call = "Accessory"
      <3>1. rebuilt.phone_call = initial_switch(info.modes, "PhoneCall")
        BY DEF from_change_modes
      <3> QED
        BY <2>4, <3>1 DEF initial_switch, app_state, to_switch
    <2>6. rebuilt.turn_by_turn = "Accessory" <=> modes.turn_by_turn = "Accessory"
      <3>1. rebuilt.turn_by_turn = initial_switch(info.modes, "TurnByTurn")
        BY DEF from_change_modes
      <3> QED
        BY <2>4, <3>1 DEF initial_switch, app_state, to_switch
    <2>7. ASSUME modes.speech.entity = "Accessory"
          PROVE  rebuilt.speech = modes.speech
      <3> PICK sp \in SpeechState : sp = modes.speech /\ sp.entity = "Accessory" /\ sp.mode # "None"
        BY <1>1, <2>1, <2>7 DEF SpeechNamed
      <3>1. sp.mode # Absent
        BY DEF SpeechState, SpeechMode, Absent
      <3>2. rebuilt.speech = initial_speech(info.modes)
        BY DEF from_change_modes
      <3>3. last_named(states, "Speech") = <<speech_state(sp.mode)>>
        BY <2>4
      <3>6. speech_state(sp.mode).speech_mode = sp.mode
        BY DEF speech_state
      <3>4. rebuilt.speech = speech_of(sp.mode)
        BY <3>1, <3>2, <3>3, <3>6 DEF initial_speech
      <3>5. sp = [entity |-> "Accessory", mode |-> sp.mode]
        BY DEF SpeechState
      <3> QED
        BY <3>4, <3>5 DEF speech_of
    <2> QED
      BY <2>3, <2>5, <2>6, <2>7 DEF InfoRoundTrip
  <1> QED
    BY <1>1, Invariance, SpeechInv, PTL
=============================================================================
