------------------------------- MODULE CacheProofs -----------------------------
(***************************************************************************)
(* Proofs about ConcurrentCache, for any sets of threads and keys, any     *)
(* number of shards and any lifetimes: get_or_create runs one factory per  *)
(* key, and serves everybody who waits for it.                             *)
(***************************************************************************)
EXTENDS ConcurrentCache, SequenceTheorems, TLAPS

\* A thread that is still to keep the promise of its factory_state.
Owing(t) == pc[t] \in {"factory", "publish", "set_value", "set_exception"}

\* A sequence, whatever its elements are.
IsList(s) == Len(s) \in Nat /\ s = [i \in 1..Len(s) |-> s[i]]

\* What is a function of what.
Shapes ==
  /\ pc \in [Threads -> PCs]
  /\ key = [t \in Threads |-> key[t]]
  /\ state = [t \in Threads |-> state[t]]
  /\ new_entry = [t \in Threads |-> new_entry[t]]
  /\ in_flight = [k \in Keys |-> in_flight[k]]
  /\ values = [k \in Keys |-> values[k]]
  /\ IsList(states)
  /\ \A t \in Threads : pc[t] \notin {"idle", "purge"} => key[t] \in Keys

\* A thread that owns a factory_state or waits for one has one.
Registered ==
  /\ \A t \in Threads : Owning(t) \/ Owing(t) \/ pc[t] = "wait" => state[t] \in 1..Len(states)
  /\ OneFactoryPerKey

\* A promise is kept once, by its owner, and not with the value that stands for
\* a promise still to be kept; who removes the factory_state has kept it.
Promises ==
  /\ \A k \in Keys : values[k] # NoEntry => values[k].value # Pending
  /\ \A t \in Threads : pc[t] \in {"assign", "publish", "set_value"} =>
       new_entry[t].value # Pending
  /\ \A t \in Threads : Owing(t) => states[state[t]] = Pending
  /\ \A t, u \in Threads : Owing(t) /\ Owing(u) /\ state[t] = state[u] => t = u
  /\ \A t \in Threads : pc[t] = "remove_in_flight" => states[state[t]] # Pending
  /\ WaitersServed

SingleFlight == Shapes /\ Registered /\ Promises

-------------------------------------------------------------------------------
\* A function on 1..n is a sequence of length n.
LEMMA FunctionIsList ==
  ASSUME NEW n \in Nat, NEW f, f = [i \in 1..n |-> f[i]]
  PROVE  IsList(f) /\ Len(f) = n
<1> DEFINE S == {f[i] : i \in 1..n}
<1>1. f \in [1..n -> S]
  OBVIOUS
<1>2. f \in Seq(S) /\ DOMAIN f = 1..n
  BY <1>1, SeqDef
<1>3. Len(f) = n
  BY <1>2, LenProperties
<1> QED
  BY <1>3 DEF IsList

\* A new promise is the last of the list.
LEMMA NewState ==
  ASSUME NEW s, NEW x, IsList(s)
  PROVE  /\ IsList(Append(s, x)) /\ Len(Append(s, x)) = Len(s) + 1
         /\ \A i \in 1..Len(s) : Append(s, x)[i] = s[i]
         /\ Append(s, x)[Len(s) + 1] = x
<1> DEFINE S == {s[i] : i \in 1..Len(s)} \union {x}
<1>1. s \in Seq(S)
  <2>1. s \in [1..Len(s) -> S]
    BY DEF IsList
  <2> QED
    BY <2>1, SeqDef DEF IsList
<1>2. /\ Append(s, x) \in Seq(S) /\ Len(Append(s, x)) = Len(s) + 1
      /\ \A i \in 1..Len(s) : Append(s, x)[i] = s[i]
      /\ Append(s, x)[Len(s) + 1] = x
  BY <1>1, AppendProperties
<1>3. Append(s, x) = [i \in 1..Len(Append(s, x)) |-> Append(s, x)[i]]
  BY <1>2, LenProperties, SeqDef, Zenon
<1> QED
  BY <1>2, <1>3 DEF IsList

\* A promise that is kept stays in its place.
LEMMA KeptState ==
  ASSUME NEW i, NEW x, IsList(states), states' = [states EXCEPT ![i] = x]
  PROVE  /\ IsList(states') /\ Len(states') = Len(states)
         /\ i \in 1..Len(states) => states'[i] = x
         /\ \A j \in 1..Len(states) : j # i => states'[j] = states[j]
<1>1. states' = [j \in 1..Len(states) |-> states'[j]]
  BY Zenon DEF IsList
<1>2. IsList(states') /\ Len(states') = Len(states)
  BY <1>1, FunctionIsList DEF IsList
<1> QED
  BY <1>2 DEF IsList

\* The ways in which the second look of get_or_create ends.
Hit(t) == pc' = [pc EXCEPT ![t] = "idle"] /\ UNCHANGED <<in_flight, states, state>>

Joins(t) ==
  /\ in_flight[key[t]] # 0
  /\ pc' = [pc EXCEPT ![t] = "wait"]
  /\ state' = [state EXCEPT ![t] = in_flight[key[t]]]
  /\ UNCHANGED <<in_flight, states>>

Loads(t, n) ==
  /\ n = Len(states) + 1 /\ Len(states) \in Nat
  /\ IsList(states') /\ Len(states') = n /\ states'[n] = Pending
  /\ \A i \in 1..Len(states) : states'[i] = states[i]
  /\ in_flight[key[t]] = 0
  /\ pc' = [pc EXCEPT ![t] = "factory"]
  /\ state' = [state EXCEPT ![t] = n]
  /\ in_flight' = [in_flight EXCEPT ![key[t]] = n]

\* Register does one of the three.
LEMMA RegisterCases ==
  ASSUME Shapes, NEW t \in Threads, Register(t)
  PROVE  /\ Hit(t) \/ Joins(t) \/ \E n : Loads(t, n)
         /\ pc[t] = "create" /\ key[t] \in Keys
         /\ UNCHANGED <<values, key, new_entry>>
<1>1. pc[t] = "create" /\ key[t] \in Keys /\ UNCHANGED <<values, key, new_entry>>
  BY DEF Register, Shapes
<1>2. \/ Hit(t) \/ Joins(t)
      \/ /\ states' = Append(states, Pending) /\ in_flight[key[t]] = 0
         /\ state' = [state EXCEPT ![t] = Len(states')]
         /\ in_flight' = [in_flight EXCEPT ![key[t]] = Len(states')]
         /\ pc' = [pc EXCEPT ![t] = "factory"]
  BY DEF Register, Goto, Hit, Joins
<1>3. ASSUME states' = Append(states, Pending), in_flight[key[t]] = 0,
             state' = [state EXCEPT ![t] = Len(states')],
             in_flight' = [in_flight EXCEPT ![key[t]] = Len(states')],
             pc' = [pc EXCEPT ![t] = "factory"]
      PROVE  Loads(t, Len(states'))
  <2>1. IsList(states) /\ Len(states) \in Nat
    BY DEF Shapes, IsList
  <2>2. /\ IsList(states') /\ Len(states') = Len(states) + 1
        /\ \A i \in 1..Len(states) : states'[i] = states[i]
        /\ states'[Len(states) + 1] = Pending
    BY <1>3, <2>1, NewState, SMTT(30)
  <2> QED
    BY <1>3, <2>1, <2>2 DEF Loads
<1> QED
  BY <1>1, <1>2, <1>3

\* Every step keeps the shapes.
LEMMA ShapesStep == Shapes /\ [Next]_vars => Shapes'
<1> SUFFICES ASSUME Shapes, [Next]_vars PROVE Shapes'
  OBVIOUS
<1> USE DEF locals, Shapes, PCs
<1>1. ASSUME NEW t \in Threads, NEW k \in Keys, get(t, k) PROVE Shapes'
  BY <1>1, Zenon DEF get, Begin, Goto
<1>2. ASSUME NEW t \in Threads, GetExpired(t) PROVE Shapes'
  BY <1>2 DEF GetExpired, Goto
<1>3. ASSUME NEW t \in Threads, NEW k \in Keys, NEW ttl \in Ttls, insert_or_assign(t, k, ttl) PROVE Shapes'
  BY <1>3, Zenon DEF insert_or_assign, Begin, Goto
<1>4. ASSUME NEW t \in Threads, Assign(t) PROVE Shapes'
  BY <1>4 DEF Assign, Goto
<1>5. ASSUME NEW t \in Threads, NEW k \in Keys, erase(t, k) PROVE Shapes'
  BY <1>5, Zenon DEF erase, Begin
<1>6. ASSUME NEW t \in Threads, NEW k \in Keys, get_or_create(t, k) PROVE Shapes'
  BY <1>6, Zenon DEF get_or_create, Begin, Goto
<1>7. ASSUME NEW t \in Threads, Register(t) PROVE Shapes'
  <2>1. /\ pc[t] = "create" /\ key[t] \in Keys
        /\ UNCHANGED <<values, key, new_entry>>
    BY <1>7, RegisterCases
  <2>2. CASE Hit(t)
    BY <2>1, <2>2 DEF Hit
  <2>3. CASE Joins(t)
    BY <2>1, <2>3, SMTT(30) DEF Joins
  <2>4. ASSUME NEW n, Loads(t, n) PROVE Shapes'
    BY <2>1, <2>4, Zenon DEF Loads
  <2> QED
    BY <1>7, <2>2, <2>3, <2>4, RegisterCases
<1>8. ASSUME NEW t \in Threads, NEW ttl \in Ttls, Factory(t, ttl) PROVE Shapes'
  BY <1>8 DEF Factory, Goto
<1>9. ASSUME NEW t \in Threads, Publish(t) PROVE Shapes'
  BY <1>9 DEF Publish, Goto
<1>10. ASSUME NEW t \in Threads, SetValue(t) PROVE Shapes'
  BY <1>10, KeptState, Zenon DEF SetValue, Goto
<1>11. ASSUME NEW t \in Threads, SetException(t) PROVE Shapes'
  BY <1>11, KeptState, Zenon DEF SetException, Goto
<1>12. ASSUME NEW t \in Threads, remove_in_flight(t) PROVE Shapes'
  BY <1>12 DEF remove_in_flight, Goto
<1>13. ASSUME NEW t \in Threads, Wait(t) PROVE Shapes'
  BY <1>13 DEF Wait, Goto
<1>14. ASSUME NEW t \in Threads, purge_expired(t) PROVE Shapes'
  BY <1>14 DEF purge_expired, Goto
<1>15. ASSUME NEW t \in Threads, PurgeShard(t) PROVE Shapes'
  BY <1>15 DEF PurgeShard, Goto
<1>16. CASE Tick \/ UNCHANGED vars
  BY <1>16 DEF Tick, vars
<1> QED
  BY <1>1, <1>2, <1>3, <1>4, <1>5, <1>6, <1>7, <1>8,
     <1>9, <1>10, <1>11, <1>12, <1>13, <1>14, <1>15, <1>16
  DEF Next, Call, Continue

\* in_flight follows the threads that own a factory_state.
LEMMA RegisteredStep == Shapes /\ Registered /\ [Next]_vars => Registered'
<1> SUFFICES ASSUME Shapes, Registered, [Next]_vars PROVE Registered'
  OBVIOUS
<1> USE DEF locals, Registered, OneFactoryPerKey, Owning, Owing
<1>1. ASSUME NEW t \in Threads, NEW k \in Keys, get(t, k) PROVE Registered'
  BY <1>1, Zenon DEF get, Begin, Goto, Shapes
<1>2. ASSUME NEW t \in Threads, GetExpired(t) PROVE Registered'
  BY <1>2 DEF GetExpired, Goto, Shapes
<1>3. ASSUME NEW t \in Threads, NEW k \in Keys, NEW ttl \in Ttls, insert_or_assign(t, k, ttl) PROVE Registered'
  BY <1>3, Zenon DEF insert_or_assign, Begin, Goto, Shapes
<1>4. ASSUME NEW t \in Threads, Assign(t) PROVE Registered'
  BY <1>4 DEF Assign, Goto, Shapes
<1>5. ASSUME NEW t \in Threads, NEW k \in Keys, erase(t, k) PROVE Registered'
  BY <1>5, ZenonT(40) DEF erase, Begin, Shapes
<1>6. ASSUME NEW t \in Threads, NEW k \in Keys, get_or_create(t, k) PROVE Registered'
  BY <1>6, Zenon DEF get_or_create, Begin, Goto, Shapes
<1>7. ASSUME NEW t \in Threads, Register(t) PROVE Registered'
  <2>1. /\ pc[t] = "create" /\ key[t] \in Keys
        /\ UNCHANGED <<values, key, new_entry>>
    BY <1>7, RegisterCases
  <2>2. CASE Hit(t)
    BY <2>1, <2>2 DEF Hit, Shapes
  <2>3. CASE Joins(t)
    <3>1. in_flight[key[t]] \in 1..Len(states)
      BY <2>1, <2>3 DEF Joins
    <3>2. \A v \in Threads :
            /\ pc'[v] = IF v = t THEN "wait" ELSE pc[v]
            /\ state'[v] = IF v = t THEN in_flight[key[t]] ELSE state[v]
      BY <2>3 DEF Joins, Shapes
    <3> QED
      BY <2>1, <2>3, <3>1, <3>2 DEF Joins
  <2>4. ASSUME NEW n, Loads(t, n) PROVE Registered'
    <3>1. n \in Nat /\ n # 0 /\ n = Len(states) + 1 /\ Len(states') = n
      BY <2>4 DEF Loads
    <3>2. \A v \in Threads : Owning(v) => key[v] # key[t]
      BY <2>4 DEF Loads
    <3>3. /\ \A v \in Threads :
               /\ pc'[v] = IF v = t THEN "factory" ELSE pc[v]
               /\ state'[v] = IF v = t THEN n ELSE state[v]
          /\ \A k \in Keys : in_flight'[k] = IF k = key[t] THEN n ELSE in_flight[k]
      BY <2>4 DEF Loads, Shapes
    <3>4. (\A v \in Threads : Owning(v) \/ Owing(v) \/ pc[v] = "wait" =>
             state[v] \in 1..Len(states))'
      BY <3>1, <3>3
    <3>5. OneFactoryPerKey'
      <4>1. \A v \in Threads : Owning(v) => key[v] \in Keys
        BY DEF Shapes
      <4> QED
        BY <2>1, <3>1, <3>2, <3>3, <4>1
    <3> QED
      BY <3>4, <3>5
  <2> QED
    BY <1>7, <2>2, <2>3, <2>4, RegisterCases
<1>8. ASSUME NEW t \in Threads, NEW ttl \in Ttls, Factory(t, ttl) PROVE Registered'
  <2>1. pc[t] = "factory" /\ UNCHANGED <<in_flight, states, key, state>>
    BY <1>8 DEF Factory
  <2>2. PICK w \in {"publish", "set_exception"} :
          \A v \in Threads : pc'[v] = IF v = t THEN w ELSE pc[v]
    BY <1>8 DEF Factory, Goto, Shapes
  <2> QED
    BY <2>1, <2>2
<1>9. ASSUME NEW t \in Threads, Publish(t) PROVE Registered'
  <2>1. key[t] \in Keys /\ pc[t] = "publish" /\ UNCHANGED <<key, state, states>>
    BY <1>9 DEF Publish, Shapes
  <2>2. CASE /\ \A v \in Threads : pc'[v] = IF v = t THEN "set_value" ELSE pc[v]
             /\ \A k \in Keys : in_flight'[k] = IF k = key[t] THEN 0 ELSE in_flight[k]
    <3>1. \A v \in Threads : Owning(v) => key[v] \in Keys
      BY DEF Shapes
    <3> QED
      BY <2>1, <2>2, <3>1
  <2>3. CASE /\ \A v \in Threads : pc'[v] = IF v = t THEN "set_exception" ELSE pc[v]
             /\ UNCHANGED in_flight
    BY <2>1, <2>3
  <2> QED
    BY <1>9, <2>2, <2>3 DEF Publish, Goto, Shapes
<1>10. ASSUME NEW t \in Threads, SetValue(t) PROVE Registered'
  <2>1. Len(states') = Len(states)
    BY <1>10, KeptState DEF SetValue, Shapes
  <2>2. /\ pc[t] = "set_value" /\ pc' = [pc EXCEPT ![t] = "idle"]
        /\ UNCHANGED <<in_flight, key, state>>
    BY <1>10 DEF SetValue, Goto
  <2> QED
    BY <2>1, <2>2 DEF Shapes
<1>11. ASSUME NEW t \in Threads, SetException(t) PROVE Registered'
  BY <1>11, KeptState DEF SetException, Goto, Shapes
<1>12. ASSUME NEW t \in Threads, remove_in_flight(t) PROVE Registered'
  BY <1>12, Zenon DEF remove_in_flight, Goto, Shapes
<1>13. ASSUME NEW t \in Threads, Wait(t) PROVE Registered'
  BY <1>13 DEF Wait, Goto, Shapes
<1>14. ASSUME NEW t \in Threads, purge_expired(t) PROVE Registered'
  BY <1>14 DEF purge_expired, Goto, Shapes
<1>15. ASSUME NEW t \in Threads, PurgeShard(t) PROVE Registered'
  BY <1>15 DEF PurgeShard, Goto, Shapes
<1>16. CASE Tick \/ UNCHANGED vars
  BY <1>16 DEF Tick, vars
<1> QED
  BY <1>1, <1>2, <1>3, <1>4, <1>5, <1>6, <1>7, <1>8, Zenon,
     <1>9, <1>10, <1>11, <1>12, <1>13, <1>14, <1>15, <1>16
  DEF Next, Call, Continue

\* A call that begins touches no promise.
LEMMA BeginKeepsPromises ==
  ASSUME Promises, NEW t \in Threads, pc[t] = "idle",
         NEW w \in {"idle", "get_expired", "assign", "create"},
         NEW e, w = "assign" => e.value # Pending,
         \A v \in Threads : /\ pc'[v] = IF v = t THEN w ELSE pc[v]
                            /\ state'[v] = IF v = t THEN 0 ELSE state[v]
                            /\ new_entry'[v] = IF v = t THEN e ELSE new_entry[v],
         UNCHANGED <<values, states>>
  PROVE  Promises'
BY DEF Promises, Owing, WaitersServed

\* Whoever owes a promise keeps it once, and nobody waits in vain.
LEMMA PromisesStep == Shapes /\ Registered /\ Promises /\ [Next]_vars => Promises'
<1> SUFFICES ASSUME Shapes, Registered, Promises, [Next]_vars PROVE Promises'
  OBVIOUS
<1> USE DEF locals, Promises, WaitersServed, Owing
<1>1. ASSUME NEW t \in Threads, NEW k \in Keys, get(t, k) PROVE Promises'
  <2>1. PICK w \in {"idle", "get_expired"} : pc' = [pc EXCEPT ![t] = w]
    BY <1>1, Zenon DEF get, Goto
  <2>2. \A v \in Threads : /\ pc'[v] = IF v = t THEN w ELSE pc[v]
                           /\ state'[v] = IF v = t THEN 0 ELSE state[v]
                           /\ new_entry'[v] = IF v = t THEN NoEntry ELSE new_entry[v]
    BY <1>1, <2>1, Zenon DEF get, Begin, Shapes
  <2>3. pc[t] = "idle" /\ UNCHANGED <<values, states>>
    BY <1>1 DEF get, Begin
  <2> QED
    BY <2>2, <2>3, BeginKeepsPromises
<1>2. ASSUME NEW t \in Threads, GetExpired(t) PROVE Promises'
  BY <1>2 DEF GetExpired, Goto, Shapes
<1>3. ASSUME NEW t \in Threads, NEW k \in Keys, NEW ttl \in Ttls, insert_or_assign(t, k, ttl)
      PROVE  Promises'
  <2> DEFINE e == [value |-> Inserted, expires_at |-> expiration_time(ttl)]
  <2>1. \A v \in Threads : /\ pc'[v] = IF v = t THEN "assign" ELSE pc[v]
                           /\ state'[v] = IF v = t THEN 0 ELSE state[v]
                           /\ new_entry'[v] = IF v = t THEN e ELSE new_entry[v]
    BY <1>3, Zenon DEF insert_or_assign, Begin, Goto, Shapes
  <2>2. pc[t] = "idle" /\ UNCHANGED <<values, states>>
    BY <1>3 DEF insert_or_assign, Begin
  <2>3. e.value # Pending
    BY DEF Inserted, Pending
  <2> HIDE DEF e
  <2> QED
    BY <2>1, <2>2, <2>3, BeginKeepsPromises
<1>4. ASSUME NEW t \in Threads, Assign(t) PROVE Promises'
  BY <1>4 DEF Assign, Goto, Shapes
<1>5. ASSUME NEW t \in Threads, NEW k \in Keys, erase(t, k) PROVE Promises'
  BY <1>5 DEF erase, Begin, Shapes
<1>6. ASSUME NEW t \in Threads, NEW k \in Keys, get_or_create(t, k) PROVE Promises'
  <2>1. PICK w \in {"idle", "create"} : pc' = [pc EXCEPT ![t] = w]
    BY <1>6, Zenon DEF get_or_create, Goto
  <2>2. \A v \in Threads : /\ pc'[v] = IF v = t THEN w ELSE pc[v]
                           /\ state'[v] = IF v = t THEN 0 ELSE state[v]
                           /\ new_entry'[v] = IF v = t THEN NoEntry ELSE new_entry[v]
    BY <1>6, <2>1, Zenon DEF get_or_create, Begin, Shapes
  <2>3. pc[t] = "idle" /\ UNCHANGED <<values, states>>
    BY <1>6 DEF get_or_create, Begin
  <2> QED
    BY <2>2, <2>3, BeginKeepsPromises, SMTT(30)
<1>7. ASSUME NEW t \in Threads, Register(t) PROVE Promises'
  <2>1. /\ pc[t] = "create" /\ key[t] \in Keys
        /\ UNCHANGED <<values, key, new_entry>>
    BY <1>7, RegisterCases
  <2>2. CASE Hit(t)
    BY <2>1, <2>2 DEF Hit, Shapes
  <2>3. CASE Joins(t)
    <3>1. PICK u \in Threads : Owning(u) /\ state[u] = in_flight[key[t]]
      BY <2>1, <2>3 DEF Joins, Registered, OneFactoryPerKey
    <3>2. \A v \in Threads :
            /\ pc'[v] = IF v = t THEN "wait" ELSE pc[v]
            /\ state'[v] = IF v = t THEN state[u] ELSE state[v]
      BY <2>3, <3>1 DEF Joins, Shapes
    <3>3. states[state[u]] # Pending \/ Owing(u)
      BY <3>1 DEF Owning
    <3>4. UNCHANGED <<values, new_entry, states>>
      BY <2>1, <2>3 DEF Joins
    <3>5. \A v \in Threads : Owing(v)' <=> Owing(v)
      BY <2>1, <3>2
    <3>6. WaitersServed'
      <4> SUFFICES ASSUME NEW v \in Threads, pc'[v] = "wait", states'[state'[v]] = Pending
                   PROVE  \E o \in Threads : state'[o] = state'[v] /\ Owing(o)'
        OBVIOUS
      <4>1. CASE v = t
        BY <2>1, <3>2, <3>3, <3>4, <3>5, <4>1
      <4>2. CASE v # t
        <5>1. PICK o \in Threads : state[o] = state[v] /\ Owing(o)
          BY <3>2, <3>4, <4>2
        <5> QED
          BY <2>1, <3>2, <3>5, <4>2, <5>1
      <4> QED
        BY <4>1, <4>2
    <3>7. \A v \in Threads : pc'[v] # "wait" => pc'[v] = pc[v] /\ state'[v] = state[v]
      BY <2>1, <3>2
    <3>8. \A v \in Threads : Owing(v)' => state'[v] = state[v]
      BY <3>7
    <3> HIDE DEF Owing, WaitersServed
    <3>9. /\ \A v \in Threads : Owing(v)' => states'[state'[v]] = Pending
          /\ \A v, o \in Threads : Owing(v)' /\ Owing(o)' /\ state'[v] = state'[o] => v = o
      BY <3>4, <3>5, <3>8
    <3>10. /\ \A v \in Threads : pc'[v] \in {"assign", "publish", "set_value"} =>
                new_entry'[v].value # Pending
           /\ \A v \in Threads : pc'[v] = "remove_in_flight" => states'[state'[v]] # Pending
      BY <3>4, <3>7
    <3> QED
      BY <3>4, <3>6, <3>9, <3>10
  <2>4. ASSUME NEW n, Loads(t, n) PROVE Promises'
    <3>1. \A v \in Threads :
            /\ pc'[v] = IF v = t THEN "factory" ELSE pc[v]
            /\ state'[v] = IF v = t THEN n ELSE state[v]
      BY <2>4 DEF Loads, Shapes
    <3>2. \A v \in Threads : Owing(v) \/ pc[v] \in {"wait", "remove_in_flight"} =>
            state[v] # n /\ states'[state[v]] = states[state[v]]
      BY <2>4 DEF Loads, Registered, Owning
    <3>3. states'[n] = Pending
      BY <2>4 DEF Loads
    <3> QED
      BY <2>1, <3>1, <3>2, <3>3
  <2> QED
    BY <1>7, <2>2, <2>3, <2>4, RegisterCases, ZenonT(40)
<1>8. ASSUME NEW t \in Threads, NEW ttl \in Ttls, Factory(t, ttl) PROVE Promises'
  <2>1. pc[t] = "factory" /\ UNCHANGED <<values, states, state>>
    BY <1>8 DEF Factory
  <2>2. state[t] # Pending
    BY <2>1 DEF Registered, Pending
  <2>3. PICK w \in {"publish", "set_exception"} :
          /\ \A v \in Threads : pc'[v] = IF v = t THEN w ELSE pc[v]
          /\ \A v \in Threads \ {t} : new_entry'[v] = new_entry[v]
          /\ w = "publish" => new_entry'[t].value = state[t]
    BY <1>8 DEF Factory, Goto, Shapes
  <2> QED
    BY <2>1, <2>2, <2>3
<1>9. ASSUME NEW t \in Threads, Publish(t) PROVE Promises'
  <2>1. pc[t] = "publish" /\ key[t] \in Keys /\ UNCHANGED <<states, state>>
    BY <1>9 DEF Publish, Shapes
  <2>2. PICK w \in {"set_value", "set_exception"} :
          \A v \in Threads : pc'[v] = IF v = t THEN w ELSE pc[v]
    BY <1>9 DEF Publish, Goto, Shapes
  <2>3. \A k \in Keys : values'[k] # NoEntry => values'[k].value # Pending
    BY <1>9, <2>1 DEF Publish, Shapes
  <2>4. values'[key[t]] # NoEntry \/ UNCHANGED new_entry
    BY <1>9, <2>1 DEF Publish, Shapes, Live, NoEntry
  <2>5. \A v \in Threads : pc'[v] \in {"assign", "publish", "set_value"} =>
          new_entry'[v].value # Pending
    BY <1>9, <2>1, <2>2, <2>3, <2>4 DEF Publish, Shapes
  <2> QED
    BY <2>1, <2>2, <2>3, <2>5
<1>10. ASSUME NEW t \in Threads, SetValue(t) PROVE Promises'
  <2>1. pc[t] = "set_value" /\ UNCHANGED <<values, new_entry, state>>
    BY <1>10 DEF SetValue
  <2>2. \A v \in Threads : pc'[v] = IF v = t THEN "idle" ELSE pc[v]
    BY <1>10 DEF SetValue, Goto, Shapes
  <2>3. /\ states'[state[t]] # Pending
        /\ \A v \in Threads : Owing(v) \/ pc[v] \in {"wait", "remove_in_flight"} =>
             (state[v] # state[t] => states'[state[v]] = states[state[v]])
    BY <1>10, <2>1, KeptState, SMTT(30) DEF SetValue, Shapes, Registered, Owning
  <2> QED
    BY <2>1, <2>2, <2>3, SMTT(30)
<1>11. ASSUME NEW t \in Threads, SetException(t) PROVE Promises'
  <2>1. pc[t] = "set_exception" /\ UNCHANGED <<values, new_entry, state>>
    BY <1>11 DEF SetException
  <2>2. \A v \in Threads : pc'[v] = IF v = t THEN "remove_in_flight" ELSE pc[v]
    BY <1>11 DEF SetException, Goto, Shapes
  <2>3. /\ states'[state[t]] # Pending
        /\ \A v \in Threads : Owing(v) \/ pc[v] \in {"wait", "remove_in_flight"} =>
             (state[v] # state[t] => states'[state[v]] = states[state[v]])
    BY <1>11, <2>1, KeptState DEF SetException, Shapes, Registered, Owning, Failed, Pending
  <2> QED
    BY <2>1, <2>2, <2>3
<1>12. ASSUME NEW t \in Threads, remove_in_flight(t) PROVE Promises'
  BY <1>12 DEF remove_in_flight, Goto, Shapes
<1>13. ASSUME NEW t \in Threads, Wait(t) PROVE Promises'
  BY <1>13 DEF Wait, Goto, Shapes
<1>14. ASSUME NEW t \in Threads, purge_expired(t) PROVE Promises'
  BY <1>14 DEF purge_expired, Goto, Shapes
<1>15. ASSUME NEW t \in Threads, PurgeShard(t) PROVE Promises'
  BY <1>15 DEF PurgeShard, Goto, Shapes
<1>16. CASE Tick \/ UNCHANGED vars
  BY <1>16 DEF Tick, vars
<1> QED
  BY <1>1, <1>2, <1>3, <1>4, <1>5, <1>6, <1>7, <1>8, Zenon,
     <1>9, <1>10, <1>11, <1>12, <1>13, <1>14, <1>15, <1>16
  DEF Next, Call, Continue

-------------------------------------------------------------------------------
\* SingleFlight is inductive.
LEMMA SingleFlightInvariant == Spec => []SingleFlight
<1>1. Init => SingleFlight
  <2> SUFFICES ASSUME Init PROVE SingleFlight
    OBVIOUS
  <2>1. IsList(states)
    BY DEF Init, IsList
  <2>2. Shapes
    BY <2>1 DEF Init, Shapes, PCs
  <2>3. Registered
    BY DEF Init, Registered, OneFactoryPerKey, Owning, Owing
  <2>4. Promises
    BY DEF Init, Promises, WaitersServed, Owing
  <2> QED
    BY <2>2, <2>3, <2>4 DEF SingleFlight
<1>2. SingleFlight /\ [Next]_vars => SingleFlight'
  BY ShapesStep, RegisteredStep, PromisesStep DEF SingleFlight
<1> QED
  BY <1>1, <1>2, PTL DEF Spec

\* However many threads miss a key together, get_or_create runs one factory for
\* it at a time, the one whose factory_state is registered.
THEOREM StampedeProtected == Spec => []OneFactoryPerKey
<1>1. SingleFlight => OneFactoryPerKey
  BY DEF SingleFlight, Registered
<1> QED
  BY <1>1, SingleFlightInvariant, PTL

\* A thread that waits for another one's factory waits for a promise that is
\* kept, or that a thread is still to keep.
THEOREM NoWaiterAbandoned == Spec => []WaitersServed
<1>1. SingleFlight => WaitersServed
  BY DEF SingleFlight, Promises
<1> QED
  BY <1>1, SingleFlightInvariant, PTL

\* set_value and set_exception are called on promises nobody has kept, so what
\* the waiters of a promise are told never changes.
THEOREM PromisesKeptOnce == Spec => PromisesKept
<1> DEFINE Owed == \A t \in Threads : SetValue(t) \/ SetException(t) => states[state[t]] = Pending
           Kept == \A i \in DOMAIN states : states[i] # Pending => states'[i] = states[i]
<1>1. SingleFlight => Owed
  BY DEF SingleFlight, Promises, Owing, SetValue, SetException
<1>2. SingleFlight /\ [Next]_vars => [Kept]_vars
  <2> SUFFICES ASSUME SingleFlight, Next PROVE Kept
    BY DEF vars
  <2>1. CASE UNCHANGED states
    BY <2>1
  <2>2. ASSUME NEW t \in Threads, Register(t) PROVE Kept
    <3>1. DOMAIN states = 1..Len(states)
      BY DEF SingleFlight, Shapes, IsList
    <3> QED
      BY <2>2, <3>1, RegisterCases DEF SingleFlight, Hit, Joins, Loads
  <2>3. ASSUME NEW t \in Threads, SetValue(t) \/ SetException(t) PROVE Kept
    <3>1. states[state[t]] = Pending
      BY <1>1, <2>3
    <3> QED
      BY <2>3, <3>1 DEF SetValue, SetException
  <2> QED
    BY <2>1, <2>2, <2>3, Zenon
    DEF Next, Call, Continue, get, GetExpired, insert_or_assign, Assign, erase, get_or_create,
        Factory, Publish, remove_in_flight, Wait, purge_expired, PurgeShard, Tick, Begin
<1>3. SingleFlight /\ [Next]_vars => [Owed /\ Kept]_vars
  BY <1>1, <1>2
<1> QED
  BY <1>3, SingleFlightInvariant, PTL DEF Spec, PromisesKept

-------------------------------------------------------------------------------
\* The times that are compared: purge_expired's reading of the clock is past.
Timed ==
  /\ clock \in Nat
  /\ scan = [t \in Threads |-> scan[t]]
  /\ \A t \in Threads : scan[t][1] \in Int /\ scan[t][1] <= clock
  /\ \A k \in Keys : values[k].expires_at \in Int
  /\ \A t \in Threads : new_entry[t].expires_at \in Int

\* Every step keeps them so.
LEMMA TimedStep == Shapes /\ Timed /\ [Next]_vars => Timed'
<1> SUFFICES ASSUME Shapes, Timed, [Next]_vars PROVE Timed'
  OBVIOUS
<1>0. NoEntry.expires_at \in Int
  BY DEF NoEntry, no_expiration_time
<1> USE DEF locals, Timed
<1>1. \A ttl \in Ttls : expiration_time(ttl) \in Int
  BY CacheAssumption DEF expiration_time, no_expiration_time
<1>2. ASSUME NEW t \in Threads, NEW k \in Keys, get(t, k) \/ erase(t, k) \/ get_or_create(t, k)
      PROVE  Timed'
  <2>1. new_entry' = [new_entry EXCEPT ![t] = NoEntry] /\ UNCHANGED <<clock, scan>>
    BY <1>2 DEF get, erase, get_or_create, Begin
  <2>2. values' = values \/ values' = [values EXCEPT ![k] = NoEntry]
    BY <1>2 DEF get, erase, get_or_create
  <2>3. \A j \in Keys : values'[j] \in {values[j], NoEntry}
    BY <2>2 DEF Shapes
  <2>4. \A v \in Threads : new_entry'[v] \in {new_entry[v], NoEntry}
    BY <2>1 DEF Shapes
  <2> QED
    BY <1>0, <2>1, <2>3, <2>4
<1>3. ASSUME NEW t \in Threads, NEW k \in Keys, NEW ttl \in Ttls, insert_or_assign(t, k, ttl)
      PROVE  Timed'
  BY <1>1, <1>3 DEF insert_or_assign, Begin, Shapes
<1>4. ASSUME NEW t \in Threads, GetExpired(t) \/ Assign(t) PROVE Timed'
  BY <1>0, <1>4, Zenon DEF GetExpired, Assign, Shapes
<1>5. ASSUME NEW t \in Threads, NEW ttl \in Ttls, Factory(t, ttl) PROVE Timed'
  BY <1>1, <1>5 DEF Factory, Shapes
<1>6. ASSUME NEW t \in Threads, Publish(t) PROVE Timed'
  <2>1. key[t] \in Keys /\ UNCHANGED <<clock, scan>>
    BY <1>6 DEF Publish, Shapes
  <2>2. \A k \in Keys : values'[k].expires_at \in Int
    BY <1>6, <2>1 DEF Publish, Shapes
  <2>3. \A v \in Threads : new_entry'[v].expires_at \in Int
    BY <1>6, <2>1, <2>2 DEF Publish, Shapes
  <2> QED
    BY <2>1, <2>2, <2>3
<1>7. ASSUME NEW t \in Threads, PurgeShard(t) PROVE Timed'
  <2>1. \A k \in Keys : values'[k].expires_at \in Int
    BY <1>0, <1>7 DEF PurgeShard
  <2> QED
    BY <1>7, <2>1 DEF PurgeShard
<1>8. ASSUME NEW t \in Threads, purge_expired(t) PROVE Timed'
  BY <1>8 DEF purge_expired
<1>9. ASSUME NEW t \in Threads,
             Register(t) \/ SetValue(t) \/ SetException(t) \/ remove_in_flight(t) \/ Wait(t)
      PROVE  Timed'
  BY <1>9 DEF Register, SetValue, SetException, remove_in_flight, Wait
<1>10. CASE Tick \/ UNCHANGED vars
  BY <1>10 DEF Tick, vars
<1> QED
  BY <1>2, <1>3, <1>4, <1>5, <1>6, <1>7, <1>8, <1>9, <1>10 DEF Next, Call, Continue

\* A live entry is removed or replaced only by insert_or_assign, erase, or a get
\* that saw it expired: neither by a loader that finishes late nor by
\* purge_expired with its old reading of the clock.
THEOREM LiveEntriesKept == Spec => LiveEntryKept
<1> DEFINE Removed(k) == \E t \in Threads :
                           \/ erase(t, k)
                           \/ key[t] = k /\ (Assign(t) \/ GetExpired(t))
           Kept == \A k \in Keys : Live(k) /\ values'[k] # values[k] => Removed(k)
<1>1. Init => Shapes /\ Timed
  <2> SUFFICES ASSUME Init PROVE Shapes /\ Timed
    OBVIOUS
  <2>1. IsList(states)
    BY DEF Init, IsList
  <2>2. Shapes
    BY <2>1 DEF Init, Shapes, PCs
  <2>3. Timed
    BY DEF Init, Timed, NoEntry, no_expiration_time
  <2> QED
    BY <2>2, <2>3
<1>2. Shapes /\ Timed /\ [Next]_vars => Shapes' /\ Timed'
  BY ShapesStep, TimedStep
<1>3. Shapes /\ Timed /\ [Next]_vars => [Kept]_vars
  <2> SUFFICES ASSUME Shapes, Timed, Next,
                      NEW k \in Keys, Live(k), values'[k] # values[k]
               PROVE  Removed(k)
    BY SMTT(30)
  <2>1. ASSUME NEW t \in Threads, NEW j \in Keys, erase(t, j) PROVE Removed(k)
    <3>1. j = k
      BY <2>1 DEF erase, Shapes
    <3> QED
      BY <2>1, <3>1
  <2>2. ASSUME NEW t \in Threads, Assign(t) \/ GetExpired(t) PROVE Removed(k)
    <3>1. key[t] = k
      BY <2>2 DEF Assign, GetExpired, Shapes
    <3> QED
      BY <2>2, <3>1
  <2>3. ASSUME NEW t \in Threads, Publish(t) PROVE FALSE
    BY <2>3 DEF Publish, Shapes
  <2>4. ASSUME NEW t \in Threads, PurgeShard(t) PROVE FALSE
    <3>1. expired(values[k], scan[t][1])
      BY <2>4 DEF PurgeShard
    <3> QED
      BY <3>1 DEF Live, expired, Timed
  <2>5. UNCHANGED values => FALSE
    OBVIOUS
  <2> QED
    BY <2>1, <2>2, <2>3, <2>4, <2>5, ZenonT(40)
    DEF Next, Call, Continue, get, insert_or_assign, get_or_create, Register, Factory, SetValue,
        SetException, remove_in_flight, Wait, purge_expired, Tick
<1> QED
  BY <1>1, <1>2, <1>3, PTL DEF Spec, LiveEntryKept

-------------------------------------------------------------------------------
\* A promise is kept or made: the list of promises stays a list of values.
LEMMA PromisesTyped ==
  ASSUME NEW s \in Seq(Int), NEW x \in Int
  PROVE  /\ Append(s, x) \in Seq(Int) /\ Len(Append(s, x)) = Len(s) + 1 /\ Len(s) \in Nat
         /\ \A i : [s EXCEPT ![i] = x] \in Seq(Int) /\ Len([s EXCEPT ![i] = x]) = Len(s)
<1>1. /\ Append(s, x) \in Seq(Int) /\ Len(Append(s, x)) = Len(s) + 1 /\ Len(s) \in Nat
      /\ s \in [1..Len(s) -> Int]
  BY AppendProperties, LenProperties
<1>2. ASSUME NEW i PROVE [s EXCEPT ![i] = x] \in Seq(Int) /\ Len([s EXCEPT ![i] = x]) = Len(s)
  <2> DEFINE n == Len(s)
             r == [s EXCEPT ![i] = x]
  <2>1. r \in [1..n -> Int]
    BY <1>1, Zenon
  <2> HIDE DEF n, r
  <2>2. n \in Nat
    BY <1>1 DEF n
  <2>3. r \in Seq(Int) /\ Len(r) = n
    BY <2>1, <2>2
  <2> QED
    BY <2>3 DEF n, r
<1> QED
  BY <1>1, <1>2

\* The maps, the promises and the locals of every thread keep their types, the
\* index of a factory_state among them, whatever the operations.
THEOREM CacheTypes == Spec => []TypeOK
<1> USE CacheAssumption
<1>1. Init => TypeOK
  <2>1. (CHOOSE k \in Keys : TRUE) \in Keys
    OBVIOUS
  <2>2. NoEntry \in Entries
    BY DEF NoEntry, Entries, Pending, no_expiration_time
  <2>3. Len(<<>>) = 0 /\ <<>> \in Seq(Int)
    OBVIOUS
  <2> QED
    BY <2>1, <2>2, <2>3 DEF Init, TypeOK, PCs
<1>2. ASSUME TypeOK, [Next]_vars PROVE TypeOK'
  <2>1. /\ NoEntry \in Entries
        /\ \A v \in Int, ttl \in Ttls :
             [value |-> v, expires_at |-> expiration_time(ttl)] \in Entries
    BY <1>2 DEF NoEntry, Entries, Pending, no_expiration_time, expiration_time, TypeOK
  <2>2. /\ Pending \in Int /\ Failed \in Int /\ Inserted \in Int
        /\ states \in Seq(Int) /\ Len(states) \in Nat
    BY <1>2, PromisesTyped DEF Pending, Failed, Inserted, TypeOK
  <2>3. ASSUME NEW t \in Threads, NEW k \in Keys, NEW op, NEW e \in Entries, NEW label \in PCs,
               Begin(t, op, k, e), Goto(t, label), UNCHANGED <<values, in_flight, states, clock, scan>>
        PROVE  TypeOK'
    BY <1>2, <2>2, <2>3, SMTT(30) DEF Begin, Goto, TypeOK
  <2>4. ASSUME NEW t \in Threads, Call(t) PROVE TypeOK'
    <3>1. ASSUME NEW k \in Keys, get(t, k) PROVE TypeOK'
      BY <2>1, <2>3, <3>1 DEF get, PCs
    <3>2. ASSUME NEW k \in Keys, erase(t, k) PROVE TypeOK'
      BY <1>2, <2>1, <2>2, <3>2, SMTT(30) DEF erase, Begin, TypeOK
    <3>3. ASSUME NEW k \in Keys, get_or_create(t, k) PROVE TypeOK'
      BY <2>1, <2>3, <3>3 DEF get_or_create, PCs
    <3>4. ASSUME NEW k \in Keys, NEW ttl \in Ttls, insert_or_assign(t, k, ttl) PROVE TypeOK'
      BY <2>1, <2>2, <2>3, <3>4 DEF insert_or_assign, PCs
    <3>5. ASSUME purge_expired(t) PROVE TypeOK'
      BY <1>2, <3>5, SMTT(30) DEF purge_expired, Goto, TypeOK, PCs
    <3> QED
      BY <2>4, <3>1, <3>2, <3>3, <3>4, <3>5 DEF Call
  <2>a. ASSUME NEW t \in Threads
        PROVE  /\ key[t] \in Keys /\ state[t] \in 0..Len(states) /\ new_entry[t] \in Entries
               /\ in_flight \in [Keys -> 0..Len(states)] /\ values \in [Keys -> Entries]
               /\ \A label \in PCs : Goto(t, label) => pc' \in [Threads -> PCs]
    BY <1>2, Zenon DEF TypeOK, Goto
  <2>b. \A k \in Keys : [in_flight EXCEPT ![k] = 0] \in [Keys -> 0..Len(states)]
    <3> DEFINE R == 0..Len(states)
    <3>1. 0 \in R /\ in_flight \in [Keys -> R]
      BY <1>2, <2>2 DEF TypeOK
    <3> HIDE DEF R
    <3>2. \A k \in Keys : [in_flight EXCEPT ![k] = 0] \in [Keys -> R]
      BY <3>1
    <3> QED
      BY <3>2 DEF R
  <2>5. ASSUME NEW t \in Threads, Register(t) PROVE TypeOK'
    <3>1. CASE UNCHANGED states
      <4>1. UNCHANGED in_flight /\ UNCHANGED <<values, clock, key, new_entry, scan>>
        BY <2>2, <2>5, <3>1, PromisesTyped, SMTT(30) DEF Register
      <4>2. pc' \in [Threads -> PCs]
        BY <2>5, <2>a DEF Register, PCs
      <4>3. state' \in [Threads -> 0..Len(states)]
        <5>1. in_flight[key[t]] \in 0..Len(states)
          BY <2>a
        <5>2. \/ UNCHANGED state \/ state' = [state EXCEPT ![t] = in_flight[key[t]]]
          BY <2>2, <2>5, <3>1, PromisesTyped DEF Register
        <5> QED
          BY <1>2, <5>1, <5>2, Zenon DEF TypeOK
      <4> QED
        BY <1>2, <3>1, <4>1, <4>2, <4>3, SMTT(30) DEF TypeOK
    <3>2. CASE states' = Append(states, Pending)
      <4>1. states' \in Seq(Int) /\ Len(states') = Len(states) + 1
        BY <2>2, <3>2, PromisesTyped
      <4>2. CASE UNCHANGED <<in_flight, state>>
        BY <1>2, <2>2, <2>5, <4>1, <4>2 DEF Register, Goto, TypeOK, PCs
      <4>3. CASE /\ state' = [state EXCEPT ![t] = Len(states')]
                 /\ in_flight' = [in_flight EXCEPT ![key[t]] = Len(states')]
                 /\ Goto(t, "factory")
        <5>1. 0..Len(states) \subseteq 0..Len(states') /\ Len(states') \in 0..Len(states')
          BY <2>2, <4>1
        <5>2. /\ in_flight' \in [Keys -> 0..Len(states')]
              /\ state' \in [Threads -> 0..Len(states')]
          BY <1>2, <4>3, <5>1 DEF TypeOK
        <5>3. pc' \in [Threads -> PCs]
          BY <2>a, <4>3 DEF PCs
        <5>4. UNCHANGED <<values, clock, key, new_entry, scan>>
          BY <2>5 DEF Register
        <5> QED
          BY <1>2, <4>1, <5>2, <5>3, <5>4, Zenon DEF TypeOK
      <4> QED
        BY <2>5, <3>2, <4>2, <4>3 DEF Register
    <3> QED
      BY <2>5, <3>1, <3>2 DEF Register
  <2>6. ASSUME NEW t \in Threads, SetValue(t) \/ SetException(t) PROVE TypeOK'
    <3>1. new_entry[t].value \in Int
      BY <1>2 DEF TypeOK, Entries
    <3>2. states' \in Seq(Int) /\ Len(states') = Len(states)
      BY <2>2, <2>6, <3>1, PromisesTyped DEF SetValue, SetException
    <3> QED
      BY <1>2, <2>6, <3>2, Zenon DEF SetValue, SetException, Goto, TypeOK, PCs, locals
  <2>7. ASSUME NEW t \in Threads, GetExpired(t) \/ Assign(t) PROVE TypeOK'
    BY <1>2, <2>1, <2>7, ZenonT(40) DEF GetExpired, Assign, Goto, TypeOK, PCs, locals
  <2>8. ASSUME NEW t \in Threads, PurgeShard(t) PROVE TypeOK'
    <3>1. scan' \in [Threads -> Nat \X (0..Shards)]
      BY <1>2, <2>8, SMTT(30) DEF PurgeShard, TypeOK
    <3> QED
      BY <1>2, <2>1, <2>8, <3>1, Zenon DEF PurgeShard, Goto, TypeOK, PCs
  <2>9. ASSUME NEW t \in Threads, NEW ttl \in Ttls, Factory(t, ttl) PROVE TypeOK'
    <3>1. [value |-> state[t], expires_at |-> expiration_time(ttl)] \in Entries
      BY <1>2, <2>1, <2>2 DEF TypeOK
    <3> QED
      BY <1>2, <2>9, <3>1, ZenonT(40) DEF Factory, Goto, TypeOK, PCs
  <2>10. ASSUME NEW t \in Threads, Publish(t) PROVE TypeOK'
    <3>1. values' \in [Keys -> Entries]
      BY <2>10, <2>a DEF Publish
    <3>2. new_entry' \in [Threads -> Entries]
      <4>1. values'[key[t]] \in Entries
        BY <2>a, <3>1
      <4>2. UNCHANGED new_entry \/ new_entry' = [new_entry EXCEPT ![t] = values'[key[t]]]
        BY <2>10 DEF Publish
      <4> QED
        BY <1>2, <4>1, <4>2, Zenon DEF TypeOK
    <3>3. pc' \in [Threads -> PCs]
      BY <2>10, <2>a DEF Publish, PCs
    <3>4. in_flight' \in [Keys -> 0..Len(states)]
      BY <2>10, <2>a, <2>b, SMTT(30) DEF Publish
    <3> QED
      BY <1>2, <2>10, <3>1, <3>2, <3>3, <3>4, Zenon DEF Publish, TypeOK
  <2>11. ASSUME NEW t \in Threads, remove_in_flight(t) \/ Wait(t) PROVE TypeOK'
    <3>1. in_flight' \in [Keys -> 0..Len(states)]
      BY <2>11, <2>a, <2>b DEF remove_in_flight, Wait
    <3>2. pc' \in [Threads -> PCs]
      BY <2>11, <2>a DEF remove_in_flight, Wait, PCs
    <3> QED
      BY <1>2, <2>11, <3>1, <3>2, Zenon DEF remove_in_flight, Wait, TypeOK, locals
  <2>12. ASSUME Tick \/ UNCHANGED vars PROVE TypeOK'
    BY <1>2, <2>12 DEF Tick, TypeOK, locals, vars
  <2> QED
    BY <1>2, <2>4, <2>5, <2>6, <2>7, <2>8, <2>9, <2>10, <2>11, <2>12 DEF Next, Continue
<1> QED
  BY <1>1, <1>2, PTL DEF Spec
===============================================================================
