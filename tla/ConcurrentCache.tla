----------------------------- MODULE ConcurrentCache ---------------------------
(***************************************************************************)
(* xtd::concurrent_cache (cache/concurrent_cache.h): a sharded map with    *)
(* expiring entries, and get_or_create, by which one thread runs the       *)
(* factory of a missing key while the others wait for its result.          *)
(*                                                                         *)
(* Each critical section of a shard's mutex is one step.  Between two of   *)
(* them the clock may advance and other threads may do anything: what an   *)
(* operation learned under the lock is stale when it takes the lock again. *)
(***************************************************************************)
EXTENDS Integers, Sequences, FiniteSets

CONSTANTS Threads, Keys,
          Shards,        \* how many shards there are, numbered from 1
          ShardOf,       \* ShardOf[k]: the shard of key k
          Ttls,          \* the m_ttl of cache_entry_opts; 0 never expires
          Ops,           \* Ops[t]: the operations that thread t calls
          MaxTime,       \* bound: clock readings
          MaxFactories   \* bound: factory_state objects made in a behaviour

ASSUME CacheAssumption ==
  /\ Shards \in Nat \ {0} /\ ShardOf \in [Keys -> 1..Shards]
  /\ Keys # {} /\ Ttls \subseteq Nat /\ MaxTime \in Nat /\ MaxFactories \in Nat

VARIABLES values,      \* values[k]: the entry stored for k, or NoEntry
          in_flight,   \* in_flight[k]: the factory_state registered for k, or 0
          states,      \* states[i]: what promise i holds
          clock,       \* clock_t::now()
          pc, key,     \* where each thread is, and the key of its call
          new_entry,   \* the entry a thread is about to store
          state,       \* the factory_state a thread owns or waits for
          scan         \* purge_expired: <<its reading of the clock, next shard>>

vars == <<values, in_flight, states, clock, pc, key, new_entry, state, scan>>
locals == <<key, new_entry, state, scan>>

\* Values are told apart by where they come from: the factory call i, or an
\* explicit insertion.
Pending == 0
Inserted == -1
Failed == -2

no_expiration_time == -1
NoEntry == [value |-> Pending, expires_at |-> no_expiration_time]

\* entry::expired, for an entry read with the clock at now
expired(e, now) == e.expires_at # no_expiration_time /\ now >= e.expires_at

\* A lookup under the lock finds an entry that has not expired.
Live(k) == values[k] # NoEntry /\ ~expired(values[k], clock)

expiration_time(ttl) == IF ttl = 0 THEN no_expiration_time ELSE clock + ttl

Init ==
  /\ values = [k \in Keys |-> NoEntry]
  /\ in_flight = [k \in Keys |-> 0]
  /\ states = <<>> /\ clock = 0
  /\ pc = [t \in Threads |-> "idle"]
  /\ key = [t \in Threads |-> CHOOSE k \in Keys : TRUE]
  /\ new_entry = [t \in Threads |-> NoEntry]
  /\ state = [t \in Threads |-> 0]
  /\ scan = [t \in Threads |-> <<0, 0>>]

Goto(t, label) == pc' = [pc EXCEPT ![t] = label]

\* A call of t begins with fresh locals.
Begin(t, op, k, e) ==
  /\ pc[t] = "idle" /\ op \in Ops[t]
  /\ key' = [key EXCEPT ![t] = k]
  /\ new_entry' = [new_entry EXCEPT ![t] = e]
  /\ state' = [state EXCEPT ![t] = 0]

-------------------------------------------------------------------------------
\* get: the lookup under the shared lock; a hit and a miss return.
get(t, k) ==
  /\ Begin(t, "get", k, NoEntry)
  /\ Goto(t, IF values[k] # NoEntry /\ ~Live(k) THEN "get_expired" ELSE "idle")
  /\ UNCHANGED <<values, in_flight, states, clock, scan>>

\* get, exclusive lock: the code extracts the entry if it is not expired.
GetExpired(t) ==
  /\ pc[t] = "get_expired"
  /\ values' = IF Live(key[t]) THEN [values EXCEPT ![key[t]] = NoEntry] ELSE values
  /\ Goto(t, "idle")
  /\ UNCHANGED <<in_flight, states, clock, locals>>

\* insert_or_assign makes the entry, its expiration time included, and only
\* then takes the lock.
insert_or_assign(t, k, ttl) ==
  /\ Begin(t, "insert_or_assign", k,
           [value |-> Inserted, expires_at |-> expiration_time(ttl)])
  /\ Goto(t, "assign")
  /\ UNCHANGED <<values, in_flight, states, clock, scan>>

\* Adding a key to a map may throw, which leaves the map as it was.
Assign(t) ==
  /\ pc[t] = "assign"
  /\ \/ values' = [values EXCEPT ![key[t]] = new_entry[t]]
     \/ values[key[t]] = NoEntry /\ UNCHANGED values
  /\ Goto(t, "idle")
  /\ UNCHANGED <<in_flight, states, clock, locals>>

erase(t, k) ==
  /\ Begin(t, "erase", k, NoEntry)
  /\ values' = [values EXCEPT ![k] = NoEntry]
  /\ UNCHANGED <<in_flight, states, clock, pc, scan>>

-------------------------------------------------------------------------------
\* The threads that may still make a factory_state count against the bound.
BelowMaxFactories ==
  Len(states) + Cardinality({t \in Threads : pc[t] = "create"}) < MaxFactories

\* get_or_create: the lookup under the shared lock.
get_or_create(t, k) ==
  /\ Begin(t, "get_or_create", k, NoEntry) /\ BelowMaxFactories
  /\ Goto(t, IF Live(k) THEN "idle" ELSE "create")
  /\ UNCHANGED <<values, in_flight, states, clock, scan>>

\* Faulty variants stand before the definition they vary.
\* Runs the factory even if another thread is running it.
Register_NoJoin(t) ==
  LET k == key[t] IN
  /\ pc[t] = "create"
  /\ \/ /\ Live(k)
        /\ Goto(t, "idle") /\ UNCHANGED <<in_flight, states, state>>
     \/ /\ ~Live(k)
        /\ states' = Append(states, Pending)
        /\ state' = [state EXCEPT ![t] = Len(states')]
        /\ in_flight' = [in_flight EXCEPT ![k] = Len(states')]
        /\ Goto(t, "factory")
  /\ UNCHANGED <<values, clock, key, new_entry, scan>>

\* get_or_create, exclusive lock: the entry has appeared, or another thread
\* is running the factory, or this one will, unless adding the key throws.
Register(t) ==
  LET k == key[t] IN
  /\ pc[t] = "create"
  /\ \/ /\ Live(k)
        /\ Goto(t, "idle") /\ UNCHANGED <<in_flight, states, state>>
     \/ /\ ~Live(k) /\ in_flight[k] # 0
        /\ state' = [state EXCEPT ![t] = in_flight[k]]
        /\ Goto(t, "wait") /\ UNCHANGED <<in_flight, states>>
     \/ /\ ~Live(k) /\ in_flight[k] = 0
        /\ states' = Append(states, Pending)
        /\ state' = [state EXCEPT ![t] = Len(states')]
        /\ in_flight' = [in_flight EXCEPT ![k] = Len(states')]
        /\ Goto(t, "factory")
     \/ /\ ~Live(k) /\ in_flight[k] = 0
        /\ Goto(t, "idle") /\ UNCHANGED <<in_flight, states, state>>
  /\ UNCHANGED <<values, clock, key, new_entry, scan>>

\* A failed factory's promise is not given the exception.
Factory_ForgetsWaiters(t, ttl) ==
  /\ pc[t] = "factory"
  /\ \/ /\ new_entry' = [new_entry EXCEPT ![t] =
             [value |-> state[t], expires_at |-> expiration_time(ttl)]]
        /\ Goto(t, "publish")
     \/ Goto(t, "remove_in_flight") /\ UNCHANGED new_entry
  /\ UNCHANGED <<values, in_flight, states, clock, key, state, scan>>

\* The factory returns a value, whose lifetime begins now, or throws.
Factory(t, ttl) ==
  /\ pc[t] = "factory"
  /\ \/ /\ new_entry' = [new_entry EXCEPT ![t] =
             [value |-> state[t], expires_at |-> expiration_time(ttl)]]
        /\ Goto(t, "publish")
     \/ Goto(t, "set_exception") /\ UNCHANGED new_entry
  /\ UNCHANGED <<values, in_flight, states, clock, key, state, scan>>

\* Stores the result without looking again.
Publish_NoRecheck(t) ==
  /\ pc[t] = "publish"
  /\ values' = [values EXCEPT ![key[t]] = new_entry[t]]
  /\ in_flight' = [in_flight EXCEPT ![key[t]] = 0]
  /\ Goto(t, "set_value")
  /\ UNCHANGED <<states, clock, locals>>

\* get_or_create, exclusive lock again: a live entry stored meanwhile wins.
\* Adding the key to the map may throw, which ends in the same catch block.
Publish(t) ==
  LET k == key[t] IN
  /\ pc[t] = "publish"
  /\ \/ /\ values' = IF Live(k) THEN values ELSE [values EXCEPT ![k] = new_entry[t]]
        /\ new_entry' = [new_entry EXCEPT ![t] = values'[k]]
        /\ in_flight' = [in_flight EXCEPT ![k] = 0]
        /\ Goto(t, "set_value")
     \/ /\ values[k] = NoEntry
        /\ Goto(t, "set_exception") /\ UNCHANGED <<values, new_entry, in_flight>>
  /\ UNCHANGED <<states, clock, key, state, scan>>

\* promise.set_value(published), with the lock released.
SetValue(t) ==
  /\ pc[t] = "set_value"
  /\ states' = [states EXCEPT ![state[t]] = new_entry[t].value]
  /\ Goto(t, "idle")
  /\ UNCHANGED <<values, in_flight, clock, locals>>

\* The catch block: set_exception, then remove_in_flight, which takes the lock.
SetException(t) ==
  /\ pc[t] = "set_exception"
  /\ states' = [states EXCEPT ![state[t]] = Failed]
  /\ Goto(t, "remove_in_flight")
  /\ UNCHANGED <<values, in_flight, clock, locals>>

\* Goes on to set_value instead of rethrowing.
remove_in_flight_FallsThrough(t) ==
  /\ pc[t] = "remove_in_flight"
  /\ in_flight' = [in_flight EXCEPT ![key[t]] = 0]
  /\ Goto(t, "set_value")
  /\ UNCHANGED <<values, states, clock, locals>>

remove_in_flight(t) ==
  /\ pc[t] = "remove_in_flight"
  /\ in_flight' = IF in_flight[key[t]] = state[t]
                  THEN [in_flight EXCEPT ![key[t]] = 0] ELSE in_flight
  /\ Goto(t, "idle")
  /\ UNCHANGED <<values, states, clock, locals>>

\* future.get() of a thread that found the factory in flight.
Wait(t) ==
  /\ pc[t] = "wait" /\ states[state[t]] # Pending
  /\ Goto(t, "idle")
  /\ UNCHANGED <<values, in_flight, states, clock, locals>>

-------------------------------------------------------------------------------
\* purge_expired reads the clock once and then visits shard after shard.
purge_expired(t) ==
  /\ pc[t] = "idle" /\ "purge_expired" \in Ops[t]
  /\ scan' = [scan EXCEPT ![t] = <<clock, 1>>]
  /\ Goto(t, "purge")
  /\ UNCHANGED <<values, in_flight, states, clock, key, new_entry, state>>

\* Goes one shard too far.
PurgeShard_OneTooMany(t) ==
  LET now == scan[t][1]
      shard == scan[t][2] IN
  /\ pc[t] = "purge"
  /\ values' = [k \in Keys |->
                  IF ShardOf[k] = shard /\ expired(values[k], now) THEN NoEntry
                  ELSE values[k]]
  /\ scan' = [scan EXCEPT ![t] = IF shard > Shards THEN <<0, 0>> ELSE <<now, shard + 1>>]
  /\ Goto(t, IF shard > Shards THEN "idle" ELSE "purge")
  /\ UNCHANGED <<in_flight, states, clock, key, new_entry, state>>

PurgeShard(t) ==
  LET now == scan[t][1]
      shard == scan[t][2] IN
  /\ pc[t] = "purge"
  /\ values' = [k \in Keys |->
                  IF ShardOf[k] = shard /\ expired(values[k], now) THEN NoEntry
                  ELSE values[k]]
  /\ scan' = [scan EXCEPT ![t] = IF shard = Shards THEN <<0, 0>> ELSE <<now, shard + 1>>]
  /\ Goto(t, IF shard = Shards THEN "idle" ELSE "purge")
  /\ UNCHANGED <<in_flight, states, clock, key, new_entry, state>>

Tick ==
  /\ clock < MaxTime /\ clock' = clock + 1
  /\ UNCHANGED <<values, in_flight, states, pc, locals>>

-------------------------------------------------------------------------------
Call(t) ==
  \/ \E k \in Keys : get(t, k) \/ erase(t, k) \/ get_or_create(t, k)
  \/ \E k \in Keys, ttl \in Ttls : insert_or_assign(t, k, ttl)
  \/ purge_expired(t)

Continue(t) ==
  \/ GetExpired(t) \/ Assign(t) \/ PurgeShard(t)
  \/ Register(t) \/ (\E ttl \in Ttls : Factory(t, ttl)) \/ Publish(t)
  \/ SetValue(t) \/ SetException(t) \/ remove_in_flight(t) \/ Wait(t)

Next == Tick \/ \E t \in Threads : Call(t) \/ Continue(t)

Spec == Init /\ [][Next]_vars

\* A thread inside a call keeps running, gets the lock it asks for, and the
\* factory it runs returns or throws.
FairSpec == Spec /\ \A t \in Threads : WF_vars(Continue(t))

-------------------------------------------------------------------------------
(* Properties *)

PCs == {"idle", "get_expired", "assign", "create", "factory", "publish",
        "set_value", "set_exception", "remove_in_flight", "wait", "purge"}

Entries == [value : Int, expires_at : Int]

\* The maps, promises and locals have the types of the code.
TypeOK ==
  /\ values \in [Keys -> Entries]
  /\ in_flight \in [Keys -> 0..Len(states)]
  /\ states \in Seq(Int) /\ clock \in Nat
  /\ pc \in [Threads -> PCs]
  /\ key \in [Threads -> Keys]
  /\ new_entry \in [Threads -> Entries]
  /\ state \in [Threads -> 0..Len(states)]
  /\ scan \in [Threads -> Nat \X (0..Shards)]

\* A thread between the registration of its factory_state and its removal.
Owning(t) == pc[t] \in {"factory", "publish", "set_exception", "remove_in_flight"}

\* Stampede protection: at no time do two threads run the factory of one key,
\* or one run it while the result of another is still to be published;
\* and in_flight names exactly the state of the thread that does, so that the
\* later callers join the right one.
OneFactoryPerKey ==
  /\ \A t, u \in Threads : Owning(t) /\ Owning(u) /\ key[t] = key[u] => t = u
  /\ \A t \in Threads : Owning(t) => in_flight[key[t]] = state[t]
  /\ \A k \in Keys : in_flight[k] # 0 => \E t \in Threads : Owning(t) /\ key[t] = k

\* No waiter is abandoned: the promise it waits for has been kept, or a thread
\* is still to keep it, whichever way the factory ends.
WaitersServed ==
  \A t \in Threads : pc[t] = "wait" =>
    \/ states[state[t]] # Pending
    \/ \E u \in Threads :
         /\ state[u] = state[t]
         /\ pc[u] \in {"factory", "publish", "set_value", "set_exception"}

\* set_value and set_exception are called only on a promise that is still to be
\* kept (a second call, even with the same value, would throw), and what its
\* waiters were told does not change.
PromisesKept ==
  [][/\ \A t \in Threads : SetValue(t) \/ SetException(t) => states[state[t]] = Pending
     /\ \A i \in DOMAIN states : states[i] # Pending => states'[i] = states[i]]_vars

\* An entry that has not expired stays until insert_or_assign replaces it or
\* erase removes it: a loader that finishes late does not overwrite it
\* ("explicit insertion wins over an active get_or_create loader",
\* tests/caches/concurrent_cache.h:307), and purge_expired with its early
\* reading of the clock does not remove it.  The one exception is a get that
\* comes back for an entry it has seen expired (see GetRemovesExpired).
LiveEntryKept ==
  [][\A k \in Keys : Live(k) /\ values'[k] # values[k] =>
       \E t \in Threads :
         \/ erase(t, k)
         \/ key[t] = k /\ (Assign(t) \/ GetExpired(t))]_vars

\* Every operation returns, get_or_create included, whether it runs the factory
\* or waits for another thread to run it.
CallsReturn == \A t \in Threads : pc[t] # "idle" ~> pc[t] = "idle"

\* concurrent_cache.md:245, of get: "If the entry has expired, upgrades to an
\* exclusive lock, removes it"; :420 "`get` returns `nullptr` for an expired
\* entry and removes it."  It removes what has expired and nothing else.
GetRemovesExpired ==
  [][\A t \in Threads : GetExpired(t) /\ values[key[t]] # NoEntry =>
       (values'[key[t]] = NoEntry <=> ~Live(key[t]))]_vars
===============================================================================
