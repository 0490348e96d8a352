------------------------------ MODULE Databases ------------------------------
(***************************************************************************)
(* The database manager (storage/database.py) and the tool that queries    *)
(* through it (tools/database/postgres_tool.py): coroutines that add,      *)
(* query, test and remove databases interleave wherever they await.        *)
(*                                                                         *)
(* A pool object is a number; pools says which one a name stands for now.  *)
(* asyncpg, aiomysql and aiosqlite are modelled from how they are called.  *)
(***************************************************************************)
EXTENDS Naturals, FiniteSets, Sequences

CONSTANTS
  Name,      \* names of databases
  Driver,    \* a subset of {"postgresql", "mysql", "sqlite"}
  Task,      \* coroutines; each makes one call
  PoolSize,  \* pool_size of the configurations
  MaxPools   \* bound: pool objects created

ASSUME DatabasesAssumption == Driver \subseteq {"postgresql", "mysql", "sqlite"}

VARIABLES
  pools,  \* DatabaseManager.pools, 0 for a name that is not a key
  pool,   \* the DatabasePool objects created so far
  task,   \* Task -> its call
  adrift  \* history: pools that left the table before they were closed

dbVars == <<pools, pool, task, adrift>>

NoPool == 0
NoTask == [pc |-> "idle", op |-> "none", name |-> "none", pool |-> NoPool, query |-> "none",
           ran |-> 0, told |-> "nothing", left |-> {}, size |-> 0]
Idle(t) == task[t].pc = "idle"
\* the record f with the fields of r
With(f, r) == [x \in DOMAIN f \cup DOMAIN r |-> IF x \in DOMAIN r THEN r[x] ELSE f[x]]
Goes(t, r) == task' = [task EXCEPT ![t] = With(@, r)]
Ends(t, told) == Goes(t, [pc |-> "done", told |-> told])
Mine(t) == task[t].pool
At(t, pc) == task[t].pc = pc
Registered == {n \in Name : pools[n] # NoPool}
Pooled(i) == pool[i].provider # "sqlite"
\* a pool of aiomysql that closes hands out no connection
Refuses(i) == pool[i].provider = "mysql" /\ pool[i].state # "open"
Back(i) == pool' = IF Pooled(i) THEN [pool EXCEPT ![i].out = @ - 1] ELSE pool

DbInit ==
  /\ pools = [n \in Name |-> NoPool] /\ pool = <<>>
  /\ task = [t \in Task |-> NoTask] /\ adrift = {}

\* add_database: a name that is there is left alone
AddDatabase(t, n, p) ==
  /\ Idle(t)
  /\ \/ n \in Registered /\ Ends(t, "ok") /\ UNCHANGED pool
     \/ /\ n \notin Registered /\ Len(pool) < MaxPools
        /\ pool' = Append(pool, [provider |-> p, state |-> "open", out |-> 0, failed |-> 0])
        /\ Goes(t, [pc |-> "initialize", op |-> "add", name |-> n, pool |-> Len(pool')])
  /\ UNCHANGED <<pools, adrift>>

\* initialize raises for want of a driver, of credentials or of the server
InitializeFails(t) == At(t, "initialize") /\ Ends(t, "error") /\ UNCHANGED <<pools, pool, adrift>>

\* the name is entered before the test, whoever entered it during initialize
Initialized(t) ==
  /\ At(t, "initialize")
  /\ pools' = [pools EXCEPT ![task[t].name] = Mine(t)]
  /\ adrift' = adrift \cup ({pools[task[t].name]} \ {NoPool})
  /\ Goes(t, [pc |-> "acquire"])
  /\ UNCHANGED pool

\* get_connection by the tool, which refuses destructive queries before
Query(t, n, q) ==
  /\ Idle(t)
  /\ IF q # "destructive" /\ n \in Registered /\ ~Refuses(pools[n])
       THEN Goes(t, [pc |-> "acquire", op |-> "query", name |-> n, query |-> q, pool |-> pools[n]])
       ELSE Ends(t, "error")
  /\ UNCHANGED <<pools, pool, adrift>>

\* acquire waits for a free connection; SQLite's one connection is shared
Acquired(t) ==
  /\ At(t, "acquire")
  /\ Pooled(Mine(t)) => pool[Mine(t)].out < PoolSize
  /\ pool' = IF Pooled(Mine(t)) THEN [pool EXCEPT ![Mine(t)].out = @ + 1] ELSE pool
  /\ Goes(t, [pc |-> IF task[t].op = "query" THEN "execute" ELSE "probe"])
  /\ UNCHANGED <<pools, adrift>>

Changes(q) == q # "select"
\* how often a query that returned has run for good: asyncpg runs a SELECT
\* with execute and again with fetch, MySQL commits, and SQLite never does
Ran(p, q) ==
  CASE p = "postgresql" -> IF q = "select" THEN 2 ELSE 1
    [] p = "mysql" -> 1
    [] p = "sqlite" -> IF Changes(q) THEN 0 ELSE 1

\* mutant: connection() without try and finally
ExecuteNoFinally(t) ==
  /\ At(t, "execute")
  /\ \/ Goes(t, [pc |-> "release", told |-> "ok", ran |-> Ran(pool[Mine(t)].provider, task[t].query)])
     \/ Ends(t, "error")
  /\ UNCHANGED <<pools, pool, adrift>>

\* DatabaseConnection.execute returns, or raises before or after the effect
Execute(t) ==
  LET p == pool[Mine(t)] IN
  /\ At(t, "execute")
  /\ \/ p.state # "closed"
          /\ Goes(t, [pc |-> "release", told |-> "ok", ran |-> Ran(p.provider, task[t].query)])
     \/ \E n \in 0..Ran(p.provider, task[t].query) :
          Goes(t, [pc |-> "release", told |-> "error", ran |-> n])
  /\ UNCHANGED <<pools, pool, adrift>>

\* the finally clause of connection() looks the name up again: KeyError when
\* it is gone; another pool does not know the connection, and raises, unless
\* it is SQLite's, which does nothing
Release(t) ==
  LET now == pools[task[t].name]
      known == now # NoPool /\ (now = Mine(t) \/ ~Pooled(now))
  IN
  /\ At(t, "release")
  /\ IF now = Mine(t) THEN Back(now) ELSE UNCHANGED pool
  /\ Ends(t, IF known THEN task[t].told ELSE "error")
  /\ UNCHANGED <<pools, adrift>>

\* test_connection of a pool: the SELECT succeeds and the connection goes
\* back, or it raises and the connection is never released
Probe(t) ==
  LET i == Mine(t) IN
  /\ At(t, "probe")
  /\ \E works \in BOOLEAN :
       /\ works => pool[i].state # "closed"
       /\ IF works THEN Back(i) ELSE pool' = [pool EXCEPT ![i].failed = @ + 1]
       /\ IF task[t].op = "add" THEN Ends(t, IF works THEN "ok" ELSE "error")
                                ELSE Goes(t, [pc |-> "next"])
  /\ UNCHANGED <<pools, adrift>>

\* close: asyncpg's close is not awaited and it has no wait_closed, so this
\* raises and the pool stays open; the other two start to close
Close(t, n, r) ==
  LET i == pools[n] IN
  IF pool[i].provider = "postgresql" THEN Ends(t, "error") /\ UNCHANGED pool
  ELSE /\ pool' = [pool EXCEPT ![i].state = IF @ = "closed" THEN @ ELSE "closing"]
       /\ Goes(t, With([pc |-> "close", name |-> n, pool |-> i], r))

RemoveDatabase(t, n) ==
  /\ Idle(t)
  /\ IF n \in Registered THEN Close(t, n, [op |-> "remove"]) ELSE Ends(t, "ok") /\ UNCHANGED pool
  /\ UNCHANGED <<pools, adrift>>

\* wait_closed waits until every connection of the pool is back; then the name
\* is deleted, whichever pool it stands for by now, and KeyError if it is gone
Closed(t) ==
  LET i == Mine(t)
      n == task[t].name
      taken == task[t].op = "remove" /\ n \in Registered
      now == [pool EXCEPT ![i].state = "closed"]
  IN
  /\ At(t, "close")
  /\ Pooled(i) => /\ pool[i].out = 0
                  /\ \A u \in Task : ~(At(u, "acquire") /\ Mine(u) = i)
  /\ pool' = now
  /\ pools' = IF taken THEN [pools EXCEPT ![n] = NoPool] ELSE pools
  /\ adrift' = IF taken /\ now[pools[n]].state # "closed" THEN adrift \cup {pools[n]} ELSE adrift
  /\ IF task[t].op = "remove" THEN Ends(t, IF taken THEN "ok" ELSE "error")
                              ELSE Goes(t, [pc |-> "next"])

\* test_all and close_all go over the live dictionary
All(t, op) ==
  /\ Idle(t)
  /\ Goes(t, [pc |-> "next", op |-> op, left |-> Name, size |-> Cardinality(Registered)])
  /\ UNCHANGED <<pools, pool, adrift>>

\* its size changed during an await: RuntimeError, and the rest is left as it is
TableChanged(t) ==
  /\ At(t, "next") /\ Cardinality(Registered) # task[t].size
  /\ Ends(t, "error") /\ UNCHANGED <<pools, pool, adrift>>

TestNext(t, n) ==
  /\ At(t, "next") /\ task[t].op = "test all" /\ Cardinality(Registered) = task[t].size
  /\ n \in task[t].left \cap Registered
  /\ Goes(t, [pc |-> IF Refuses(pools[n]) THEN "next" ELSE "acquire",
              pool |-> pools[n], left |-> task[t].left \ {n}])
  /\ UNCHANGED <<pools, pool, adrift>>

CloseNext(t, n) ==
  /\ At(t, "next") /\ task[t].op = "close all" /\ Cardinality(Registered) = task[t].size
  /\ n \in task[t].left \cap Registered
  /\ Close(t, n, [left |-> task[t].left \ {n}])
  /\ UNCHANGED <<pools, adrift>>

\* the loop is over; close_all clears the table
AllDone(t) ==
  /\ At(t, "next") /\ Cardinality(Registered) = task[t].size
  /\ task[t].left \cap Registered = {}
  /\ Ends(t, "ok")
  /\ IF task[t].op = "close all"
       THEN /\ pools' = [n \in Name |-> NoPool]
            /\ adrift' = adrift \cup {pools[n] : n \in {m \in Registered : pool[pools[m]].state # "closed"}}
       ELSE UNCHANGED <<pools, adrift>>
  /\ UNCHANGED pool

DbStep ==
  \E t \in Task :
    \/ \E n \in Name :
         \/ \E p \in Driver : AddDatabase(t, n, p)
         \/ \E q \in {"select", "insert", "destructive"} : Query(t, n, q)
         \/ RemoveDatabase(t, n) \/ TestNext(t, n) \/ CloseNext(t, n)
    \/ InitializeFails(t) \/ Initialized(t) \/ Acquired(t) \/ Execute(t) \/ Release(t)
    \/ Probe(t) \/ Closed(t) \/ TableChanged(t) \/ AllDone(t)
    \/ All(t, "test all") \/ All(t, "close all")
==============================================================================
