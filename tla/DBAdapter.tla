----------------------------- MODULE DBAdapter ------------------------------
(***************************************************************************)
(* The database adapter on PostgreSQL with its connection pool.  execute() *)
(* takes a connection, runs a statement, commits and gives the connection  *)
(* back; inside transaction() one connection is kept and neither committed *)
(* nor given back.  What tells the two cases apart is a flag and a         *)
(* connection in the adapter: they belong to no thread, and transaction()  *)
(* sets the flag before it has the connection.                             *)
(*                                                                         *)
(* The pool and the server are external.  A statement that fails aborts    *)
(* the connection's transaction, whose commit then is a rollback; the pool *)
(* rolls back what is open on a connection it is given back, and raises    *)
(* when it already has it.                                                 *)
(***************************************************************************)
EXTENDS FiniteSets

CONSTANTS
  Threads,  \* threads that share the adapter
  Conns,    \* the connections of its pool
  NoConn    \* None

ASSUME AdapterAssumption == IsFiniteSet(Threads) /\ IsFiniteSet(Conns) /\ NoConn \notin Conns

VARIABLES
  inTx,       \* _in_transaction
  txConn,     \* _tx_conn
  pool,       \* the connections that are in the pool
  at,         \* [Threads -> Points]: where a thread is
  conn,       \* [Threads -> Conns or NoConn]: the connection of its statement
  held,       \* [Threads -> Conns or NoConn]: that of its transaction
  dirty,      \* [Conns -> SUBSET Threads]: who has a statement on it that is
              \* not committed and was no part of a transaction of theirs
  aborted,    \* [Conns -> BOOLEAN]: did a statement fail since the last commit?
  lost,       \* threads that had such a statement rolled back
  unstarted,  \* has a transaction() failed to get a connection?
  overlapped  \* were two threads in the adapter while the flag was set?

flags == <<inTx, txConn, pool>>
work == <<dirty, aborted, lost>>
adapterVars == <<flags, at, conn, held, work, unstarted, overlapped>>

Points == {"idle", "get", "run", "commit", "release", "tx_get", "body", "tx_end"}

AdapterTypeOK ==
  /\ inTx \in BOOLEAN
  /\ txConn \in Conns \cup {NoConn}
  /\ pool \subseteq Conns
  /\ at \in [Threads -> Points]
  /\ conn \in [Threads -> Conns \cup {NoConn}]
  /\ held \in [Threads -> Conns \cup {NoConn}]
  /\ dirty \in [Conns -> SUBSET Threads]
  /\ aborted \in [Conns -> BOOLEAN]
  /\ lost \subseteq Threads
  /\ unstarted \in BOOLEAN /\ overlapped \in BOOLEAN
  /\ \A t \in Threads : at[t] \in {"run", "commit", "release"} => conn[t] \in Conns
  /\ \A t \in Threads : at[t] \in {"body", "tx_end"} => held[t] \in Conns

AdapterInit ==
  /\ inTx = FALSE /\ txConn = NoConn /\ pool = Conns
  /\ at = [t \in Threads |-> "idle"]
  /\ conn = [t \in Threads |-> NoConn] /\ held = [t \in Threads |-> NoConn]
  /\ dirty = [c \in Conns |-> {}] /\ aborted = [c \in Conns |-> FALSE]
  /\ lost = {} /\ unstarted = FALSE /\ overlapped = FALSE

-----------------------------------------------------------------------------
(* The pool and the server.                                                *)

InBody(t) == held[t] # NoConn
InTransaction(t) == InBody(t) \/ at[t] = "tx_get"

EndWork(c, committed) ==
  /\ dirty' = [dirty EXCEPT ![c] = {}]
  /\ aborted' = [aborted EXCEPT ![c] = FALSE]
  /\ lost' = IF committed /\ ~aborted[c] THEN lost ELSE lost \cup dirty[c]

PutConn(c) ==
  IF c \in pool THEN UNCHANGED <<pool, work>>
  ELSE pool' = pool \cup {c} /\ EndWork(c, FALSE)

-----------------------------------------------------------------------------
(* execute() and executemany(), by themselves or in the body of a          *)
(* transaction().                                                          *)

Return(t) == at' = [at EXCEPT ![t] = IF InBody(t) THEN "body" ELSE "idle"]

Execute(t) ==
  /\ at[t] \in {"idle", "body"}
  /\ IF inTx /\ txConn # NoConn
       THEN conn' = [conn EXCEPT ![t] = txConn] /\ at' = [at EXCEPT ![t] = "run"]
       ELSE at' = [at EXCEPT ![t] = "get"] /\ UNCHANGED conn
  /\ overlapped' = (overlapped \/ (inTx /\ \E u \in Threads \ {t} : at[u] # "idle"))
  /\ UNCHANGED <<flags, held, work, unstarted>>

GetConn(t) ==
  /\ at[t] \in {"get", "tx_get"}
  /\ \E c \in pool :
       /\ pool' = pool \ {c}
       /\ txConn' = IF inTx THEN c ELSE txConn
       /\ IF at[t] = "get"
            THEN /\ conn' = [conn EXCEPT ![t] = c] /\ UNCHANGED held
                 /\ at' = [at EXCEPT ![t] = "run"]
            ELSE /\ held' = [held EXCEPT ![t] = c] /\ UNCHANGED conn
                 /\ at' = [at EXCEPT ![t] = "body"]
  /\ UNCHANGED <<inTx, work, unstarted, overlapped>>

\* No connection in time: the pool is empty, or the server does not answer.
GetConnTimesOut(t) ==
  /\ \/ at[t] = "get" /\ Return(t) /\ UNCHANGED unstarted
     \/ at[t] = "tx_get" /\ at' = [at EXCEPT ![t] = "idle"] /\ unstarted' = TRUE
  /\ UNCHANGED <<flags, conn, held, work, overlapped>>

Statement(t) ==
  /\ at[t] = "run" /\ ~aborted[conn[t]]
  /\ dirty' = IF InBody(t) THEN dirty ELSE [dirty EXCEPT ![conn[t]] = @ \cup {t}]
  /\ at' = [at EXCEPT ![t] = "commit"]
  /\ UNCHANGED <<flags, conn, held, aborted, lost, unstarted, overlapped>>

\* Mutation: the connection is given back only when the statement succeeded.
StatementFailsUnreleased(t) ==
  /\ at[t] = "run"
  /\ aborted' = [aborted EXCEPT ![conn[t]] = TRUE]
  /\ Return(t)
  /\ UNCHANGED <<flags, conn, held, dirty, lost, unstarted, overlapped>>

StatementFails(t) ==
  /\ at[t] = "run"
  /\ aborted' = [aborted EXCEPT ![conn[t]] = TRUE]
  /\ at' = [at EXCEPT ![t] = "release"]
  /\ UNCHANGED <<flags, conn, held, dirty, lost, unstarted, overlapped>>

Commit(t) ==
  /\ at[t] = "commit"
  /\ IF inTx THEN UNCHANGED work ELSE EndWork(conn[t], TRUE)
  /\ at' = [at EXCEPT ![t] = "release"]
  /\ UNCHANGED <<flags, conn, held, unstarted, overlapped>>

Release(t) ==
  /\ at[t] = "release"
  /\ IF inTx THEN UNCHANGED <<pool, work>> ELSE PutConn(conn[t])
  /\ conn' = [conn EXCEPT ![t] = NoConn]
  /\ Return(t)
  /\ UNCHANGED <<inTx, txConn, held, unstarted, overlapped>>

-----------------------------------------------------------------------------
(* transaction().                                                          *)

Transaction(t) ==
  /\ at[t] = "idle"
  /\ inTx' = TRUE
  /\ IF txConn # NoConn
       THEN held' = [held EXCEPT ![t] = txConn] /\ at' = [at EXCEPT ![t] = "body"]
       ELSE at' = [at EXCEPT ![t] = "tx_get"] /\ UNCHANGED held
  /\ overlapped' = (overlapped \/ \E u \in Threads \ {t} : at[u] # "idle")
  /\ UNCHANGED <<txConn, pool, conn, work, unstarted>>

\* The body ends, with or without an exception.
EndBody(t) ==
  /\ at[t] = "body"
  /\ \E committed \in BOOLEAN : EndWork(held[t], committed)
  /\ at' = [at EXCEPT ![t] = "tx_end"]
  /\ UNCHANGED <<flags, conn, held, unstarted, overlapped>>

EndTransaction(t) ==
  /\ at[t] = "tx_end"
  /\ inTx' = FALSE
  /\ IF txConn # NoConn THEN PutConn(txConn) ELSE UNCHANGED <<pool, work>>
  /\ txConn' = IF txConn \in pool THEN txConn ELSE NoConn
  /\ held' = [held EXCEPT ![t] = NoConn]
  /\ at' = [at EXCEPT ![t] = "idle"]
  /\ UNCHANGED <<conn, unstarted, overlapped>>

-----------------------------------------------------------------------------
(* close(), after which its callers drop the adapter and make a new one.   *)

Close ==
  /\ \A t \in Threads : at[t] = "idle"
  /\ inTx' = FALSE /\ txConn' = NoConn /\ pool' = Conns
  /\ lost' = lost \cup UNION {dirty[c] : c \in Conns}
  /\ dirty' = [c \in Conns |-> {}] /\ aborted' = [c \in Conns |-> FALSE]
  /\ UNCHANGED <<at, conn, held, unstarted, overlapped>>

AdapterNext ==
  \/ \E t \in Threads :
       \/ Execute(t) \/ GetConn(t) \/ GetConnTimesOut(t)
       \/ Statement(t) \/ StatementFails(t) \/ Commit(t) \/ Release(t)
       \/ Transaction(t) \/ EndBody(t) \/ EndTransaction(t)
  \/ Close

AdapterSpec == AdapterInit /\ [][AdapterNext]_adapterVars

-----------------------------------------------------------------------------
(* Correctness.                                                            *)

\* As long as no two threads are in the adapter while the flag is set, every
\* connection is back in the pool once the calls have returned, and nothing a
\* caller was told is done is left uncommitted: except on the one connection
\* that a transaction() which got none leaves to the calls after it.  Only
\* there, too, a statement that was reported done is rolled back in the end
\* (db_adapter.py:86-110, 119-133, 145-166).
CallsLeaveNothing ==
  ~overlapped =>
    /\ (\A t \in Threads : at[t] = "idle") =>
         /\ pool = Conns \ {txConn}
         /\ txConn # NoConn => inTx
         /\ \A c \in Conns : dirty[c] # {} => c = txConn
    /\ inTx /\ (\A t \in Threads : ~InTransaction(t)) => unstarted
    /\ lost # {} => unstarted
=============================================================================
