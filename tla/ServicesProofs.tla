--------------------------- MODULE ServicesProofs ---------------------------
(***************************************************************************)
(* What TLAPS proves of the services that stand by themselves, for any     *)
(* number of processes, threads, connections, keys, coroutines, shares and *)
(* observations and any limits: first of each service, then of all of them *)
(* side by side.                                                           *)
(***************************************************************************)
EXTENDS Services, Counting

-----------------------------------------------------------------------------
(* ApiWorkers.                                                             *)

WorkersInv == WorkersTypeOK /\ OldCountsAreForgotten

LEMMA InitWorkers == WorkersInit => WorkersInv
  BY WorkersAssumption
  DEF WorkersInit, WorkersInv, WorkersTypeOK, OldCountsAreForgotten, Phases, Alive, FileStates

LEMMA NextKeepsWorkersTyped ==
  ASSUME WorkersTypeOK, [WorkersNext]_workersVars
  PROVE  WorkersTypeOK'
<1> USE WorkersAssumption DEF WorkersTypeOK, Phases, Alive, FileStates, files
<1>1. CASE OnStarting
  BY <1>1 DEF OnStarting, CleanUp, Removed
<1>2. CASE Kill
  BY <1>2 DEF Kill
<1>3. ASSUME NEW p \in Pids, Fork(p) \/ BuildStack(p) PROVE WorkersTypeOK'
  BY <1>3 DEF Fork, BuildStack, Opened
<1>4. ASSUME NEW p \in Pids, Lifespan(p) PROVE WorkersTypeOK'
  BY <1>4 DEF Lifespan, CleanUp, Removed
<1>5. ASSUME NEW p \in Pids, Begin(p) \/ End(p) PROVE WorkersTypeOK'
  BY <1>5 DEF Begin, End, Opened
<1>6. ASSUME NEW p \in Pids, Die(p) \/ ChildExit(p) PROVE WorkersTypeOK'
  BY <1>6 DEF Die, ChildExit, Removed
<1>7. CASE UNCHANGED workersVars
  BY <1>7 DEF workersVars
<1>8. QED
  BY <1>1, <1>2, <1>3, <1>4, <1>5, <1>6, <1>7 DEF WorkersNext

LEMMA NextKeepsWorkers ==
  ASSUME WorkersInv, [WorkersNext]_workersVars
  PROVE  WorkersInv'
<1> USE DEF WorkersInv, WorkersTypeOK, Phases, Alive, FileStates, files,
            OldCountsAreForgotten, Shown, Nothing
<1>1. CASE OnStarting
  BY <1>1, NextKeepsWorkersTyped DEF OnStarting, CleanUp, Removed
<1>2. CASE Kill
  BY <1>2, NextKeepsWorkersTyped DEF Kill
<1>3. ASSUME NEW p \in Pids, Fork(p) \/ BuildStack(p) PROVE WorkersInv'
  BY <1>3, NextKeepsWorkersTyped DEF Fork, BuildStack, Opened
<1>4. ASSUME NEW p \in Pids, Lifespan(p) PROVE WorkersInv'
  BY <1>4, NextKeepsWorkersTyped DEF Lifespan, CleanUp, Removed
<1>5. ASSUME NEW p \in Pids, Begin(p) \/ End(p) PROVE WorkersInv'
  BY <1>5, NextKeepsWorkersTyped DEF Begin, End, Opened
<1>6. ASSUME NEW p \in Pids, Die(p) \/ ChildExit(p) PROVE WorkersInv'
  BY <1>6, NextKeepsWorkersTyped DEF Die, ChildExit, Removed
<1>7. CASE UNCHANGED workersVars
  BY <1>7 DEF workersVars
<1>8. QED
  BY <1>1, <1>2, <1>3, <1>4, <1>5, <1>6, <1>7 DEF WorkersNext

THEOREM WorkersInvariant == WorkersSpec => []WorkersInv
<1>1. QED
  BY InitWorkers, NextKeepsWorkers, PTL DEF WorkersSpec

\* Whenever the container is killed and started again, the new server shows
\* nothing of the workers of the old one (on_starting and the cleanup).
THEOREM OldCountsForgotten == WorkersSpec => []OldCountsAreForgotten
<1>1. WorkersInv => OldCountsAreForgotten
  BY DEF WorkersInv
<1>2. QED
  BY <1>1, WorkersInvariant, PTL

-----------------------------------------------------------------------------
(* DBAdapter.                                                              *)

\* While the flag is set, one thread is in the adapter.
Alone ==
  inTx => \A t, u \in Threads : t # u => at[t] = "idle" \/ at[u] = "idle"

\* Which connection is where: each is in the pool, kept by the flag or used
\* by one statement.
Connected ==
  /\ txConn # NoConn => inTx /\ txConn \notin pool
  /\ \A t \in Threads :
       /\ conn[t] # NoConn <=> at[t] \in {"run", "commit", "release"}
       /\ held[t] # NoConn => /\ inTx /\ held[t] = txConn
                              /\ at[t] \notin {"idle", "get", "tx_get"}
       /\ at[t] = "tx_get" => inTx
       /\ at[t] \in {"get", "tx_get"} => txConn = NoConn
       /\ conn[t] # NoConn => conn[t] \notin pool
       /\ conn[t] # NoConn /\ inTx => conn[t] = txConn
       /\ \A u \in Threads \ {t} : conn[t] # NoConn => conn[u] # conn[t]
  /\ \A c \in Conns : c \in pool \/ c = txConn \/ \E t \in Threads : conn[t] = c

\* What is not committed will be, or is on the connection that a transaction()
\* without one has left behind.
Committed ==
  /\ \A c \in Conns :
       dirty[c] # {} => c = txConn \/ \E t \in Threads : conn[t] = c /\ at[t] = "commit"
  /\ txConn # NoConn /\ dirty[txConn] # {} => unstarted
  /\ \A t \in Threads : at[t] = "commit" /\ ~inTx => ~aborted[conn[t]]
  /\ lost # {} => unstarted
  /\ inTx /\ (\A t \in Threads : ~InTransaction(t)) => unstarted

Orderly == ~overlapped => Alone /\ Connected /\ Committed

AdapterInv == AdapterTypeOK /\ Orderly

LEMMA InitAdapter == AdapterInit => AdapterInv
  BY AdapterAssumption
  DEF AdapterInit, AdapterInv, AdapterTypeOK, Orderly, Alone, Connected, Committed, Points

LEMMA EndWorkTyped ==
  ASSUME AdapterTypeOK, NEW c \in Conns, NEW b \in BOOLEAN, EndWork(c, b)
  PROVE  /\ dirty' \in [Conns -> SUBSET Threads] /\ aborted' \in [Conns -> BOOLEAN]
         /\ lost' \subseteq Threads
  BY DEF EndWork, AdapterTypeOK

LEMMA PutConnTyped ==
  ASSUME AdapterTypeOK, NEW c \in Conns, PutConn(c)
  PROVE  /\ dirty' \in [Conns -> SUBSET Threads] /\ aborted' \in [Conns -> BOOLEAN]
         /\ lost' \subseteq Threads /\ pool' \subseteq Conns
  BY EndWorkTyped DEF PutConn, AdapterTypeOK, work

LEMMA NextKeepsAdapterTyped ==
  ASSUME AdapterTypeOK, [AdapterNext]_adapterVars
  PROVE  AdapterTypeOK'
<1> USE AdapterAssumption DEF AdapterTypeOK, Points, flags, work
<1>1. ASSUME NEW t \in Threads, Execute(t) PROVE AdapterTypeOK'
  BY <1>1 DEF Execute
<1>2. ASSUME NEW t \in Threads, GetConn(t) PROVE AdapterTypeOK'
  BY <1>2 DEF GetConn
<1>3. ASSUME NEW t \in Threads, GetConnTimesOut(t) PROVE AdapterTypeOK'
  BY <1>3 DEF GetConnTimesOut, Return, InBody
<1>4. ASSUME NEW t \in Threads, Statement(t) PROVE AdapterTypeOK'
  BY <1>4 DEF Statement
<1>5. ASSUME NEW t \in Threads, StatementFails(t) PROVE AdapterTypeOK'
  BY <1>5 DEF StatementFails
<1>6. ASSUME NEW t \in Threads, Commit(t) PROVE AdapterTypeOK'
  BY <1>6, EndWorkTyped DEF Commit
<1>7. ASSUME NEW t \in Threads, Release(t) PROVE AdapterTypeOK'
  BY <1>7, PutConnTyped DEF Release, Return, InBody
<1>8. ASSUME NEW t \in Threads, Transaction(t) PROVE AdapterTypeOK'
  BY <1>8 DEF Transaction
<1>9. ASSUME NEW t \in Threads, EndBody(t) PROVE AdapterTypeOK'
  BY <1>9, EndWorkTyped DEF EndBody
<1>10. ASSUME NEW t \in Threads, EndTransaction(t) PROVE AdapterTypeOK'
  BY <1>10, PutConnTyped DEF EndTransaction
<1>11. CASE Close
  <2>1. lost' \subseteq Threads
    BY <1>11 DEF Close
  <2>2. /\ inTx' \in BOOLEAN /\ txConn' \in Conns \cup {NoConn} /\ pool' \subseteq Conns
        /\ dirty' \in [Conns -> SUBSET Threads] /\ aborted' \in [Conns -> BOOLEAN]
    BY <1>11 DEF Close
  <2>3. QED
    BY <1>11, <2>1, <2>2 DEF Close
<1>12. CASE UNCHANGED adapterVars
  BY <1>12 DEF adapterVars
<1>13. QED
  BY <1>1, <1>2, <1>3, <1>4, <1>5, <1>6, <1>7, <1>8, <1>9, <1>10, <1>11, <1>12
  DEF AdapterNext

LEMMA ExecuteOrderly ==
  ASSUME AdapterInv, NEW t \in Threads, Execute(t)
  PROVE  Orderly'
<1> SUFFICES ASSUME ~overlapped' PROVE Alone' /\ Connected' /\ Committed'
  BY DEF Orderly
<1> USE AdapterAssumption DEF AdapterInv, AdapterTypeOK, Points, flags, work, Orderly
<1>1. ~overlapped /\ (inTx => \A u \in Threads \ {t} : at[u] = "idle")
  BY DEF Execute
<1>2. Alone'
  BY <1>1 DEF Execute, Alone
<1>3. Connected'
  BY <1>1 DEF Execute, Connected
<1>4. Committed'
  BY <1>1 DEF Execute, Connected, Committed, InTransaction, InBody
<1>5. QED
  BY <1>2, <1>3, <1>4

LEMMA GetConnOrderly ==
  ASSUME AdapterInv, NEW t \in Threads, GetConn(t)
  PROVE  Orderly'
<1> SUFFICES ASSUME ~overlapped' PROVE Alone' /\ Connected' /\ Committed'
  BY DEF Orderly
<1> USE AdapterAssumption DEF AdapterInv, AdapterTypeOK, Points, Orderly
<1>1. ~overlapped
  BY DEF GetConn
<1>2. Alone'
  BY <1>1 DEF GetConn, Alone
<1>3. Connected'
  BY <1>1 DEF GetConn, Alone, Connected
<1>4. Committed'
  BY <1>1 DEF GetConn, Alone, Connected, Committed, InTransaction, InBody, work
<1>5. QED
  BY <1>2, <1>3, <1>4

LEMMA TimesOutOrderly ==
  ASSUME AdapterInv, NEW t \in Threads, GetConnTimesOut(t)
  PROVE  Orderly'
<1> SUFFICES ASSUME ~overlapped' PROVE Alone' /\ Connected' /\ Committed'
  BY DEF Orderly
<1> USE AdapterAssumption DEF AdapterInv, AdapterTypeOK, Points, flags, work, Orderly
<1>1. ~overlapped
  BY DEF GetConnTimesOut
<1>2. at' = [at EXCEPT ![t] = "idle"] /\ (unstarted' = unstarted \/ unstarted' = TRUE)
  BY <1>1 DEF GetConnTimesOut, Return, InBody, Connected
<1>3. Alone'
  BY <1>1, <1>2 DEF GetConnTimesOut, Alone
<1>4. Connected'
  BY <1>1, <1>2 DEF GetConnTimesOut, Connected
<1>5. Committed'
  BY <1>1, <1>2 DEF GetConnTimesOut, Connected, Committed, InTransaction, InBody
<1>6. QED
  BY <1>3, <1>4, <1>5

LEMMA StatementOrderly ==
  ASSUME AdapterInv, NEW t \in Threads, Statement(t) \/ StatementFails(t)
  PROVE  Orderly'
<1> SUFFICES ASSUME ~overlapped' PROVE Alone' /\ Connected' /\ Committed'
  BY DEF Orderly
<1> USE AdapterAssumption
    DEF AdapterInv, AdapterTypeOK, Points, flags, Orderly, Statement, StatementFails
<1>1. ~overlapped
  OBVIOUS
<1>2. Alone'
  BY <1>1 DEF Alone
<1>3. Connected'
  BY <1>1 DEF Connected
<1>4. Committed'
  BY <1>1 DEF Alone, Connected, Committed, InTransaction, InBody
<1>5. QED
  BY <1>2, <1>3, <1>4

LEMMA CommitOrderly ==
  ASSUME AdapterInv, NEW t \in Threads, Commit(t)
  PROVE  Orderly'
<1> SUFFICES ASSUME ~overlapped' PROVE Alone' /\ Connected' /\ Committed'
  BY DEF Orderly
<1> USE AdapterAssumption DEF AdapterInv, AdapterTypeOK, Points, flags, work, Orderly, Commit
<1>1. ~overlapped
  OBVIOUS
<1>2. Alone'
  BY <1>1 DEF Alone
<1>3. Connected'
  BY <1>1 DEF Connected
<1>4. Committed'
  BY <1>1 DEF Connected, Committed, InTransaction, InBody, EndWork
<1>5. QED
  BY <1>2, <1>3, <1>4

LEMMA ReleaseOrderly ==
  ASSUME AdapterInv, NEW t \in Threads, Release(t)
  PROVE  Orderly'
<1> SUFFICES ASSUME ~overlapped' PROVE Alone' /\ Connected' /\ Committed'
  BY DEF Orderly
<1> USE AdapterAssumption DEF AdapterInv, AdapterTypeOK, Points, Orderly, Release, Return, InBody
<1>1. ~overlapped
  OBVIOUS
<1>2. Alone'
  BY <1>1 DEF Alone
<1>3. conn[t] \in Conns /\ conn[t] \notin pool
  BY <1>1 DEF Connected
<1>4. CASE inTx
  <2>1. Connected'
    BY <1>1, <1>4 DEF Connected
  <2>2. Committed'
    BY <1>1, <1>4 DEF Connected, Committed, InTransaction, work
  <2>3. QED
    BY <1>2, <2>1, <2>2
<1>5. CASE ~inTx
  <2>1. pool' = pool \cup {conn[t]} /\ EndWork(conn[t], FALSE)
    BY <1>3, <1>5 DEF PutConn
  <2>2. Connected'
    BY <1>1, <1>3, <1>5, <2>1 DEF Connected
  <2>3. dirty[conn[t]] = {}
    BY <1>1, <1>3, <1>5 DEF Connected, Committed
  <2>4. Committed'
    BY <1>1, <1>3, <1>5, <2>1, <2>3 DEF Connected, Committed, EndWork
  <2>5. QED
    BY <1>2, <2>2, <2>4
<1>6. QED
  BY <1>4, <1>5

LEMMA TransactionOrderly ==
  ASSUME AdapterInv, NEW t \in Threads, Transaction(t)
  PROVE  Orderly'
<1> SUFFICES ASSUME ~overlapped' PROVE Alone' /\ Connected' /\ Committed'
  BY DEF Orderly
<1> USE AdapterAssumption
    DEF AdapterInv, AdapterTypeOK, Points, work, Orderly, Transaction
<1>1. ~overlapped /\ \A u \in Threads : at[u] = "idle"
  OBVIOUS
<1>2. Alone'
  BY <1>1 DEF Alone
<1>3. Connected'
  BY <1>1 DEF Connected
<1>4. Committed'
  BY <1>1 DEF Connected, Committed, InTransaction, InBody
<1>5. QED
  BY <1>2, <1>3, <1>4

LEMMA EndBodyOrderly ==
  ASSUME AdapterInv, NEW t \in Threads, EndBody(t)
  PROVE  Orderly'
<1> SUFFICES ASSUME ~overlapped' PROVE Alone' /\ Connected' /\ Committed'
  BY DEF Orderly
<1> USE AdapterAssumption DEF AdapterInv, AdapterTypeOK, Points, flags, Orderly, EndBody
<1>1. ~overlapped /\ inTx /\ held[t] = txConn /\ txConn \in Conns
  BY DEF Connected
<1>2. Alone'
  BY <1>1 DEF Alone
<1>3. Connected'
  BY <1>1 DEF Connected
<1>4. PICK b \in BOOLEAN : EndWork(txConn, b)
  BY <1>1
<1>5. Committed'
  BY <1>1, <1>4 DEF Connected, Committed, InTransaction, InBody, EndWork
<1>6. QED
  BY <1>2, <1>3, <1>5

LEMMA EndTransactionOrderly ==
  ASSUME AdapterInv, NEW t \in Threads, EndTransaction(t)
  PROVE  Orderly'
<1> SUFFICES ASSUME ~overlapped' PROVE Alone' /\ Connected' /\ Committed'
  BY DEF Orderly
<1> USE AdapterAssumption DEF AdapterInv, AdapterTypeOK, Points, Orderly, EndTransaction
<1>1. /\ ~overlapped /\ inTx /\ txConn \in Conns /\ txConn \notin pool
      /\ \A u \in Threads \ {t} : at[u] = "idle"
  BY DEF Connected, Alone
<1>2. /\ pool' = pool \cup {txConn} /\ txConn' = NoConn /\ inTx' = FALSE
      /\ EndWork(txConn, FALSE)
  BY <1>1 DEF PutConn
<1>3. Alone'
  BY <1>1, <1>2 DEF Alone
<1>4. Connected'
  BY <1>1, <1>2 DEF Connected
<1>5. Committed'
  BY <1>1, <1>2 DEF Connected, Committed, EndWork
<1>6. QED
  BY <1>3, <1>4, <1>5

LEMMA CloseOrderly ==
  ASSUME AdapterInv, Close
  PROVE  Orderly'
<1> SUFFICES ASSUME ~overlapped' PROVE Alone' /\ Connected' /\ Committed'
  BY DEF Orderly
<1> USE AdapterAssumption DEF AdapterInv, AdapterTypeOK, Points, Orderly, Close
<1>1. ~overlapped /\ \A u \in Threads : at[u] = "idle"
  OBVIOUS
<1>2. Alone' /\ Connected'
  BY <1>1 DEF Alone, Connected
<1>3. Committed'
  BY <1>1 DEF Connected, Committed
<1>4. QED
  BY <1>2, <1>3

LEMMA NextKeepsAdapter ==
  ASSUME AdapterInv, [AdapterNext]_adapterVars
  PROVE  AdapterInv'
<1>1. AdapterTypeOK'
  BY NextKeepsAdapterTyped DEF AdapterInv
<1>2. CASE UNCHANGED adapterVars
  BY <1>2
  DEF AdapterInv, adapterVars, flags, work, AdapterTypeOK, Orderly, Alone, Connected,
      Committed, InTransaction, InBody
<1>3. QED
  BY <1>1, <1>2, ExecuteOrderly, GetConnOrderly, TimesOutOrderly, StatementOrderly,
     CommitOrderly, ReleaseOrderly, TransactionOrderly, EndBodyOrderly,
     EndTransactionOrderly, CloseOrderly
  DEF AdapterInv, AdapterNext

THEOREM AdapterInvariant == AdapterSpec => []AdapterInv
<1>1. QED
  BY InitAdapter, NextKeepsAdapter, PTL DEF AdapterSpec

\* As long as no thread enters the adapter beside a transaction, connections
\* come back and what was reported done is committed, except for what follows
\* a transaction() that got no connection (execute, transaction and close).
THEOREM NothingIsLeft == AdapterSpec => []CallsLeaveNothing
<1>1. AdapterInv => CallsLeaveNothing
  BY AdapterAssumption
  DEF AdapterInv, AdapterTypeOK, Orderly, Connected, Committed, CallsLeaveNothing, Points
<1>2. QED
  BY <1>1, AdapterInvariant, PTL

-----------------------------------------------------------------------------
(* RateLimiter.                                                            *)

\* What is granted and what is left come from the capacity, once per bucket
\* Redis has had, and from the time last_refill has come to stand at, counting
\* what it was moved back.  A bucket that Redis has lost holds nothing of what
\* may still be granted, whatever an old snapshot says.
BucketAccount ==
  granted + tokens <= Capacity * (1 + forgotten) + RefillRate * (last + setBack)

LostAccount == granted <= Capacity * forgotten + RefillRate * (now + setBack)

SharedAccount == (exists /\ BucketAccount) \/ LostAccount

OwnAccount ==
  \A c \in Clients : ownGranted[c] + ownTokens[c] <= Capacity + RefillRate * ownLast[c]

LimiterInv == LimiterTypeOK /\ SharedAccount /\ OwnAccount

LEMMA NoBucketTyped == NoBucket \in Buckets
  BY BucketsAssumption DEF NoBucket, Buckets

LEMMA InitLimiter == LimiterInit => LimiterInv
<1>1. RefillRate * 0 = 0 /\ Capacity * 0 = 0
  BY BucketsAssumption
<1>2. ASSUME LimiterInit PROVE LimiterTypeOK
  <2>1. /\ now = 0 /\ tokens = 0 /\ last = 0 /\ granted = 0
        /\ forgotten = 0 /\ setBack = 0 /\ exists = FALSE /\ saved = NoBucket
    BY <1>2 DEF LimiterInit
  <2>2. /\ ownTokens \in [Clients -> 0..Capacity] /\ ownLast \in [Clients -> 0..now]
        /\ ownGranted \in [Clients -> Nat]
    BY <1>2, BucketsAssumption DEF LimiterInit
  <2>3. exists \in BOOLEAN /\ saved \in Buckets /\ saved.last = 0
    BY <2>1, NoBucketTyped DEF NoBucket
  <2>4. QED
    BY <2>1, <2>2, <2>3, BucketsAssumption DEF LimiterTypeOK
<1>3. ASSUME LimiterInit PROVE SharedAccount
  <2>1. /\ granted = 0 /\ forgotten = 0 /\ now + setBack = 0
    BY <1>3 DEF LimiterInit
  <2>2. Capacity * forgotten = 0 /\ RefillRate * (now + setBack) = 0
    BY <1>1, <2>1
  <2>3. QED
    BY <2>1, <2>2 DEF SharedAccount, LostAccount
<1>4. ASSUME LimiterInit, NEW c \in Clients
      PROVE  ownGranted[c] + ownTokens[c] <= Capacity + RefillRate * ownLast[c]
  <2>1. ownGranted[c] = 0 /\ ownTokens[c] = Capacity /\ ownLast[c] = 0
    BY <1>4 DEF LimiterInit
  <2>2. RefillRate * ownLast[c] = 0
    BY <1>1, <2>1
  <2>3. QED
    BY <2>1, <2>2, BucketsAssumption
<1>5. QED
  BY <1>2, <1>3, <1>4 DEF LimiterInv, OwnAccount

LEMMA Chained ==
  ASSUME NEW i \in Nat, NEW j \in Nat, NEW k \in Nat, NEW l \in Nat, NEW m \in Nat,
         NEW n \in Nat, i <= j + k, j <= l + m, m <= n
  PROVE  i <= (k + l) + n
OBVIOUS

\* One run of the script.
LEMMA ScriptKeepsAccount ==
  ASSUME LimiterInv, NEW c \in Clients, Script(now + Ahead[c]), now' = now,
         forgotten' = forgotten
  PROVE  /\ tokens' \in 0..Capacity /\ last' \in Nat /\ exists'
         /\ last' <= now' + MaxAhead
         /\ granted' \in Nat /\ setBack' \in Nat
         /\ SharedAccount'
<1> DEFINE t       == now + Ahead[c]
           was     == IF exists THEN last ELSE t
           elapsed == AtLeast(0, t - was)
           had     == IF exists THEN tokens ELSE Capacity
           filled  == AtMost(Capacity, had + elapsed * RefillRate)
           taken   == IF filled >= 1 THEN 1 ELSE 0
           moved   == AtLeast(0, was - t)
<1> USE BucketsAssumption DEF LimiterInv, LimiterTypeOK
<1>1. t \in Nat /\ t >= now /\ t <= now + MaxAhead
  OBVIOUS
<1>2. /\ was \in Nat /\ elapsed \in Nat /\ moved \in Nat
      /\ was + elapsed = t + moved
  BY <1>1 DEF AtLeast
<1>3. had \in 0..Capacity
  OBVIOUS
<1>4. elapsed * RefillRate \in Nat /\ elapsed * RefillRate = RefillRate * elapsed
  BY <1>2
<1>5. filled \in 0..Capacity /\ filled <= had + RefillRate * elapsed
  BY <1>3, <1>4 DEF AtMost
<1>6. taken \in 0..1 /\ taken <= filled
  BY <1>5
<1>7. /\ tokens' = filled - taken /\ last' = t /\ exists' = TRUE
      /\ granted' = granted + taken /\ setBack' = setBack + moved
  BY DEF Script
<1>8. granted' + tokens' <= granted + had + RefillRate * elapsed
  BY <1>3, <1>4, <1>5, <1>6, <1>7
<1>9. granted' + tokens' <= Capacity * (1 + forgotten) + RefillRate * (t + setBack + moved)
  <2>1. CASE exists /\ BucketAccount
    <3>1. granted + had <= Capacity * (1 + forgotten) + RefillRate * (last + setBack)
      BY <2>1 DEF BucketAccount
    <3>2. RefillRate * (last + setBack + elapsed) =
            RefillRate * (last + setBack) + RefillRate * elapsed
      BY <1>2, Distributes
    <3>3. last + setBack + elapsed = t + setBack + moved
      BY <2>1, <1>1, <1>2
    <3>4. QED
      BY <3>1, <3>2, <3>3, <1>2, <1>3, <1>4, <1>6, <1>7, <1>8, Distributes
  <2>2. CASE LostAccount
    <3>1. granted <= Capacity * forgotten + RefillRate * (now + setBack)
      BY <2>2 DEF LostAccount
    <3>2. granted' + tokens' <= granted + Capacity
      BY <1>5, <1>6, <1>7
    <3>3. RefillRate * (now + setBack) <= RefillRate * (t + setBack + moved)
      BY <1>1, <1>2, Distributes
    <3>4. Capacity * (1 + forgotten) = Capacity + Capacity * forgotten
      BY Distributes
    <3>5. Capacity * forgotten \in Nat /\ RefillRate * (now + setBack) \in Nat
          /\ RefillRate * (t + setBack + moved) \in Nat
      BY <1>1, <1>2, Distributes
    <3>6. granted' \in Nat /\ tokens' \in Nat
      BY <1>5, <1>6, <1>7
    <3>7. granted' + tokens'
            <= (Capacity + Capacity * forgotten) + RefillRate * (t + setBack + moved)
      <4> DEFINE i == granted' + tokens'
                 l == Capacity * forgotten
                 m == RefillRate * (now + setBack)
                 n == RefillRate * (t + setBack + moved)
      <4>1. ASSUME NEW j \in Nat, NEW k \in Nat PROVE j + k \in Nat
        OBVIOUS
      <4>2. l \in Nat /\ m \in Nat /\ n \in Nat
        BY <3>5, Zenon
      <4>3. i <= granted + Capacity /\ granted <= l + m /\ m <= n
        BY <3>1, <3>2, <3>3, Zenon
      <4>4. granted \in Nat /\ Capacity \in Nat /\ i \in Nat
        BY <3>6, <4>1, Zenon
      <4> HIDE DEF i, l, m, n
      <4>5. i <= (Capacity + l) + n
        BY <4>2, <4>3, <4>4, Chained
      <4>6. QED
        BY ONLY <4>5 DEF i, l, n
    <3>8. QED
      BY <3>4, <3>7
  <2>3. QED
    BY <2>1, <2>2 DEF SharedAccount
<1>10. BucketAccount'
  BY <1>2, <1>7, <1>9 DEF BucketAccount
<1>11. QED
  BY <1>1, <1>2, <1>5, <1>6, <1>7, <1>10 DEF SharedAccount

LEMMA FallbackKeepsAccount ==
  ASSUME LimiterInv, NEW c \in Clients, Fallback(c), now' = now
  PROVE  /\ ownTokens' \in [Clients -> 0..Capacity] /\ ownLast' \in [Clients -> 0..now']
         /\ ownGranted' \in [Clients -> Nat]
         /\ OwnAccount'
<1> DEFINE elapsed == now - ownLast[c]
           filled  == AtMost(Capacity, ownTokens[c] + elapsed * RefillRate)
           taken   == IF filled >= 1 THEN 1 ELSE 0
<1> USE BucketsAssumption DEF LimiterInv, LimiterTypeOK
<1>1. elapsed \in Nat /\ ownLast[c] + elapsed = now
  OBVIOUS
<1>2. /\ elapsed * RefillRate \in Nat /\ elapsed * RefillRate = RefillRate * elapsed
      /\ RefillRate * now = RefillRate * ownLast[c] + RefillRate * elapsed
      /\ RefillRate * ownLast[c] \in Nat
  BY <1>1, Distributes
<1>3. filled \in 0..Capacity /\ filled <= ownTokens[c] + RefillRate * elapsed
  BY <1>2 DEF AtMost
<1>4. taken \in 0..1 /\ taken <= filled
  BY <1>3
<1>5. /\ ownTokens' = [ownTokens EXCEPT ![c] = filled - taken]
      /\ ownLast' = [ownLast EXCEPT ![c] = now]
      /\ ownGranted' = [ownGranted EXCEPT ![c] = @ + taken]
  BY DEF Fallback
<1>6. ownGranted[c] + taken + (filled - taken) <= Capacity + RefillRate * now
  BY <1>2, <1>3, <1>4 DEF OwnAccount
<1>7. QED
  BY <1>3, <1>4, <1>5, <1>6 DEF OwnAccount

\* Redis goes back to an old bucket, or to none.
LEMMA LossKeepsAccount ==
  ASSUME LimiterInv, NEW old \in Buckets, old.last <= now + MaxAhead, Loses(old)
  PROVE  LimiterInv'
<1> DEFINE moved == IF exists THEN AtLeast(0, last - now) ELSE 0
<1> USE BucketsAssumption
<1>1. /\ now' = now /\ granted' = granted /\ forgotten' = forgotten + 1
      /\ setBack' = setBack + moved /\ UNCHANGED <<own, saved>>
      /\ exists' = old.exists /\ tokens' = old.tokens /\ last' = old.last
  BY DEF Loses
<1>2. moved \in Nat /\ (exists => last + setBack <= now + setBack')
  BY <1>1 DEF AtLeast, LimiterInv, LimiterTypeOK
<1>3. old.exists \in BOOLEAN /\ old.tokens \in 0..Capacity /\ old.last \in Nat
  BY DEF Buckets
<1>4. LimiterTypeOK'
  <2>1. exists' \in BOOLEAN /\ tokens' \in 0..Capacity /\ last' \in Nat
        /\ last' <= now' + MaxAhead
    BY <1>1, <1>3
  <2>2. QED
    BY <1>1, <1>2, <2>1 DEF own, LimiterInv, LimiterTypeOK
<1>5. LostAccount'
  <2> USE DEF LimiterInv, LimiterTypeOK
  <2>1. /\ RefillRate * (now + setBack) <= RefillRate * (now + setBack')
        /\ exists => RefillRate * (last + setBack) <= RefillRate * (now + setBack')
        /\ RefillRate * (now + setBack) \in Nat /\ RefillRate * (last + setBack) \in Nat
        /\ RefillRate * (now + setBack') \in Nat
    BY <1>1, <1>2, Distributes
  <2>2. /\ Capacity * forgotten <= Capacity * (1 + forgotten)
        /\ Capacity * forgotten \in Nat /\ Capacity * (1 + forgotten) \in Nat
    BY Distributes
  <2>3. granted <= Capacity * (1 + forgotten) + RefillRate * (now + setBack')
    BY <2>1, <2>2 DEF SharedAccount, BucketAccount, LostAccount
  <2>4. forgotten' = 1 + forgotten
    BY <1>1
  <2>5. /\ Capacity * forgotten' = Capacity * (1 + forgotten)
        /\ RefillRate * (now' + setBack') = RefillRate * (now + setBack')
    BY <1>1, <2>4
  <2>6. QED
    BY <1>1, <2>3, <2>5 DEF LostAccount
<1>6. OwnAccount'
  BY <1>1 DEF own, LimiterInv, OwnAccount
<1>7. QED
  BY <1>4, <1>5, <1>6 DEF LimiterInv, SharedAccount

LEMMA NextKeepsLimiter ==
  ASSUME LimiterInv, [LimiterNext]_limiterVars
  PROVE  LimiterInv'
<1> USE BucketsAssumption
<1>1. CASE Tick
  <2>1. RefillRate * (now + setBack) <= RefillRate * (now + 1 + setBack)
        /\ RefillRate * (now + setBack) \in Nat /\ RefillRate * (now + 1 + setBack) \in Nat
    BY Distributes DEF LimiterInv, LimiterTypeOK
  <2>2. Capacity * forgotten \in Nat
    BY Distributes DEF LimiterInv, LimiterTypeOK
  <2>3. now' = now + 1 /\ UNCHANGED <<shared, own, saved, forgotten>>
    BY <1>1 DEF Tick
  <2>4. LimiterTypeOK'
    <3>1. /\ now \in Nat /\ last \in Nat /\ saved.last <= now + MaxAhead /\ saved.last \in Nat
          /\ last <= now + MaxAhead /\ ownLast \in [Clients -> 0..now]
      BY DEF LimiterInv, LimiterTypeOK, Buckets
    <3>2. /\ now' \in Nat /\ ownLast' \in [Clients -> 0..now']
          /\ last' <= now' + MaxAhead /\ saved'.last <= now' + MaxAhead
      BY <2>3, <3>1 DEF shared, bucket, own
    <3>3. QED
      BY <2>3, <3>2, Zenon DEF shared, bucket, own, LimiterInv, LimiterTypeOK
  <2>5. OwnAccount'
    BY <2>3 DEF own, LimiterInv, OwnAccount
  <2>6. BucketAccount => BucketAccount'
    BY <2>3 DEF shared, bucket, BucketAccount
  <2>7. ASSUME LostAccount PROVE LostAccount'
    <3>1. granted <= Capacity * forgotten + RefillRate * (now + setBack)
      BY <2>7 DEF LostAccount
    <3>2. granted <= Capacity * forgotten + RefillRate * (now + 1 + setBack)
      BY <2>1, <2>2, <3>1 DEF LimiterInv, LimiterTypeOK
    <3>3. /\ granted' = granted /\ forgotten' = forgotten /\ now' = now + 1
          /\ setBack' = setBack
      BY <2>3 DEF shared
    <3>4. QED
      BY ONLY <3>2, <3>3 DEF LostAccount
  <2>8. QED
    BY <2>3, <2>4, <2>5, <2>6, <2>7 DEF shared, bucket, LimiterInv, SharedAccount
<1>2. ASSUME NEW old \in Buckets, old.last <= now + MaxAhead, Loses(old) PROVE LimiterInv'
  BY <1>2, LossKeepsAccount
<1>3. CASE Forget
  BY <1>2, <1>3, NoBucketTyped DEF Forget, NoBucket, LimiterInv, LimiterTypeOK
<1>4. CASE RestartRedis
  BY <1>2, <1>4, NoBucketTyped DEF RestartRedis, NoBucket, LimiterInv, LimiterTypeOK
<1>5. CASE Save
  <2>1. saved' \in Buckets /\ saved'.last = last
    BY <1>5 DEF Save, Buckets, LimiterInv, LimiterTypeOK
  <2>2. QED
    BY <1>5, <2>1
    DEF Save, shared, bucket, own, LimiterInv, LimiterTypeOK, SharedAccount, BucketAccount,
        LostAccount, OwnAccount
<1>6. ASSUME NEW c \in Clients, AcquireShared(c) PROVE LimiterInv'
  BY <1>6, ScriptKeepsAccount DEF AcquireShared, own, LimiterInv, LimiterTypeOK, OwnAccount
<1>7. ASSUME NEW c \in Clients, AcquireOwn(c) PROVE LimiterInv'
  BY <1>7, FallbackKeepsAccount
  DEF AcquireOwn, shared, bucket, LimiterInv, LimiterTypeOK, SharedAccount, BucketAccount,
      LostAccount
<1>8. ASSUME NEW c \in Clients, AcquireBoth(c) PROVE LimiterInv'
  BY <1>8, ScriptKeepsAccount, FallbackKeepsAccount
  DEF AcquireBoth, LimiterInv, LimiterTypeOK
<1>9. CASE UNCHANGED limiterVars
  BY <1>9
  DEF limiterVars, shared, bucket, own, LimiterInv, LimiterTypeOK, SharedAccount,
      BucketAccount, LostAccount, OwnAccount
<1>10. QED
  BY <1>1, <1>3, <1>4, <1>5, <1>6, <1>7, <1>8, <1>9 DEF LimiterNext

THEOREM LimiterInvariant == LimiterSpec => []LimiterInv
<1>1. QED
  BY InitLimiter, NextKeepsLimiter, PTL DEF LimiterSpec

\* Clocks that differ, buckets that Redis loses and buckets of their own are
\* all that processes can exceed the limit by (_TOKEN_BUCKET_LUA and acquire).
THEOREM GrantsBounded == LimiterSpec => []GrantsAreBounded
<1>1. LimiterInv => GrantsAreBounded
  <2>1. SUFFICES ASSUME LimiterInv PROVE GrantsAreBounded
    OBVIOUS
  <2> USE <2>1, BucketsAssumption DEF LimiterInv, LimiterTypeOK
  <2>2. /\ RefillRate * (now + setBack) <= RefillRate * (now + MaxAhead + setBack)
        /\ RefillRate * (last + setBack) <= RefillRate * (now + MaxAhead + setBack)
        /\ Capacity * (1 + forgotten) = Capacity + Capacity * forgotten
    BY Distributes
  <2>3. /\ RefillRate * (now + setBack) \in Nat /\ RefillRate * (last + setBack) \in Nat
        /\ RefillRate * (now + MaxAhead + setBack) \in Nat
        /\ Capacity * (1 + forgotten) \in Nat /\ Capacity * forgotten \in Nat
    BY Distributes
  <2>4. granted <= Capacity * (1 + forgotten) + RefillRate * (now + MaxAhead + setBack)
    BY <2>2, <2>3 DEF SharedAccount, BucketAccount, LostAccount
  <2>5. ASSUME NEW c \in Clients PROVE ownGranted[c] <= Capacity + RefillRate * now
    <3>1. RefillRate * ownLast[c] <= RefillRate * now
          /\ RefillRate * ownLast[c] \in Nat /\ RefillRate * now \in Nat
      BY Distributes
    <3>2. QED
      BY <3>1 DEF OwnAccount
  <2>6. QED
    BY <2>4, <2>5 DEF GrantsAreBounded
<1>2. QED
  BY <1>1, LimiterInvariant, PTL

-----------------------------------------------------------------------------
(* Cache.                                                                  *)

\* An entry is what was asked for last, or something since has not reached
\* Redis; and it is kept for the longest time to live at most.
EntriesKnown ==
  \A k \in CacheKeys :
    /\ entries[k].value = latest[k] \/ missed[k] \/ entries[k].value = NoValue
    /\ entries[k].until <= entries[k].from + LongestTtl
    /\ snapshot[k].until <= snapshot[k].from + LongestTtl

CacheInv == CacheTypeOK /\ EntriesKnown

LEMMA InitCacheTypes == CacheInit => CacheTypeOK
  BY TtlAssumption DEF CacheInit, CacheTypeOK, NoEntry, NoValue, Entries

LEMMA OrderedInBounds ==
  ASSUME CacheTypeOK, NEW k \in CacheKeys, NEW v \in 0..MaxWrites, NEW d \in BOOLEAN,
         Ordered(k, v, d)
  PROVE  latest' \in [CacheKeys -> 0..MaxWrites] /\ missed' \in [CacheKeys -> BOOLEAN]
  BY DEF CacheTypeOK, Ordered

LEMMA ConnectionsTyped ==
  ASSUME CacheTypeOK, NEW u \in Users, NoConnection(u) \/ Connects(u)
  PROVE  connected' \in [Users -> BOOLEAN]
<1>1. CASE connected' = connected
  BY <1>1 DEF CacheTypeOK
<1>2. CASE connected' = [connected EXCEPT ![u] = TRUE]
  BY <1>2 DEF CacheTypeOK
<1> QED BY <1>1, <1>2 DEF NoConnection, Connects

LEMMA NextKeepsCacheTypes ==
  ASSUME CacheTypeOK, [CacheNext]_cacheVars
  PROVE  CacheTypeOK'
<1> USE TtlAssumption DEF CacheTypeOK
<1>1. NoEntry \in Entries
  BY DEF NoEntry, NoValue, Entries
<1>2. ASSUME NEW u \in Users, NEW k \in CacheKeys, Set(u, k) PROVE CacheTypeOK'
  <2>1. /\ writes + 1 \in 0..MaxWrites /\ writes' = writes + 1 /\ second' = second
        /\ snapshot' = snapshot
    BY <1>2 DEF Set
  <2>2. /\ connected' \in [Users -> BOOLEAN]
        /\ latest' \in [CacheKeys -> 0..MaxWrites] /\ missed' \in [CacheKeys -> BOOLEAN]
    BY <1>2, <2>1, OrderedInBounds, ConnectionsTyped DEF Set
  <2>3. ASSUME NEW ttl \in AskedTtls
        PROVE  [value |-> writes + 1, from |-> second, until |-> second + Ttl(k, ttl)] \in Entries
    <3>1. second + Ttl(k, ttl) \in Nat
      BY DEF Ttl
    <3> QED BY <2>1, <3>1 DEF Entries
  <2>4. entries' \in [CacheKeys -> Entries]
    BY <1>2, <2>3 DEF Set
  <2> QED BY <2>1, <2>2, <2>4
<1>3. ASSUME NEW u \in Users, NEW k \in CacheKeys, Delete(u, k) PROVE CacheTypeOK'
  <2>1. /\ NoValue \in 0..MaxWrites /\ writes' = writes /\ second' = second
        /\ snapshot' = snapshot
    BY <1>3 DEF Delete, NoValue
  <2>2. /\ connected' \in [Users -> BOOLEAN]
        /\ latest' \in [CacheKeys -> 0..MaxWrites] /\ missed' \in [CacheKeys -> BOOLEAN]
    BY <1>3, <2>1, OrderedInBounds, ConnectionsTyped DEF Delete
  <2>3. entries' \in [CacheKeys -> Entries]
    BY <1>1, <1>3 DEF Delete
  <2> QED BY <2>1, <2>2, <2>3
<1>4. ASSUME NEW u \in Users, RestartUser(u) PROVE CacheTypeOK'
  BY <1>4 DEF RestartUser
<1>5. ASSUME NEW k \in CacheKeys, Evict(k) PROVE CacheTypeOK'
  BY <1>1, <1>5 DEF Evict
<1>6. CASE SecondPasses
  BY <1>6 DEF SecondPasses
<1>7. CASE SaveEntries
  BY <1>7 DEF SaveEntries
<1>8. CASE RedisRestarts
  BY <1>8 DEF RedisRestarts
<1>9. CASE UNCHANGED cacheVars
  BY <1>9 DEF cacheVars
<1> QED BY <1>2, <1>3, <1>4, <1>5, <1>6, <1>7, <1>8, <1>9 DEF CacheNext

LEMMA InitCache == CacheInit => CacheInv
  BY InitCacheTypes, TtlAssumption DEF CacheInit, CacheInv, EntriesKnown, NoEntry, NoValue

LEMMA NextKeepsCache ==
  ASSUME CacheInv, [CacheNext]_cacheVars
  PROVE  CacheInv'
<1> USE TtlAssumption DEF CacheInv, CacheTypeOK, EntriesKnown, Ordered, NoEntry, NoValue
<1>1. ASSUME NEW u \in Users, NEW k \in CacheKeys, Set(u, k) PROVE EntriesKnown'
  <2>. snapshot' = snapshot
    BY <1>1 DEF Set
  <2>1. ASSUME NEW ttl \in AskedTtls,
               entries' = [entries EXCEPT ![k] =
                 [value |-> writes + 1, from |-> second, until |-> second + Ttl(k, ttl)]],
               Ordered(k, writes + 1, TRUE)
        PROVE  EntriesKnown'
    <3>1. Ttl(k, ttl) \in 0..LongestTtl
      BY DEF Ttl
    <3> QED BY <2>1, <3>1
  <2>2. CASE Ordered(k, writes + 1, FALSE) /\ UNCHANGED entries
    BY <2>2
  <2> QED BY <1>1, <2>1, <2>2 DEF Set
<1>2. ASSUME NEW u \in Users, NEW k \in CacheKeys, Delete(u, k) PROVE EntriesKnown'
  <2>. snapshot' = snapshot
    BY <1>2 DEF Delete
  <2>1. CASE entries' = [entries EXCEPT ![k] = NoEntry] /\ Ordered(k, NoValue, TRUE)
    BY <2>1
  <2>2. CASE Ordered(k, NoValue, FALSE) /\ UNCHANGED entries
    BY <2>2
  <2> QED BY <1>2, <2>1, <2>2 DEF Delete
<1>3. ASSUME NEW k \in CacheKeys, Evict(k) PROVE EntriesKnown'
  BY <1>3 DEF Evict
<1>4. ASSUME SecondPasses \/ \E u \in Users : RestartUser(u) PROVE EntriesKnown'
  BY <1>4 DEF SecondPasses, RestartUser
<1>5. CASE SaveEntries
  BY <1>5 DEF SaveEntries
<1>6. CASE RedisRestarts
  <2>1. SUFFICES ASSUME NEW k \in CacheKeys, ~ missed'[k]
                 PROVE  entries'[k].value = latest'[k] \/ entries'[k].value = NoValue
    BY <1>6 DEF RedisRestarts
  <2>2. ~ missed[k] /\ snapshot[k] = entries[k] /\ entries'[k] = snapshot[k] /\ latest' = latest
    BY <1>6, <2>1 DEF RedisRestarts
  <2> QED BY <2>2
<1>7. ASSUME UNCHANGED cacheVars PROVE EntriesKnown'
  BY <1>7 DEF cacheVars
<1> HIDE DEF CacheTypeOK, EntriesKnown
<1> QED BY <1>1, <1>2, <1>3, <1>4, <1>5, <1>6, <1>7, NextKeepsCacheTypes DEF CacheNext

THEOREM CacheInvariant == CacheSpec => []CacheInv
<1>1. QED
  BY InitCache, NextKeepsCache, PTL DEF CacheSpec

\* A value that should have been replaced is read for the longest time to live
\* at most, and only if what replaces it was dropped (get, set and delete).
THEOREM OldReadsEndSoon == CacheSpec => []OldReadsEnd
<1>1. CacheInv => OldReadsEnd
  BY TtlAssumption
  DEF CacheInv, CacheTypeOK, Entries, EntriesKnown, OldReadsEnd, Get, NoValue
<1>2. QED
  BY <1>1, CacheInvariant, PTL

-----------------------------------------------------------------------------
(* Retry.                                                                  *)

Grown(how, f, i) ==
  IF i = 1 THEN 1
  ELSE CASE how = "linear" -> f[i - 1] + 1
         [] how = "fibonacci" -> IF i = 2 THEN 1 ELSE f[i - 1] + f[i - 2]
         [] how = "exponential" -> 2 * f[i - 1]

Grows(how, f, n) == f = [i \in 1..n |-> Grown(how, f, i)]

LEMMA GrowsOn ==
  ASSUME NEW how, NEW m \in Nat \ {0}, NEW f, Grows(how, f, m - 1)
  PROVE  \E g : Grows(how, g, m)
<1> DEFINE g == [i \in 1..m |-> IF i < m THEN f[i] ELSE Grown(how, f, m)]
<1>1. ASSUME NEW i \in 1..m PROVE g[i] = Grown(how, g, i)
  <2>1. /\ i # 1 => i - 1 \in 1..(m - 1) /\ g[i - 1] = f[i - 1]
        /\ i # 1 /\ i # 2 => i - 2 \in 1..(m - 1) /\ g[i - 2] = f[i - 2]
    OBVIOUS
  <2>2. g[i] = Grown(how, f, i)
    <3>1. CASE i < m
      <4>1. i \in 1..(m - 1)
        BY <3>1
      <4> QED BY <3>1, <4>1 DEF Grows
    <3>2. CASE i = m
      BY <3>2
    <3> QED BY <3>1, <3>2
  <2> HIDE DEF g
  <2> QED BY <2>1, <2>2 DEF Grown
<1>2. g = [i \in 1..m |-> g[i]]
  OBVIOUS
<1> HIDE DEF g
<1>3. g = [i \in 1..m |-> Grown(how, g, i)]
  BY <1>1, <1>2
<1> QED BY <1>3 DEF Grows

\* However often a delay has grown, it is a number: the function that grows it
\* from attempt to attempt exists, and its values are natural numbers.
LEMMA FactorGrows ==
  ASSUME NEW how \in Strategies, NEW n \in Nat, n > 0
  PROVE  \E f : Grows(how, f, n) /\ Factor(how, n) = f[n] /\ \A i \in 1..n : f[i] \in Nat
<1> DEFINE Ungrown == {m \in Nat : ~ \E f : Grows(how, f, m)}
           factor == CHOOSE f : Grows(how, f, n)
<1>1. Ungrown = {}
  <2>1. SUFFICES ASSUME Ungrown # {} PROVE FALSE
    OBVIOUS
  <2>2. PICK m \in Ungrown : \A k \in Ungrown : m <= k
    BY <2>1, LeastElement
  <2>3. CASE m = 0
    <3>1. Grows(how, [i \in 1..0 |-> 0], 0)
      BY DEF Grows
    <3> QED BY <2>2, <2>3, <3>1
  <2>4. CASE m # 0
    <3>1. m \in Nat \ {0} /\ m - 1 \in Nat /\ ~ (m <= m - 1)
      BY <2>2, <2>4
    <3>2. m - 1 \notin Ungrown
      BY <2>2, <3>1
    <3> QED BY <2>2, <3>1, <3>2, GrowsOn
  <2> QED BY <2>3, <2>4
<1>2. Grows(how, factor, n)
  BY <1>1
<1> HIDE DEF factor
<1> DEFINE Odd == {i \in 1..n : factor[i] \notin Nat}
<1>3. Odd = {}
  <2>1. SUFFICES ASSUME Odd # {} PROVE FALSE
    OBVIOUS
  <2>2. PICK i \in Odd : \A j \in Odd : i <= j
    <3>1. Odd \subseteq Nat
      OBVIOUS
    <3> HIDE DEF Odd
    <3> QED BY <2>1, <3>1, LeastElement
  <2>3. factor[i] = Grown(how, factor, i)
    BY <1>2 DEF Grows
  <2>4. /\ i \in 1..n
        /\ i # 1 => i - 1 \in 1..n /\ factor[i - 1] \in Nat
        /\ i # 1 /\ i # 2 => i - 2 \in 1..n /\ factor[i - 2] \in Nat
    BY <2>2
  <2>5. Grown(how, factor, i) \in Nat
    BY <2>4 DEF Strategies, Grown
  <2> QED BY <2>2, <2>3, <2>5
<1>4. Factor(how, n) = factor[n]
  BY DEF Factor, Grown, Grows, factor
<1> QED BY <1>2, <1>3, <1>4

\* Two of these functions agree as far as both go.
LEMMA FactorsAgree ==
  ASSUME NEW how \in Strategies, NEW n \in Nat, NEW f, Grows(how, f, n),
         NEW g, Grows(how, g, n + 1), NEW i \in 1..n
  PROVE  f[i] = g[i]
<1> DEFINE Apart == {j \in 1..n : f[j] # g[j]}
<1>1. SUFFICES ASSUME Apart # {} PROVE FALSE
  OBVIOUS
<1>2. PICK j \in Apart : \A k \in Apart : j <= k
  <2>1. Apart \subseteq Nat
    OBVIOUS
  <2> HIDE DEF Apart
  <2> QED BY <1>1, <2>1, LeastElement
<1>3. j \in 1..n /\ j \in 1..(n + 1) /\ f[j] # g[j]
  BY <1>2
<1>4. f[j] = Grown(how, f, j) /\ g[j] = Grown(how, g, j)
  BY <1>3 DEF Grows
<1>5. /\ j # 1 => f[j - 1] = g[j - 1]
      /\ j # 1 /\ j # 2 => f[j - 2] = g[j - 2]
  <2>1. ASSUME NEW k \in 1..n, k < j PROVE f[k] = g[k]
    BY <1>2, <1>3, <2>1
  <2>2. (j # 1 => j - 1 \in 1..n) /\ (j # 1 /\ j # 2 => j - 2 \in 1..n)
    BY <1>3
  <2> QED BY <1>3, <2>1, <2>2
<1>6. Grown(how, f, j) = Grown(how, g, j)
  <2>1. CASE j = 1
    BY <2>1 DEF Grown
  <2>2. CASE j = 2
    BY <1>3, <1>5, <2>2 DEF Grown, Strategies
  <2>3. CASE j # 1 /\ j # 2
    BY <1>3, <1>5, <2>3 DEF Grown, Strategies
  <2> QED BY <2>1, <2>2, <2>3
<1> QED BY <1>3, <1>4, <1>6

\* No strategy has a delay shrink.
LEMMA DelayGrows ==
  ASSUME NEW how \in Strategies, NEW n \in Nat, n > 0
  PROVE  ComputeDelay(how, n) \in Nat /\ ComputeDelay(how, n) <= ComputeDelay(how, n + 1)
<1>1. PICK f : Grows(how, f, n) /\ Factor(how, n) = f[n] /\ \A i \in 1..n : f[i] \in Nat
  BY FactorGrows
<1>2. PICK g : /\ Grows(how, g, n + 1) /\ Factor(how, n + 1) = g[n + 1]
               /\ \A i \in 1..(n + 1) : g[i] \in Nat
  <2> DEFINE m == n + 1
  <2>1. m \in Nat /\ m > 0
    OBVIOUS
  <2> HIDE DEF m
  <2>2. \E g : /\ Grows(how, g, m) /\ Factor(how, m) = g[m]
               /\ \A i \in 1..m : g[i] \in Nat
    BY <2>1, FactorGrows
  <2> QED BY <2>2 DEF m
<1>3. f[n] = g[n]
  BY <1>1, <1>2, FactorsAgree
<1>4. g[n + 1] = Grown(how, g, n + 1)
  BY <1>2 DEF Grows
<1>5. /\ g[n] \in Nat /\ (n > 1 => g[n - 1] \in Nat)
      /\ n = 1 => g[n] = 1
  <2>1. n = 1 => g[1] = Grown(how, g, 1)
    BY <1>2 DEF Grows
  <2> QED BY <1>2, <2>1 DEF Grown
<1>6. g[n] <= Grown(how, g, n + 1) /\ Grown(how, g, n + 1) \in Nat
  <2>1. n + 1 - 1 = n /\ n + 1 - 2 = n - 1 /\ n + 1 # 1 /\ (n + 1 = 2 <=> n = 1)
    OBVIOUS
  <2>2. CASE how = "linear"
    BY <1>5, <2>1, <2>2 DEF Grown
  <2>3. CASE how = "fibonacci"
    BY <1>5, <2>1, <2>3 DEF Grown
  <2>4. CASE how = "exponential"
    BY <1>5, <2>1, <2>4 DEF Grown
  <2> QED BY <2>2, <2>3, <2>4 DEF Strategies
<1>7. Factor(how, n) \in Nat /\ Factor(how, n + 1) \in Nat /\ Factor(how, n) <= Factor(how, n + 1)
  BY <1>1, <1>2, <1>3, <1>4, <1>5, <1>6
<1>8. /\ Base * Factor(how, n) <= Base * Factor(how, n + 1)
      /\ Base * Factor(how, n) \in Nat /\ Base * Factor(how, n + 1) \in Nat
  BY <1>7, RetryAssumption, Distributes
<1> QED BY <1>8, RetryAssumption DEF ComputeDelay

\* A call sleeps only when there is an attempt left.
RetryInv ==
  /\ RetryTypeOK /\ BackoffGrows
  /\ call = "sleeping" => attempt < MaxAttempts

LEMMA InitRetry == RetryInit => RetryInv
<1>1. ASSUME RetryInit PROVE (1 - 1) * ComputeDelay(strategy, 1) = 0
  <2>1. ComputeDelay(strategy, 1) \in Nat
    BY <1>1, DelayGrows DEF RetryInit
  <2> QED BY <2>1
<1> QED BY <1>1, RetryAssumption DEF RetryInit, RetryInv, RetryTypeOK, BackoffGrows

LEMMA NextKeepsRetry ==
  ASSUME RetryInv, [RetryNext]_retryVars
  PROVE  RetryInv'
<1> USE RetryAssumption DEF RetryInv, RetryTypeOK
<1>1. ASSUME NEW by \in {"returned", "passed"}, Returns(by) PROVE RetryInv'
  BY <1>1 DEF Returns, BackoffGrows
<1>2. CASE Fails
  BY <1>2 DEF Fails, BackoffGrows
<1>3. CASE Sleep
  <2> DEFINE C == ComputeDelay(strategy, attempt)
             D == ComputeDelay(strategy, attempt + 1)
  <2>1. PICK d \in 0..C : slept' = slept + d
    BY <1>3 DEF Sleep
  <2>2. attempt' = attempt + 1 /\ call' = "running" /\ strategy' = strategy
        /\ attempt < MaxAttempts
    BY <1>3 DEF Sleep
  <2>3. C \in Nat /\ D \in Nat /\ C <= D
    <3>1. attempt \in Nat /\ attempt > 0 /\ strategy \in Strategies
      OBVIOUS
    <3> QED BY <3>1, DelayGrows
  <2>4. slept + d <= attempt * D
    <3>1. slept <= (attempt - 1) * C
      BY DEF BackoffGrows
    <3> HIDE DEF C, D
    <3> DEFINE k == attempt - 1
    <3>2. k \in Nat /\ attempt = k + 1
      OBVIOUS
    <3> HIDE DEF k
    <3>3. attempt * D = k * D + D /\ k * D \in Nat /\ k * C \in Nat
      BY <2>3, <3>2
    <3>4. k * C <= k * D
      BY <2>3, <3>2, Distributes
    <3>5. slept <= k * C
      BY <3>1 DEF k
    <3>6. d \in Nat /\ d <= C
      BY <2>1, <2>3
    <3> DEFINE x == k * C  y == k * D  z == attempt * D
    <3>7. x \in Nat /\ y \in Nat /\ z = y + D /\ x <= y /\ slept <= x
      BY <3>3, <3>4, <3>5
    <3> HIDE DEF x, y, z
    <3>8. slept + d <= z
      BY <2>3, <3>6, <3>7
    <3> QED BY <3>8 DEF z
  <2>5. BackoffGrows' =
          /\ call' = "raised" => attempt' = MaxAttempts
          /\ slept' <= (attempt' - 1) * ComputeDelay(strategy', attempt')
    BY DEF BackoffGrows
  <2>6. slept' <= (attempt' - 1) * ComputeDelay(strategy', attempt')
    <3>1. attempt' - 1 = attempt
      BY <2>2
    <3> QED BY <2>1, <2>2, <2>4, <3>1
  <2> HIDE DEF C
  <2> QED BY <2>1, <2>2, <2>3, <2>5, <2>6
<1>4. CASE UNCHANGED retryVars
  BY <1>4 DEF retryVars, BackoffGrows
<1> QED BY <1>1, <1>2, <1>3, <1>4 DEF RetryNext

THEOREM RetryInvariant == RetrySpec => []RetryInv
<1>1. QED
  BY InitRetry, NextKeepsRetry, PTL DEF RetrySpec

-----------------------------------------------------------------------------
(* Robots.                                                                 *)

KeptIsLast == \A d \in Domains : rules[d] = lastRead[d]

\* The rules that are kept are those that were read last.
RobotsInv == RobotsTypeOK /\ KeptIsLast /\ LastAnswerCounts

LEMMA InitRobots == RobotsInit => RobotsInv
  BY DEF RobotsInit, RobotsInv, RobotsTypeOK, KeptIsLast, LastAnswerCounts, Answers, Unread

\* What a load leaves, or reads, is no answer that could not be read.
LEMMA LoadKeeps ==
  ASSUME RobotsInv, NEW d \in Domains, Load(d)
  PROVE  /\ rules' \in [Domains -> (Answers \ {"unreachable"}) \cup {Unread}]
         /\ lastRead' = rules'
<1>1. lastRead = rules
  BY DEF RobotsInv, RobotsTypeOK, KeptIsLast
<1> QED BY <1>1 DEF Load, RobotsInv, RobotsTypeOK, Answers, Unread

LEMMA NextKeepsRobots ==
  ASSUME RobotsInv, [RobotsNext]_robotsVars
  PROVE  RobotsInv'
<1> USE DEF RobotsInv, RobotsTypeOK, KeptIsLast, LastAnswerCounts
<1>1. ASSUME NEW d \in Domains, SiteChanges(d) PROVE RobotsInv'
  BY <1>1 DEF SiteChanges
<1>2. ASSUME NEW d \in Domains, Refresh(d) PROVE RobotsInv'
  BY <1>2, LoadKeeps DEF Refresh
<1>3. ASSUME NEW d \in Domains, NEW text \in {"allows", "refuses"}, RefreshWith(d, text)
      PROVE  RobotsInv'
  BY <1>3 DEF RefreshWith, Answers, Unread
<1>4. ASSUME NEW d \in Domains, IsAllowed(d) PROVE RobotsInv'
  <2> DEFINE open == rules'[d] \in {Unread, "allows", "absent"}
  <2>1. /\ rules' \in [Domains -> (Answers \ {"unreachable"}) \cup {Unread}]
        /\ lastRead' = rules'
    <3>1. CASE rules[d] = Unread
      BY <1>4, <3>1, LoadKeeps DEF IsAllowed
    <3>2. CASE rules[d] # Unread
      BY <1>4, <3>2 DEF IsAllowed
    <3> QED BY <3>1, <3>2
  <2>2. /\ verdict' = [verdict EXCEPT ![d] = IF open THEN "allowed" ELSE "refused"]
        /\ judged' = [judged EXCEPT ![d] = rules'[d]]
        /\ site' = site
    BY <1>4, <2>1 DEF IsAllowed
  <2>3. rules'[d] \in (Answers \ {"unreachable"}) \cup {Unread}
    BY <2>1
  <2>4. ~ open => rules'[d] \in {"refuses", "forbidden", "broken"}
    BY <2>3 DEF Answers
  <2> HIDE DEF open
  <2>5. /\ verdict' \in [Domains -> {"none", "allowed", "refused"}]
        /\ judged' \in [Domains -> (Answers \ {"unreachable"}) \cup {Unread}]
    BY <2>2, <2>3
  <2>6. ASSUME NEW e \in Domains
        PROVE  /\ verdict'[e] = "allowed" => judged'[e] \in {Unread, "allows", "absent"}
               /\ verdict'[e] = "refused" => judged'[e] \in {"refuses", "forbidden", "broken"}
    <3>1. CASE e = d
      <4>1. verdict'[d] = (IF open THEN "allowed" ELSE "refused") /\ judged'[d] = rules'[d]
        BY <2>2
      <4>2. open => rules'[d] \in {Unread, "allows", "absent"}
        BY DEF open
      <4> QED BY <2>4, <3>1, <4>1, <4>2
    <3>2. CASE e # d
      BY <2>2, <3>2
    <3> QED BY <3>1, <3>2
  <2> QED BY <2>1, <2>2, <2>5, <2>6
<1>5. CASE UNCHANGED robotsVars
  BY <1>5 DEF robotsVars
<1> QED BY <1>1, <1>2, <1>3, <1>4, <1>5 DEF RobotsNext

THEOREM RobotsInvariant == RobotsSpec => []RobotsInv
<1>1. QED
  BY InitRobots, NextKeepsRobots, PTL DEF RobotsSpec

-----------------------------------------------------------------------------
(* Experiments.                                                            *)

\* Experiments as create_experiment() has let them in.
ExperimentSet ==
  {x \in [owner : Managers \cup {Nobody}, variants : Seq(STRING), shares : Seq(Int),
          hash : [Units -> 0..Grain - 1],
          outcomes : UNION {[V -> Seq(Metrics)] : V \in SUBSET STRING}] :
     /\ [variants |-> x.variants, shares |-> x.shares] \in Splits
     /\ Valid(x)
     /\ DOMAIN x.outcomes = ToSet(x.variants)}

Cumulative(x, i) == SumFunctionOnSet(x.shares, 1..i)

LEMMA OfExperiment ==
  ASSUME NEW x \in ExperimentSet
  PROVE  /\ Len(x.variants) \in Nat /\ Len(x.variants) >= 2
         /\ DOMAIN x.variants = 1..Len(x.variants)
         /\ DOMAIN x.shares = 1..Len(x.variants)
         /\ \A i \in 1..Len(x.variants) : x.variants[i] \in STRING /\ x.shares[i] \in Int
         /\ x.hash \in [Units -> 0..Grain - 1]
<1>1. /\ x.variants \in Seq(STRING) /\ x.shares \in Seq(Int) /\ x.hash \in [Units -> 0..Grain - 1]
      /\ Len(x.variants) = Len(x.shares) /\ Len(x.variants) >= 2
  BY DEF ExperimentSet, Valid
<1>2. ASSUME NEW S, NEW s \in Seq(S)
      PROVE  Len(s) \in Nat /\ DOMAIN s = 1..Len(s) /\ \A i \in 1..Len(s) : s[i] \in S
  BY LenProperties, ElementOfSeq
<1> QED BY <1>1, <1>2

\* The shares add up one by one, to the whole.
LEMMA SharesAddUp ==
  ASSUME NEW x \in ExperimentSet
  PROVE  /\ Cumulative(x, 0) = 0 /\ Cumulative(x, Len(x.variants)) = Grain
         /\ \A i \in 1..Len(x.variants) :
              /\ Cumulative(x, i) \in Int /\ Cumulative(x, i - 1) \in Int
              /\ Cumulative(x, i) = Cumulative(x, i - 1) + x.shares[i]
<1> DEFINE n == Len(x.variants)
<1>1. /\ n \in Nat /\ DOMAIN x.shares = 1..n
      /\ \A i \in 1..n : x.shares[i] \in Int
  BY OfExperiment
<1> HIDE DEF n
<1>2. Cumulative(x, 0) = 0
  <2>1. 1..0 = {}
    OBVIOUS
  <2> QED BY <2>1, SumOfEmpty DEF Cumulative
<1>3. Cumulative(x, n) = Grain
  <2>1. Total(x.shares) = Grain
    BY DEF ExperimentSet, Valid
  <2> QED BY <1>1, <2>1 DEF Cumulative, Total, SumFunction
<1>4. ASSUME NEW i \in 1..n
      PROVE  /\ Cumulative(x, i) \in Int /\ Cumulative(x, i - 1) \in Int
             /\ Cumulative(x, i) = Cumulative(x, i - 1) + x.shares[i]
  <2>1. /\ i \in Nat /\ i - 1 \in Nat /\ 1..i \subseteq 1..n /\ 1..(i - 1) \subseteq 1..n
        /\ i \in 1..i /\ (1..i) \ {i} = 1..(i - 1)
    BY <1>1
  <2>2. IsFiniteSet(1..i) /\ IsFiniteSet(1..(i - 1))
    BY <2>1, FS_Interval
  <2>3. (\A k \in 1..i : x.shares[k] \in Int) /\ (\A k \in 1..(i - 1) : x.shares[k] \in Int)
    BY <1>1, <2>1
  <2>4. SumFunctionOnSet(x.shares, 1..i) = SumFunctionOnSet(x.shares, (1..i) \ {i}) + x.shares[i]
    BY <2>1, <2>2, <2>3, SumTakes
  <2> QED BY <2>1, <2>2, <2>3, <2>4, SumIsInt DEF Cumulative
<1> QED BY <1>2, <1>3, <1>4 DEF n

\* A bucket is below the whole, so that some share reaches it.
LEMMA VariantIsFirst ==
  ASSUME NEW x \in ExperimentSet, NEW b \in 0..Grain - 1
  PROVE  /\ VariantOf(x, b) \in 1..Len(x.variants)
         /\ b < Cumulative(x, VariantOf(x, b))
         /\ \A j \in 1..Len(x.variants) : b < Cumulative(x, j) => VariantOf(x, b) <= j
<1> DEFINE n == Len(x.variants)
           reached == {i \in DOMAIN x.shares : b < SumFunctionOnSet(x.shares, 1..i)}
<1>1. n \in Nat /\ n >= 2 /\ DOMAIN x.shares = 1..n
  BY OfExperiment
<1>2. n \in reached
  <2>1. b < Cumulative(x, n)
    BY SharesAddUp, ExperimentsAssumption
  <2> QED BY <1>1, <2>1 DEF Cumulative
<1>3. VariantOf(x, b) = Min(reached)
  BY <1>2 DEF VariantOf
<1>4. Min(reached) \in reached /\ \A j \in reached : Min(reached) <= j
  <2>1. reached \subseteq Nat /\ reached # {}
    BY <1>1, <1>2
  <2> HIDE DEF reached
  <2> QED BY <2>1, MinIsLeast
<1> QED BY <1>1, <1>3, <1>4 DEF Cumulative

\* A variant's buckets are those between what the shares before it add up to
\* and what they add up to with its own.
LEMMA BucketsOfVariant ==
  ASSUME NEW x \in ExperimentSet, \A i \in DOMAIN x.shares : x.shares[i] >= 0,
         NEW i \in DOMAIN x.shares
  PROVE  Cardinality({b \in 0..Grain - 1 : VariantOf(x, b) = i}) = x.shares[i]
<1> DEFINE n == Len(x.variants)
           C(j) == Cumulative(x, j)
<1>1. /\ n \in Nat /\ DOMAIN x.shares = 1..n /\ C(0) = 0 /\ C(n) = Grain
      /\ \A j \in 1..n : /\ C(j) \in Int /\ C(j - 1) \in Int /\ x.shares[j] \in Int
                         /\ C(j) = C(j - 1) + x.shares[j]
  BY OfExperiment, SharesAddUp
<1>2. ASSUME NEW b, b \in 0..Grain - 1
      PROVE  /\ VariantOf(x, b) \in 1..n /\ b < C(VariantOf(x, b))
             /\ \A j \in 1..n : b < C(j) => VariantOf(x, b) <= j
  BY <1>2, VariantIsFirst
<1> HIDE DEF n, C
<1>3. \A j \in 0..n : C(j) \in Int
  BY <1>1
<1>4. ASSUME NEW j \in 0..n, NEW k \in 0..n, j <= k PROVE C(j) <= C(k)
  <2> DEFINE Odd == {m \in Nat : m \in 0..n /\ j <= m /\ ~ (C(j) <= C(m))}
  <2>1. SUFFICES ASSUME ~ (C(j) <= C(k)) PROVE FALSE
    OBVIOUS
  <2>2. PICK m \in Odd : \A o \in Odd : m <= o
    <3>1. Odd \subseteq Nat /\ k \in Odd
      BY <1>1, <1>4, <2>1
    <3> HIDE DEF Odd
    <3> QED BY <3>1, LeastElement
  <2>3. m # j /\ m \in 1..n /\ m - 1 \in 0..n /\ j <= m - 1 /\ ~ (m <= m - 1)
    BY <1>1, <1>3, <2>2
  <2>4. C(j) <= C(m - 1)
    BY <2>2, <2>3
  <2>5. C(m - 1) <= C(m)
    <3>1. /\ C(m) = C(m - 1) + x.shares[m] /\ x.shares[m] >= 0
          /\ x.shares[m] \in Int /\ C(m - 1) \in Int
      BY <1>1, <2>3
    <3> QED BY <3>1
  <2> QED BY <1>3, <2>2, <2>3, <2>4, <2>5
<1>5. /\ i \in 1..n /\ i \in 0..n /\ i - 1 \in 0..n /\ C(i - 1) \in Nat /\ C(i) \in Nat
      /\ C(i) <= Grain /\ C(i) = C(i - 1) + x.shares[i] /\ x.shares[i] \in Nat
  <2>1. i \in 1..n /\ i \in 0..n /\ i - 1 \in 0..n /\ 0 \in 0..n /\ n \in 0..n
    BY <1>1
  <2>2. C(0) <= C(i - 1) /\ C(0) <= C(i) /\ C(i) <= C(n)
    BY <1>4, <2>1
  <2> QED BY <1>1, <1>3, <2>1, <2>2
<1>6. {b \in 0..Grain - 1 : VariantOf(x, b) = i} = C(i - 1)..(C(i) - 1)
  <2>1. ASSUME NEW b \in 0..Grain - 1, VariantOf(x, b) = i PROVE b \in C(i - 1)..(C(i) - 1)
    <3>1. b < C(i) /\ b \in Nat
      BY <1>2, <2>1, ExperimentsAssumption
    <3>2. C(i - 1) <= b
      <4>1. SUFFICES ASSUME b < C(i - 1) PROVE FALSE
        BY <1>5, <3>1
      <4>2. i - 1 # 0 /\ i - 1 \in 1..n
        BY <1>1, <1>5, <3>1, <4>1
      <4>3. i <= i - 1
        BY <1>2, <2>1, <4>1, <4>2
      <4> QED BY <1>5, <4>3
    <3> QED BY <1>5, <3>1, <3>2
  <2>2. ASSUME NEW b \in C(i - 1)..(C(i) - 1)
        PROVE  b \in 0..Grain - 1 /\ VariantOf(x, b) = i
    <3>1. b \in 0..Grain - 1 /\ b < C(i) /\ C(i - 1) <= b /\ b \in Nat
      BY <1>5, <2>2, ExperimentsAssumption
    <3> DEFINE v == VariantOf(x, b)
    <3>2. v \in 1..n /\ b < C(v) /\ v <= i
      BY <1>2, <1>5, <3>1
    <3> HIDE DEF v
    <3>3. ~ (v <= i - 1)
      <4>1. SUFFICES ASSUME v <= i - 1 PROVE FALSE
        OBVIOUS
      <4>2. C(v) <= C(i - 1) /\ C(v) \in Int
        BY <1>1, <1>3, <1>4, <1>5, <3>2, <4>1
      <4> QED BY <1>5, <3>1, <3>2, <4>2
    <3>4. v = i
      BY <1>1, <1>5, <3>2, <3>3
    <3> QED BY <3>1, <3>4 DEF v
  <2> QED BY <2>1, <2>2
<1>7. Cardinality(C(i - 1)..(C(i) - 1)) = x.shares[i]
  <2>1. C(i - 1) \in Int /\ C(i) - 1 \in Int
    BY <1>5
  <2>2. Cardinality(C(i - 1)..(C(i) - 1)) =
          IF C(i - 1) > C(i) - 1 THEN 0 ELSE (C(i) - 1) - C(i - 1) + 1
    BY <2>1, FS_Interval
  <2> QED BY <1>5, <2>2
<1> QED BY <1>6, <1>7, Zenon

\* What a unit is assigned in an experiment is settled when it is created.
Answer(e, u) ==
  <<e, u, experiments[e].variants[VariantOf(experiments[e], experiments[e].hash[u])]>>

ExperimentsInv ==
  /\ experiments \in Seq(ExperimentSet) /\ Len(experiments) <= MaxCreated
  /\ answered \subseteq {Answer(e, u) : e \in Ids, u \in Units}

LEMMA ExperimentsAre ==
  ASSUME ExperimentsInv
  PROVE  /\ Len(experiments) \in Nat /\ Ids = 1..Len(experiments)
         /\ \A e \in Ids : experiments[e] \in ExperimentSet
<1> DEFINE S == ExperimentSet
<1>1. experiments \in Seq(S)
  BY DEF ExperimentsInv
<1> HIDE DEF S
<1>2. Len(experiments) \in Nat /\ DOMAIN experiments = 1..Len(experiments)
      /\ \A e \in 1..Len(experiments) : experiments[e] \in S
  BY <1>1, LenProperties, ElementOfSeq
<1> QED BY <1>2 DEF Ids, S

LEMMA InitExperiments == ExperimentsInit => ExperimentsInv
<1>1. <<>> \in Seq(ExperimentSet) /\ Len(<<>>) = 0
  OBVIOUS
<1> QED BY <1>1, ExperimentsAssumption DEF ExperimentsInit, ExperimentsInv

\* Steps that keep what was created keep what was answered.
LEMMA AnswersStay ==
  ASSUME ExperimentsInv, answered' = answered, Ids \subseteq Ids',
         \A e \in Ids : /\ experiments'[e].variants = experiments[e].variants
                        /\ experiments'[e].shares = experiments[e].shares
                        /\ experiments'[e].hash = experiments[e].hash
  PROVE  answered' \subseteq {Answer(e, u) : e \in Ids, u \in Units}'
<1>1. ASSUME NEW e \in Ids, NEW u \in Units PROVE Answer(e, u)' = Answer(e, u)
  BY <1>1 DEF Answer, VariantOf
<1>2. ASSUME NEW a \in answered PROVE a \in {Answer(e, u) : e \in Ids, u \in Units}'
  <2>1. PICK e \in Ids, u \in Units : a = Answer(e, u)
    BY DEF ExperimentsInv
  <2>2. a = Answer(e, u)' /\ e \in Ids'
    BY <1>1, <2>1
  <2> QED BY <2>2
<1> QED BY <1>2

LEMMA CreateKeeps ==
  ASSUME ExperimentsInv, NEW w \in Managers, Create(w)
  PROVE  ExperimentsInv'
<1>1. PICK s \in Splits, hash \in [Units -> 0..Grain - 1] :
        /\ Valid(s)
        /\ experiments' = Append(experiments,
             [owner |-> w, variants |-> s.variants, shares |-> s.shares, hash |-> hash,
              outcomes |-> [v \in ToSet(s.variants) |-> <<>>]])
  BY DEF Create
<1> DEFINE x == [owner |-> w, variants |-> s.variants, shares |-> s.shares, hash |-> hash,
                 outcomes |-> [v \in ToSet(s.variants) |-> <<>>]]
<1>2. x \in ExperimentSet
  <2>1. s \in [variants : Seq(STRING), shares : Seq(Int)]
    BY ExperimentsAssumption
  <2>2. s = [variants |-> s.variants, shares |-> s.shares]
    BY <2>1
  <2>3. s.variants \in Seq(STRING) /\ s.shares \in Seq(Int)
    BY <2>1
  <2>4. ToSet(s.variants) \in SUBSET STRING
    <3>1. \A i \in DOMAIN s.variants : s.variants[i] \in STRING
      BY <2>3, LenProperties, ElementOfSeq
    <3> QED BY <3>1 DEF ToSet
  <2>5. x.outcomes \in [ToSet(s.variants) -> Seq(Metrics)]
    OBVIOUS
  <2>6. x.outcomes \in UNION {[V -> Seq(Metrics)] : V \in SUBSET STRING}
    BY <2>4, <2>5
  <2>7. x \in [owner : Managers \cup {Nobody}, variants : Seq(STRING), shares : Seq(Int),
               hash : [Units -> 0..Grain - 1],
               outcomes : UNION {[V -> Seq(Metrics)] : V \in SUBSET STRING}]
    BY <2>3, <2>6
  <2>8. Valid(x)
    BY <1>1 DEF Valid
  <2> QED BY <2>2, <2>7, <2>8 DEF ExperimentSet
<1> HIDE DEF x
<1>3. /\ experiments' = Append(experiments, x) /\ answered' = answered
      /\ Len(experiments) < MaxCreated
  BY <1>1 DEF Create, x
<1>4. /\ experiments' \in Seq(ExperimentSet) /\ Len(experiments') = Len(experiments) + 1
      /\ \A e \in 1..Len(experiments) : experiments'[e] = experiments[e]
  <2> DEFINE S == ExperimentSet
  <2>1. experiments \in Seq(S) /\ x \in S
    BY <1>2 DEF ExperimentsInv
  <2> HIDE DEF S
  <2>2. Append(experiments, x) \in Seq(S)
        /\ Len(Append(experiments, x)) = Len(experiments) + 1
        /\ \A e \in 1..Len(experiments) : Append(experiments, x)[e] = experiments[e]
    BY <2>1, AppendProperties
  <2> QED BY <1>3, <2>2 DEF S
<1>5. Ids' = 1..(Len(experiments) + 1)
  BY <1>4, LenProperties DEF Ids
<1>6. Len(experiments') <= MaxCreated
  BY <1>3, <1>4, ExperimentsAre, ExperimentsAssumption
<1>7. answered' \subseteq {Answer(e, u) : e \in Ids, u \in Units}'
  BY <1>3, <1>4, <1>5, ExperimentsAre, AnswersStay
<1> QED BY <1>4, <1>6, <1>7 DEF ExperimentsInv

\* Steps that change the owner or the outcomes of experiments.
LEMMA ChangeKeeps ==
  ASSUME ExperimentsInv, answered' = answered, DOMAIN experiments' = Ids,
         experiments' = [e \in Ids |-> experiments'[e]],
         \A e \in Ids : /\ experiments'[e] \in ExperimentSet
                        /\ experiments'[e].variants = experiments[e].variants
                        /\ experiments'[e].shares = experiments[e].shares
                        /\ experiments'[e].hash = experiments[e].hash
  PROVE  ExperimentsInv'
<1> DEFINE n == Len(experiments)  S == ExperimentSet
<1>1. n \in Nat /\ Ids = 1..n
  BY ExperimentsAre
<1>2. experiments' \in [1..n -> S]
  BY <1>1
<1> HIDE DEF n, S
<1>3. experiments' \in Seq(S) /\ Len(experiments') = n
  BY <1>1, <1>2
<1>4. Ids' = Ids
  BY DEF Ids
<1>5. answered' \subseteq {Answer(e, u) : e \in Ids, u \in Units}'
  BY <1>4, AnswersStay
<1> QED BY <1>3, <1>5 DEF ExperimentsInv, n, S

LEMMA RecordKeeps ==
  ASSUME ExperimentsInv, NEW e \in Ids, NEW v \in DOMAIN experiments[e].outcomes,
         NEW metric \in Metrics, Record(e, v, metric)
  PROVE  ExperimentsInv'
<1> DEFINE x == experiments[e]
           y == [x EXCEPT !.outcomes[v] = Append(@, metric)]
<1>1. experiments' = [experiments EXCEPT ![e] = y] /\ answered' = answered
  BY DEF Record
<1>2. x \in ExperimentSet /\ \A f \in Ids : experiments[f] \in ExperimentSet
  BY ExperimentsAre
<1>3. y \in ExperimentSet /\ y.variants = x.variants /\ y.shares = x.shares /\ y.hash = x.hash
  <2>1. PICK V \in SUBSET STRING : x.outcomes \in [V -> Seq(Metrics)]
    BY <1>2 DEF ExperimentSet
  <2>2. v \in V /\ x.outcomes[v] \in Seq(Metrics)
    BY <2>1
  <2>3. Append(x.outcomes[v], metric) \in Seq(Metrics)
    BY <2>2, AppendProperties
  <2>4. y.outcomes \in [V -> Seq(Metrics)] /\ DOMAIN y.outcomes = DOMAIN x.outcomes
    BY <1>2, <2>1, <2>2, <2>3 DEF ExperimentSet
  <2>5. /\ y.owner = x.owner /\ y.variants = x.variants /\ y.shares = x.shares
        /\ y.hash = x.hash
    BY <1>2 DEF ExperimentSet
  <2>6. y.outcomes \in UNION {[W -> Seq(Metrics)] : W \in SUBSET STRING}
    BY <2>4
  <2>7. y \in [owner : Managers \cup {Nobody}, variants : Seq(STRING), shares : Seq(Int),
               hash : [Units -> 0..Grain - 1],
               outcomes : UNION {[W -> Seq(Metrics)] : W \in SUBSET STRING}]
    BY <1>2, <2>6 DEF ExperimentSet
  <2>8. Valid(y)
    BY <1>2, <2>5 DEF Valid, ExperimentSet
  <2> HIDE DEF y
  <2> QED BY <1>2, <2>4, <2>5, <2>7, <2>8 DEF ExperimentSet
<1> HIDE DEF y
<1>4. \A f \in Ids : experiments'[f] = IF f = e THEN y ELSE experiments[f]
  BY <1>1 DEF Ids
<1>5. DOMAIN experiments' = Ids /\ experiments' = [f \in Ids |-> experiments'[f]]
  BY <1>1 DEF Ids
<1> QED BY <1>1, <1>2, <1>3, <1>4, <1>5, ChangeKeeps

LEMMA EndWorkerKeeps ==
  ASSUME ExperimentsInv, NEW w \in Managers, EndWorker(w)
  PROVE  ExperimentsInv'
<1>1. ASSUME NEW x \in ExperimentSet
      PROVE  LET y == [x EXCEPT !.owner = Nobody]
             IN  y \in ExperimentSet /\ y.variants = x.variants /\ y.shares = x.shares
                 /\ y.hash = x.hash
  BY DEF ExperimentSet, Valid
<1>2. /\ experiments' = [e \in Ids |-> IF experiments[e].owner = w
                                       THEN [experiments[e] EXCEPT !.owner = Nobody]
                                       ELSE experiments[e]]
      /\ answered' = answered
  BY DEF EndWorker
<1>3. \A e \in Ids : experiments[e] \in ExperimentSet
  BY ExperimentsAre
<1>4. \A e \in Ids : /\ experiments'[e] \in ExperimentSet
                     /\ experiments'[e].variants = experiments[e].variants
                     /\ experiments'[e].shares = experiments[e].shares
                     /\ experiments'[e].hash = experiments[e].hash
  BY <1>1, <1>2, <1>3
<1>5. DOMAIN experiments' = Ids /\ experiments' = [e \in Ids |-> experiments'[e]]
  BY <1>2
<1> QED BY <1>2, <1>4, <1>5, ChangeKeeps

LEMMA NextKeepsExperiments ==
  ASSUME ExperimentsInv, [ExperimentsNext]_experimentsVars
  PROVE  ExperimentsInv'
<1>1. ASSUME NEW w \in Managers, NEW e \in Ids, NEW u \in Units, Assign(w, e, u)
      PROVE  ExperimentsInv'
  <2>1. answered' = answered \cup {Answer(e, u)} /\ experiments' = experiments
    BY <1>1 DEF Assign, Answer
  <2> QED BY <2>1 DEF ExperimentsInv, Answer, Ids
<1>2. CASE UNCHANGED experimentsVars
  BY <1>2 DEF experimentsVars, ExperimentsInv, Answer, Ids
<1> QED BY <1>1, <1>2, CreateKeeps, RecordKeeps, EndWorkerKeeps DEF ExperimentsNext

LEMMA ExperimentsTyped == ExperimentsInv => ExperimentsTypeOK
<1> SUFFICES ASSUME ExperimentsInv PROVE ExperimentsTypeOK
  OBVIOUS
<1>1. \A e \in Ids : experiments[e] \in ExperimentSet
  BY ExperimentsAre
<1>2. ASSUME NEW e \in Ids
      PROVE  /\ experiments[e].owner \in Managers \cup {Nobody}
             /\ [variants |-> experiments[e].variants, shares |-> experiments[e].shares]
                  \in Splits
             /\ experiments[e].hash \in [Units -> 0..Grain - 1]
             /\ DOMAIN experiments[e].outcomes = ToSet(experiments[e].variants)
             /\ \A v \in DOMAIN experiments[e].outcomes :
                  experiments[e].outcomes[v] \in Seq(Metrics)
  <2>1. experiments[e] \in ExperimentSet
    BY <1>1
  <2>2. PICK V \in SUBSET STRING : experiments[e].outcomes \in [V -> Seq(Metrics)]
    BY <2>1 DEF ExperimentSet
  <2> QED BY <2>1, <2>2 DEF ExperimentSet
<1>3. ASSUME NEW a \in answered
      PROVE  a \in Ids \X Units \X UNION {ToSet(experiments[e].variants) : e \in Ids}
  <2>1. PICK e \in Ids, u \in Units : a = Answer(e, u)
    BY DEF ExperimentsInv
  <2> DEFINE x == experiments[e]
             i == VariantOf(x, x.hash[u])
  <2>2. x \in ExperimentSet
    BY <1>1
  <2> HIDE DEF x
  <2>3. x.hash[u] \in 0..Grain - 1 /\ DOMAIN x.variants = 1..Len(x.variants)
    BY <2>2, OfExperiment
  <2>4. i \in DOMAIN x.variants
    BY <2>2, <2>3, VariantIsFirst
  <2> HIDE DEF i
  <2>5. x.variants[i] \in ToSet(x.variants)
    BY <2>4 DEF ToSet
  <2>6. x.variants[i] \in UNION {ToSet(experiments[f].variants) : f \in Ids}
    BY <2>5 DEF x
  <2> QED BY <2>1, <2>6 DEF Answer, x, i
<1> QED BY <1>2, <1>3 DEF ExperimentsTypeOK, ExperimentsInv

THEOREM ExperimentsInvariant == ExperimentsSpec => []ExperimentsInv
<1>1. QED
  BY InitExperiments, NextKeepsExperiments, PTL DEF ExperimentsSpec

\* Whatever the shares are, if none is below zero, each variant gets exactly
\* its share of the hashes, and no unit is ever assigned two variants
\* (assign_variant).
THEOREM SharesHonoured == ExperimentsSpec => []SharesAreHonoured
<1>1. ASSUME ExperimentsInv PROVE SharesAreHonoured
  <2>1. ASSUME NEW e \in Ids, \A i \in DOMAIN experiments[e].shares : experiments[e].shares[i] >= 0,
               NEW i \in DOMAIN experiments[e].shares
        PROVE  Cardinality({b \in 0..Grain - 1 : VariantOf(experiments[e], b) = i}) =
                 experiments[e].shares[i]
    <3>1. experiments[e] \in ExperimentSet
      BY <1>1, ExperimentsAre
    <3> QED BY <2>1, <3>1, BucketsOfVariant
  <2>2. ASSUME NEW a \in answered, NEW b \in answered, a[1] = b[1], a[2] = b[2]
        PROVE  a[3] = b[3]
    <3>1. PICK e \in Ids, u \in Units : a = Answer(e, u)
      BY <1>1 DEF ExperimentsInv
    <3>2. PICK f \in Ids, v \in Units : b = Answer(f, v)
      BY <1>1 DEF ExperimentsInv
    <3>3. e = f /\ u = v
      BY <2>2, <3>1, <3>2 DEF Answer
    <3> QED BY <3>1, <3>2, <3>3
  <2> QED BY <2>1, <2>2 DEF SharesAreHonoured
<1>2. QED
  BY <1>1, ExperimentsInvariant, PTL

\* Where there is less than x, and where there is x.
Less(all, x) == {j \in DOMAIN all : all[j] < x}
Same(all, x) == {j \in DOMAIN all : all[j] = x}

\* The average rank of a value counts what is less once and what is equal, the
\* value among it, half.
LEMMA RankCounts ==
  ASSUME NEW n \in Nat, NEW all \in [1..n -> Nat], NEW q \in 1..n
  PROVE  /\ DoubledRank(all[q], all) =
              2 * Cardinality(Less(all, all[q])) + Cardinality(Same(all, all[q])) + 1
         /\ Cardinality(Less(all, all[q])) \in Nat /\ Cardinality(Same(all, all[q])) \in Nat
<1> DEFINE x == all[q]
           L == Less(all, x)
           E == Same(all, x)
           sorted == SortedBy(all, all)
           places == {i \in DOMAIN sorted : sorted[i] = x}
<1>1. DoubledRank(x, all) = Min(places) + Max(places)
  BY DEF DoubledRank
<1>2. /\ L = {j \in 1..n : all[j] < x} /\ E = {j \in 1..n : all[j] = x}
      /\ x \in Nat /\ q \in E /\ \A j \in 1..n : all[j] \in Nat
  BY DEF Less, Same
<1>3. IsFiniteSet(L) /\ IsFiniteSet(E) /\ Cardinality(L) \in Nat /\ Cardinality(E) \in Nat
  <2>1. L \subseteq 1..n /\ E \subseteq 1..n
    BY <1>2
  <2> HIDE DEF L, E
  <2>3. IsFiniteSet(1..n)
    BY FS_Interval
  <2>2. IsFiniteSet(L) /\ IsFiniteSet(E)
    BY <2>1, <2>3, FS_Subset
  <2> QED BY <2>2, FS_CardinalityType
<1> HIDE DEF x, L, E
<1>4. PICK lo \in E : \A j \in E : lo <= j
  <2>1. E \subseteq Nat /\ E # {}
    BY <1>2
  <2> QED BY <2>1, LeastElement
<1>5. PICK hi \in E : \A j \in E : j <= hi
  <2>1. E \subseteq 1..n /\ E # {}
    BY <1>2
  <2> QED BY <2>1, GreatestElement
<1>6. Place(all, lo) = Cardinality(L) + 1
  <2>1. {j \in 1..n : Precedes(all, j, lo)} = L \cup {lo} /\ lo \notin L
    <3>1. lo \in 1..n /\ all[lo] = x
      BY <1>2, <1>4
    <3>2. ASSUME NEW j \in 1..n PROVE Precedes(all, j, lo) <=> j \in L \/ j = lo
      <4>1. all[j] = x /\ j <= lo => j = lo
        BY <1>2, <1>4, <3>1
      <4> QED BY <1>2, <3>1, <4>1 DEF Precedes
    <3> QED BY <1>2, <3>1, <3>2
  <2>2. Place(all, lo) = Cardinality(L \cup {lo})
    BY <2>1 DEF Place
  <2> QED BY <1>3, <2>1, <2>2, FS_AddElement
<1>7. Place(all, hi) = Cardinality(L) + Cardinality(E)
  <2>1. {j \in 1..n : Precedes(all, j, hi)} = L \cup E
    <3>1. hi \in 1..n /\ all[hi] = x
      BY <1>2, <1>5
    <3>2. ASSUME NEW j \in 1..n PROVE Precedes(all, j, hi) <=> j \in L \/ j \in E
      <4>1. all[j] = x => j <= hi
        BY <1>2, <1>5
      <4> QED BY <1>2, <3>1, <4>1 DEF Precedes
    <3> QED BY <1>2, <3>2
  <2>2. L \cap E = {}
    BY <1>2
  <2>3. Place(all, hi) = Cardinality(L \cup E)
    BY <2>1 DEF Place
  <2>4. Cardinality(L \cup E) = Cardinality(L) + Cardinality(E) - Cardinality({})
    BY <1>3, <2>2, FS_Union
  <2> QED BY <1>3, <2>3, <2>4, FS_EmptySet
<1>8. all \in [1..n -> Int] /\ DOMAIN all = 1..n
  BY <1>2
<1>9. places = {Place(all, j) : j \in E}
  <2>1. PICK from \in [1..n -> 1..n] :
           /\ sorted = [m \in 1..n |-> all[from[m]]]
           /\ \A m \in 1..n : Place(all, from[m]) = m
           /\ \A i \in 1..n : from[Place(all, i)] = i
           /\ \A m, k \in 1..n : m < k => Precedes(all, from[m], from[k])
    BY <1>8, SortedIsPlaced
  <2>2. ASSUME NEW m \in places PROVE m \in {Place(all, j) : j \in E}
    <3>1. m \in 1..n /\ all[from[m]] = x
      BY <2>1
    <3>2. from[m] \in E
      BY <1>2, <3>1
    <3> QED BY <2>1, <3>1, <3>2
  <2>3. ASSUME NEW j \in E PROVE Place(all, j) \in places
    <3> DEFINE m == Place(all, j)
    <3>1. j \in 1..n /\ all[j] = x
      BY <1>2
    <3>2. m \in 1..n /\ from[m] = j
      BY <1>8, <2>1, <3>1, PlacesAreTaken
    <3> HIDE DEF m
    <3>3. m \in places
      BY <2>1, <3>1, <3>2
    <3> QED BY <3>3 DEF m
  <2> QED BY <2>2, <2>3
<1> HIDE DEF places, sorted
<1>10. ASSUME NEW j \in E
       PROVE  /\ Place(all, j) \in Int
              /\ Place(all, lo) <= Place(all, j) /\ Place(all, j) <= Place(all, hi)
  <2>1. lo \in 1..n /\ hi \in 1..n /\ j \in 1..n /\ all[lo] = x /\ all[hi] = x /\ all[j] = x
    BY <1>2, <1>4, <1>5
  <2>2. Place(all, j) \in 1..n /\ Place(all, lo) \in 1..n /\ Place(all, hi) \in 1..n
    BY <1>8, <2>1, PlacesAreTaken
  <2>3. Precedes(all, lo, j) /\ Precedes(all, j, hi)
    BY <1>4, <1>5, <2>1 DEF Precedes
  <2>4. lo # j => Place(all, lo) < Place(all, j)
    BY <1>8, <2>1, <2>3, PlacesGrow
  <2>5. hi # j => Place(all, j) < Place(all, hi)
    BY <1>8, <2>1, <2>3, PlacesGrow
  <2> QED BY <2>2, <2>4, <2>5
<1>11. Min(places) = Place(all, lo)
  <2>1. Place(all, lo) \in places /\ \A y \in places : y \in Int /\ Place(all, lo) <= y
    BY <1>4, <1>9, <1>10
  <2> QED BY <2>1, MinIsSmallest
<1>12. Max(places) = Place(all, hi)
  <2>1. Place(all, hi) \in places /\ \A y \in places : y \in Int /\ y <= Place(all, hi)
    BY <1>5, <1>9, <1>10
  <2> QED BY <2>1, MaxIsGreatest
<1>13. DoubledRank(x, all) = 2 * Cardinality(L) + Cardinality(E) + 1
  BY <1>1, <1>3, <1>6, <1>7, <1>11, <1>12
<1> QED BY <1>3, <1>13 DEF x, L, E

\* The pairs of R the other way round.
Turned(R) == {<<p[2], p[1]>> : p \in R}

\* Turning the pairs of a relation around leaves as many.
LEMMA TurnedAround ==
  ASSUME NEW R, IsFiniteSet(R), \A p \in R : p = <<p[1], p[2]>>
  PROVE  Cardinality(Turned(R)) = Cardinality(R)
<1> DEFINE Q == Turned(R)
           g == [p \in R |-> <<p[2], p[1]>>]
<1>1. g \in [R -> Q]
  BY DEF Turned
<1>2. \A p, q \in R : g[p] = g[q] => p = q
  OBVIOUS
<1>3. \A q \in Q : \E p \in R : g[p] = q
  BY DEF Turned
<1> HIDE DEF g, Q
<1>4. g \in Bijection(R, Q)
  BY <1>1, <1>2, <1>3 DEF Bijection, Injection, Surjection, IsInjective
<1>5. ExistsBijection(R, Q)
  BY <1>4 DEF ExistsBijection
<1>6. Cardinality(Q) = Cardinality(R)
  BY <1>5, FS_Bijection
<1> QED BY <1>6 DEF Q

\* The pairs of Q with n more in the second place.
MovedUp(n, Q) == {<<p[1], n + p[2]>> : p \in Q}

\* So does moving the second place of every pair.
LEMMA AsManyMoved ==
  ASSUME NEW n \in Nat, NEW Q, IsFiniteSet(Q),
         \A p \in Q : p = <<p[1], p[2]>> /\ p[2] \in Int
  PROVE  Cardinality(MovedUp(n, Q)) = Cardinality(Q)
<1> DEFINE R == MovedUp(n, Q)
           g == [p \in Q |-> <<p[1], n + p[2]>>]
<1>1. g \in [Q -> R]
  BY DEF MovedUp
<1>2. ASSUME NEW p \in Q, NEW q \in Q, g[p] = g[q] PROVE p = q
  <2>1. p[1] = q[1] /\ n + p[2] = n + q[2]
    BY <1>2
  <2>2. p[2] = q[2]
    BY <2>1
  <2> QED BY <2>1, <2>2
<1>3. \A r \in R : \E p \in Q : g[p] = r
  BY DEF MovedUp
<1> HIDE DEF g, R
<1>4. g \in Bijection(Q, R)
  BY <1>1, <1>2, <1>3 DEF Bijection, Injection, Surjection, IsInjective
<1>5. ExistsBijection(Q, R)
  BY <1>4 DEF ExistsBijection
<1>6. Cardinality(R) = Cardinality(Q)
  BY <1>5, FS_Bijection
<1> QED BY <1>6 DEF R

\* What is in one of two parts, and in one only, is counted part by part.
LEMMA InParts ==
  ASSUME NEW A, NEW B, IsFiniteSet(A \cup B), A \cap B = {}
  PROVE  /\ Cardinality(A \cup B) = Cardinality(A) + Cardinality(B)
         /\ Cardinality(A) \in Nat /\ Cardinality(B) \in Nat
<1> DEFINE S == A \cup B
<1>1. IsFiniteSet(A) /\ IsFiniteSet(B)
  <2>1. IsFiniteSet(S) /\ A \in SUBSET S /\ B \in SUBSET S
    OBVIOUS
  <2> HIDE DEF S
  <2> QED BY <2>1, FS_Subset
<1>2. Cardinality(A \cup B) = Cardinality(A) + Cardinality(B) - Cardinality(A \cap B)
  BY <1>1, FS_Union
<1> DEFINE I == A \cap B
<1>3. Cardinality(I) = 0
  <2>1. I = {}
    OBVIOUS
  <2> HIDE DEF I
  <2> QED BY <2>1, FS_EmptySet
<1>4. Cardinality(A) \in Nat /\ Cardinality(B) \in Nat
  BY <1>1, FS_CardinalityType
<1>5. Cardinality(A \cup B) = Cardinality(A) + Cardinality(B) - Cardinality(I)
  BY <1>2 DEF I
<1> HIDE DEF I
<1> QED BY <1>3, <1>4, <1>5

\* f says what L counts twice, E once, and one more.
CountsRanks(f, L, E, D, A) ==
  \A i \in D : f[i] = 2 * Cardinality(RowOf(L, A, i)) + Cardinality(RowOf(E, A, i)) + 1

\* What is less counts twice in a rank, what is equal once, and each rank once.
LEMMA RanksAddUp ==
  ASSUME NEW D, NEW A, NEW L, NEW E, Relates(L, D, A), Relates(E, D, A),
         NEW f, CountsRanks(f, L, E, D, A)
  PROVE  /\ SumFunctionOnSet(f, D) = 2 * Cardinality(L) + Cardinality(E) + Cardinality(D)
         /\ Cardinality(L) \in Nat /\ Cardinality(E) \in Nat
<1> DEFINE less == [i \in D |-> Cardinality(RowOf(L, A, i))]
           same == [i \in D |-> Cardinality(RowOf(E, A, i))]
           twice == [i \in D |-> less[i] + less[i]]
           both == [i \in D |-> twice[i] + same[i]]
           ones == [i \in D |-> 1]
<1>1. CountsRows(less, L, D, A) /\ CountsRows(same, E, D, A)
  BY DEF CountsRows
<1>2. \A i \in D : twice[i] = less[i] + less[i]
  OBVIOUS
<1>3. \A i \in D : both[i] = twice[i] + same[i]
  OBVIOUS
<1>4. \A i \in D : ones[i] = 1
  OBVIOUS
<1> HIDE DEF less, same, twice, both, ones
<1>5. IsFiniteSet(D)
  BY DEF Relates
<1>6. /\ SumFunctionOnSet(less, D) = Cardinality(L)
      /\ Cardinality(L) \in Nat /\ \A i \in D : less[i] \in Nat
  BY <1>1, SumOfRows
<1>7. /\ SumFunctionOnSet(same, D) = Cardinality(E)
      /\ Cardinality(E) \in Nat /\ \A i \in D : same[i] \in Nat
  BY <1>1, SumOfRows
<1>8. \A i \in D : twice[i] \in Int /\ both[i] \in Int /\ ones[i] \in Int
  BY <1>2, <1>3, <1>4, <1>6, <1>7
<1>9. IsSumOf(twice, less, less, D) /\ IsSumOf(both, twice, same, D)
  BY <1>2, <1>3, <1>6, <1>7, <1>8 DEF IsSumOf
<1>10. ASSUME NEW i \in D PROVE f[i] = both[i] + ones[i]
  <2>1. f[i] = 2 * Cardinality(RowOf(L, A, i)) + Cardinality(RowOf(E, A, i)) + 1
    BY DEF CountsRanks
  <2>2. less[i] = Cardinality(RowOf(L, A, i)) /\ same[i] = Cardinality(RowOf(E, A, i))
    BY <1>1 DEF CountsRows
  <2> QED BY <1>2, <1>3, <1>4, <1>6, <1>7, <2>1, <2>2
<1>11. IsSumOf(f, both, ones, D)
  BY <1>8, <1>10 DEF IsSumOf
<1>12. SumFunctionOnSet(twice, D) = SumFunctionOnSet(less, D) + SumFunctionOnSet(less, D)
  BY <1>5, <1>9, SumsAdd
<1>13. SumFunctionOnSet(both, D) = SumFunctionOnSet(twice, D) + SumFunctionOnSet(same, D)
  BY <1>5, <1>9, SumsAdd
<1>14. SumFunctionOnSet(f, D) = SumFunctionOnSet(both, D) + SumFunctionOnSet(ones, D)
  BY <1>5, <1>11, SumsAdd
<1>15. SumFunctionOnSet(ones, D) = Cardinality(D) /\ Cardinality(D) \in Nat
  BY <1>4, <1>5, SumOfOnes, FS_CardinalityType
<1> QED BY <1>6, <1>7, <1>12, <1>13, <1>14, <1>15

\* Of each pair of outcomes one is ahead, or they tie.
LEMMA PairsAreDecided ==
  ASSUME NEW n \in Nat, NEW m \in Nat, NEW a \in [1..n -> Nat], NEW b \in [1..m -> Nat]
  PROVE  /\ Beats(a, b) + Beats(b, a) + Ties(a, b) = n * m
         /\ Beats(a, b) \in Nat /\ Beats(b, a) \in Nat /\ Ties(a, b) \in Nat
         /\ Ties(a, b) = Ties(b, a)
<1> DEFINE D == 1..n
           E == 1..m
           P == D \X E
           G == {p \in P : a[p[1]] > b[p[2]]}
           L == {p \in P : b[p[2]] > a[p[1]]}
           T == {p \in P : a[p[1]] = b[p[2]]}
           GB == {p \in E \X D : b[p[1]] > a[p[2]]}
           TB == {p \in E \X D : b[p[1]] = a[p[2]]}
<1>1. /\ Beats(a, b) = Cardinality(G) /\ Ties(a, b) = Cardinality(T)
      /\ Beats(b, a) = Cardinality(GB) /\ Ties(b, a) = Cardinality(TB)
  BY DEF Beats, Ties
<1>2. /\ IsFiniteSet(D) /\ IsFiniteSet(E) /\ IsFiniteSet(P)
      /\ Cardinality(P) = n * m
  <2>1. IsFiniteSet(D) /\ IsFiniteSet(E) /\ Cardinality(D) = n /\ Cardinality(E) = m
    <3>1. Cardinality(1..n) = n /\ Cardinality(1..m) = m
      BY FS_Interval
    <3> QED BY <3>1, FS_Interval
  <2> HIDE DEF D, E
  <2> QED BY <2>1, FS_Product
<1>3. /\ P = G \cup (L \cup T) /\ G \cap (L \cup T) = {} /\ L \cap T = {}
      /\ (L \cup T) \subseteq P
  <2>1. \A p \in P : a[p[1]] \in Nat /\ b[p[2]] \in Nat
    OBVIOUS
  <2>2. \A p \in P : a[p[1]] > b[p[2]] \/ b[p[2]] > a[p[1]] \/ a[p[1]] = b[p[2]]
    BY <2>1
  <2>3. \A p \in P : /\ ~(a[p[1]] > b[p[2]] /\ b[p[2]] > a[p[1]])
                     /\ ~(a[p[1]] > b[p[2]] /\ a[p[1]] = b[p[2]])
                     /\ ~(b[p[2]] > a[p[1]] /\ a[p[1]] = b[p[2]])
    BY <2>1
  <2> HIDE DEF P
  <2> QED BY <2>2, <2>3
<1>4. GB = Turned(L) /\ TB = Turned(T)
  <2>1. ASSUME NEW q \in E \X D PROVE <<q[2], q[1]>> \in P /\ q = <<q[1], q[2]>>
    OBVIOUS
  <2>2. ASSUME NEW p \in P PROVE <<p[2], p[1]>> \in E \X D
    OBVIOUS
  <2>3. ASSUME NEW q \in GB PROVE q \in Turned(L)
    <3> DEFINE p == <<q[2], q[1]>>
    <3>1. p \in L /\ q = <<p[2], p[1]>>
      BY <2>1
    <3> HIDE DEF p, L
    <3> QED BY <3>1 DEF Turned
  <2>4. ASSUME NEW q \in TB PROVE q \in Turned(T)
    <3> DEFINE p == <<q[2], q[1]>>
    <3>1. p \in T /\ q = <<p[2], p[1]>>
      BY <2>1
    <3> HIDE DEF p, T
    <3> QED BY <3>1 DEF Turned
  <2>5. \A p \in L : <<p[2], p[1]>> \in GB
    BY <2>2
  <2>6. \A p \in T : <<p[2], p[1]>> \in TB
    BY <2>2
  <2> HIDE DEF L, T, GB, TB
  <2> QED BY <2>3, <2>4, <2>5, <2>6 DEF Turned
<1>5. \A p \in P : p = <<p[1], p[2]>>
  OBVIOUS
<1>10. L \in SUBSET P /\ T \in SUBSET P
  OBVIOUS
<1> HIDE DEF P, G, L, T, GB, TB
<1>6. /\ Cardinality(P) = Cardinality(G) + Cardinality(L \cup T)
      /\ Cardinality(G) \in Nat
  <2> DEFINE X == L \cup T
  <2>1. P = G \cup X /\ G \cap X = {} /\ IsFiniteSet(G \cup X)
    BY <1>2, <1>3
  <2> HIDE DEF X
  <2>2. /\ Cardinality(G \cup X) = Cardinality(G) + Cardinality(X)
        /\ Cardinality(G) \in Nat
    BY <2>1, InParts
  <2> QED BY <2>1, <2>2 DEF X
<1>7. IsFiniteSet(L \cup T)
  BY <1>2, <1>3, FS_Subset
<1>8. /\ Cardinality(L \cup T) = Cardinality(L) + Cardinality(T)
      /\ Cardinality(L) \in Nat /\ Cardinality(T) \in Nat
  BY <1>3, <1>7, InParts
<1>9. Cardinality(GB) = Cardinality(L) /\ Cardinality(TB) = Cardinality(T)
  <2>1. IsFiniteSet(L) /\ IsFiniteSet(T)
    BY <1>2, <1>10, FS_Subset
  <2>2. /\ \A p \in L : p = <<p[1], p[2]>>
        /\ \A p \in T : p = <<p[1], p[2]>>
    BY <1>5, <1>10
  <2> QED BY <1>4, <2>1, <2>2, TurnedAround
<1>11. Cardinality(G) + Cardinality(GB) + Cardinality(T) = n * m
  BY <1>2, <1>3, <1>6, <1>8, <1>9
<1> QED BY <1>1, <1>6, <1>8, <1>9, <1>11

\* The ranks of a sample among its own and another's outcomes add up to what
\* they are at least, and to twice what it beats and once what it ties with.
LEMMA RanksCountPairs ==
  ASSUME NEW n \in Nat, NEW m \in Nat, NEW t \in [1..n -> Nat], NEW c \in [1..m -> Nat],
         NEW all \in [1..(n + m) -> Nat],
         \A i \in 1..n : all[i] = t[i], \A j \in 1..m : all[n + j] = c[j],
         NEW f, \A i \in 1..n : f[i] = DoubledRank(t[i], all)
  PROVE  SumFunctionOnSet(f, 1..n) = 2 * Beats(t, c) + Ties(t, c) + n * (n + 1)
<1> DEFINE D == 1..n
           A == 1..(n + m)
           RL == {p \in D \X A : all[p[2]] < all[p[1]]}
           RE == {p \in D \X A : all[p[2]] = all[p[1]]}
<1>1. /\ IsFiniteSet(D) /\ IsFiniteSet(A) /\ Cardinality(D) = n
      /\ D \subseteq A /\ DOMAIN all = A
  <2>1. Cardinality(1..n) = n /\ IsFiniteSet(1..n) /\ IsFiniteSet(1..(n + m))
    BY FS_Interval
  <2> QED BY <2>1
<1>2. ASSUME NEW i \in D
      PROVE  f[i] = 2 * Cardinality(RowOf(RL, A, i)) + Cardinality(RowOf(RE, A, i)) + 1
  <2>1. all[i] = t[i] /\ i \in A
    BY <1>1
  <2>2. RowOf(RL, A, i) = Less(all, t[i]) /\ RowOf(RE, A, i) = Same(all, t[i])
    BY <1>1, <2>1 DEF RowOf, Less, Same
  <2>3. n + m \in Nat /\ i \in 1..(n + m)
    BY <2>1
  <2>4. DoubledRank(all[i], all) =
          2 * Cardinality(Less(all, all[i])) + Cardinality(Same(all, all[i])) + 1
    BY <2>3, RankCounts
  <2> QED BY <2>1, <2>2, <2>4
<1>3. Relates(RL, D, A) /\ Relates(RE, D, A) /\ CountsRanks(f, RL, RE, D, A)
  BY <1>1, <1>2 DEF Relates, CountsRanks
<1>5. /\ SumFunctionOnSet(f, D) = 2 * Cardinality(RL) + Cardinality(RE) + n
      /\ Cardinality(RL) \in Nat /\ Cardinality(RE) \in Nat
  <2> HIDE DEF D, A, RL, RE
  <2> QED BY <1>1, <1>3, RanksAddUp
<1> DEFINE LT == {p \in D \X D : t[p[1]] > t[p[2]]}
           ET == {p \in D \X D : t[p[1]] = t[p[2]]}
           LC == {p \in RL : p[2] > n}
           EC == {p \in RE : p[2] > n}
<1>6. ASSUME NEW p \in D \X A
      PROVE  /\ p[1] \in D /\ p[2] \in A /\ p = <<p[1], p[2]>>
             /\ p[2] > n <=> p \notin D \X D
             /\ p \in D \X D => all[p[1]] = t[p[1]] /\ all[p[2]] = t[p[2]]
             /\ all[p[1]] \in Nat /\ all[p[2]] \in Nat
  OBVIOUS
<1>7. RL = LT \cup LC /\ LT \cap LC = {} /\ RE = ET \cup EC /\ ET \cap EC = {}
  <2>1. D \X D \subseteq D \X A
    BY <1>1
  <2>2. \A p \in D \X D : all[p[1]] = t[p[1]] /\ all[p[2]] = t[p[2]] /\ ~(p[2] > n)
    BY <1>6, <2>1
  <2>3. \A p \in D \X A : \/ p[2] > n
                          \/ p \in D \X D
    BY <1>6
  <2>4. \A p \in D \X D : (all[p[2]] < all[p[1]]) <=> (t[p[1]] > t[p[2]])
    BY <1>6, <2>1, <2>2
  <2> HIDE DEF D, A
  <2> QED BY <2>1, <2>2, <2>3, <2>4
<1>8. Cardinality(LT) = Beats(t, t) /\ Cardinality(ET) = Ties(t, t)
  BY DEF Beats, Ties
<1>9. Cardinality(LC) = Beats(t, c)
  <2> DEFINE Q == {p \in D \X (1..m) : t[p[1]] > c[p[2]]}
  <2>1. Beats(t, c) = Cardinality(Q)
    BY DEF Beats
  <2>2. ASSUME NEW p \in LC PROVE p \in MovedUp(n, Q)
    <3> DEFINE j == p[2] - n
    <3>1. p[1] \in D /\ j \in 1..m /\ p = <<p[1], n + j>> /\ p[2] = n + j
      OBVIOUS
    <3>2. all[p[2]] = c[j] /\ all[p[1]] = t[p[1]]
      BY <3>1
    <3>3. t[p[1]] \in Nat /\ c[j] \in Nat
      BY <3>1
    <3>4. <<p[1], j>> \in Q
      BY <3>1, <3>2, <3>3
    <3> DEFINE q == <<p[1], j>>
    <3>5. q \in Q /\ p = <<q[1], n + q[2]>>
      BY <3>1, <3>4
    <3> HIDE DEF j, q, Q
    <3> QED BY <3>5 DEF MovedUp
  <2>3. ASSUME NEW q \in Q PROVE <<q[1], n + q[2]>> \in LC
    <3>1. q[1] \in D /\ q[2] \in 1..m /\ n + q[2] \in A /\ n + q[2] > n
      OBVIOUS
    <3>2. all[n + q[2]] = c[q[2]] /\ all[q[1]] = t[q[1]]
      BY <3>1
    <3>3. t[q[1]] \in Nat /\ c[q[2]] \in Nat
      BY <3>1
    <3> QED BY <3>1, <3>2, <3>3
  <2>4. LC = MovedUp(n, Q)
    <3> HIDE DEF Q, LC
    <3> QED BY <2>2, <2>3 DEF MovedUp
  <2>5. /\ \A p \in Q : p = <<p[1], p[2]>> /\ p[2] \in Int
        /\ Q \in SUBSET (D \X (1..m))
    OBVIOUS
  <2>6. IsFiniteSet(Q)
    <3>2. IsFiniteSet(1..m)
      BY FS_Interval
    <3>1. IsFiniteSet(D \X (1..m))
      BY <1>1, <3>2, FS_Product
    <3> HIDE DEF Q, D
    <3> QED BY <2>5, <3>1, FS_Subset
  <2> HIDE DEF Q, LC
  <2> QED BY <2>1, <2>4, <2>5, <2>6, AsManyMoved
<1>10. Cardinality(EC) = Ties(t, c)
  <2> DEFINE Q == {p \in D \X (1..m) : t[p[1]] = c[p[2]]}
  <2>1. Ties(t, c) = Cardinality(Q)
    BY DEF Ties
  <2>2. ASSUME NEW p \in EC PROVE p \in MovedUp(n, Q)
    <3> DEFINE j == p[2] - n
    <3>1. p[1] \in D /\ j \in 1..m /\ p = <<p[1], n + j>> /\ p[2] = n + j
      OBVIOUS
    <3>2. all[p[2]] = c[j] /\ all[p[1]] = t[p[1]]
      BY <3>1
    <3>3. t[p[1]] \in Nat /\ c[j] \in Nat
      BY <3>1
    <3>4. <<p[1], j>> \in Q
      BY <3>1, <3>2, <3>3
    <3> DEFINE q == <<p[1], j>>
    <3>5. q \in Q /\ p = <<q[1], n + q[2]>>
      BY <3>1, <3>4
    <3> HIDE DEF j, q, Q
    <3> QED BY <3>5 DEF MovedUp
  <2>3. ASSUME NEW q \in Q PROVE <<q[1], n + q[2]>> \in EC
    <3>1. q[1] \in D /\ q[2] \in 1..m /\ n + q[2] \in A /\ n + q[2] > n
      OBVIOUS
    <3>2. all[n + q[2]] = c[q[2]] /\ all[q[1]] = t[q[1]]
      BY <3>1
    <3>3. t[q[1]] \in Nat /\ c[q[2]] \in Nat
      BY <3>1
    <3> QED BY <3>1, <3>2, <3>3
  <2>4. EC = MovedUp(n, Q)
    <3> HIDE DEF Q, EC
    <3> QED BY <2>2, <2>3 DEF MovedUp
  <2>5. /\ \A p \in Q : p = <<p[1], p[2]>> /\ p[2] \in Int
        /\ Q \in SUBSET (D \X (1..m))
    OBVIOUS
  <2>6. IsFiniteSet(Q)
    <3>2. IsFiniteSet(1..m)
      BY FS_Interval
    <3>1. IsFiniteSet(D \X (1..m))
      BY <1>1, <3>2, FS_Product
    <3> HIDE DEF Q, D
    <3> QED BY <2>5, <3>1, FS_Subset
  <2> HIDE DEF Q, EC
  <2> QED BY <2>1, <2>4, <2>5, <2>6, AsManyMoved
<1>11. IsFiniteSet(RL) /\ IsFiniteSet(RE)
  <2> HIDE DEF D, A, RL, RE
  <2>1. IsFiniteSet(D \X A)
    BY <1>1, FS_Product
  <2>2. RL \in SUBSET (D \X A) /\ RE \in SUBSET (D \X A)
    BY <1>3 DEF Relates
  <2> QED BY <2>1, <2>2, FS_Subset
<1> HIDE DEF RL, RE, LT, ET, LC, EC, D
<1>12. /\ Cardinality(RL) = Cardinality(LT) + Cardinality(LC)
       /\ Cardinality(RE) = Cardinality(ET) + Cardinality(EC)
  <2>1. IsFiniteSet(LT \cup LC) /\ IsFiniteSet(ET \cup EC)
    BY <1>7, <1>11
  <2>2. Cardinality(LT \cup LC) = Cardinality(LT) + Cardinality(LC)
    BY <1>7, <2>1, InParts
  <2>3. Cardinality(ET \cup EC) = Cardinality(ET) + Cardinality(EC)
    BY <1>7, <2>1, InParts
  <2> QED BY <1>7, <2>2, <2>3
<1>13. /\ Beats(t, t) + Beats(t, t) + Ties(t, t) = n * n
       /\ Beats(t, t) \in Nat /\ Ties(t, t) \in Nat
  BY PairsAreDecided
<1>14. Beats(t, c) \in Nat /\ Ties(t, c) \in Nat
  BY PairsAreDecided
<1> DEFINE s == n * n
<1>15. n * (n + 1) = s + n /\ s \in Nat
  OBVIOUS
<1>16. Beats(t, t) + Beats(t, t) + Ties(t, t) = s
  BY <1>13
<1> HIDE DEF s
<1>17. SumFunctionOnSet(f, D) = 2 * Beats(t, c) + Ties(t, c) + s + n
  BY <1>5, <1>8, <1>9, <1>10, <1>12, <1>13, <1>14, <1>15, <1>16
<1>18. SumFunctionOnSet(f, 1..n) = 2 * Beats(t, c) + Ties(t, c) + s + n
  BY <1>17 DEF D
<1> DEFINE k == n * (n + 1)
<1>19. k = s + n
  BY <1>15
<1> HIDE DEF k
<1>20. SumFunctionOnSet(f, 1..n) = 2 * Beats(t, c) + Ties(t, c) + k
  BY <1>14, <1>15, <1>18, <1>19
<1> QED BY <1>20 DEF k

\* The statistic of the rank test.
LEMMA RankTestCounts ==
  ASSUME NEW a \in Seq(Nat), NEW b \in Seq(Nat)
  PROVE  DoubledU(a, b) = 2 * Beats(b, a) + Ties(a, b)
<1> DEFINE n == Len(b)
           m == Len(a)
           all == b \o a
           f == [i \in DOMAIN b |-> DoubledRank(b[i], all)]
<1>1. /\ n \in Nat /\ m \in Nat /\ b \in [1..n -> Nat] /\ a \in [1..m -> Nat]
      /\ DOMAIN b = 1..n
  OBVIOUS
<1>2. /\ all \in [1..(n + m) -> Nat]
      /\ \A i \in 1..n : all[i] = b[i]
      /\ \A j \in 1..m : all[n + j] = a[j]
  <2>1. /\ all \in Seq(Nat) /\ Len(all) = n + m
        /\ \A i \in 1..(n + m) : all[i] = IF i <= n THEN b[i] ELSE a[i - n]
    BY ConcatProperties
  <2>2. all \in [1..(n + m) -> Nat]
    <3> HIDE DEF all, n, m
    <3>1. all \in [1..Len(all) -> Nat]
      BY <2>1, LenProperties
    <3> QED BY <2>1, <3>1
  <2>3. \A i \in 1..n : i \in 1..(n + m) /\ i <= n
    BY <1>1
  <2>4. \A j \in 1..m : n + j \in 1..(n + m) /\ ~(n + j <= n) /\ (n + j) - n = j
    BY <1>1
  <2> HIDE DEF n, m, all
  <2> QED BY <2>1, <2>2, <2>3, <2>4
<1>3. \A i \in 1..n : f[i] = DoubledRank(b[i], all)
  BY <1>1
<1>4. Total(f) = SumFunctionOnSet(f, 1..n)
  BY <1>1 DEF Total, SumFunction
<1>5. DoubledU(a, b) = Total(f) - n * (n + 1)
  BY DEF DoubledU
<1> HIDE DEF n, m, all, f
<1>6. SumFunctionOnSet(f, 1..n) = 2 * Beats(b, a) + Ties(b, a) + n * (n + 1)
  BY <1>1, <1>2, <1>3, RanksCountPairs
<1>7. Ties(b, a) = Ties(a, b) /\ Ties(b, a) \in Nat /\ Beats(b, a) \in Nat
  BY <1>1, PairsAreDecided
<1> DEFINE k == n * (n + 1)
<1>8. k \in Nat
  BY <1>1
<1>9. /\ DoubledU(a, b) = Total(f) - k
      /\ Total(f) = 2 * Beats(b, a) + Ties(a, b) + k
  BY <1>4, <1>5, <1>6, <1>7
<1> HIDE DEF k
<1> QED BY <1>7, <1>8, <1>9

\* What is ahead as often as behind is at the mean, and not significant.
LEMMA EvenIsNotSignificant ==
  ASSUME NEW a \in Seq(Nat), NEW b \in Seq(Nat), Beats(a, b) = Beats(b, a)
  PROVE  ~Significant(a, b)
<1> DEFINE n == Len(b)
           m == Len(a)
           pairs == m * n
           u1 == DoubledU(a, b)
           u == Min({u1, 2 * pairs - u1})
           w == m + n + 1
<1>1. n \in Nat /\ m \in Nat /\ b \in [1..n -> Nat] /\ a \in [1..m -> Nat]
  OBVIOUS
<1>2. pairs \in Nat /\ w \in Nat
  BY <1>1
<1>3. u1 = pairs
  <2>1. /\ Beats(a, b) + Beats(b, a) + Ties(a, b) = m * n
        /\ Beats(a, b) \in Nat /\ Beats(b, a) \in Nat /\ Ties(a, b) \in Nat
    <3> HIDE DEF n, m
    <3> QED BY <1>1, PairsAreDecided
  <2>2. u1 = 2 * Beats(b, a) + Ties(a, b)
    BY RankTestCounts
  <2>3. Beats(a, b) + Beats(b, a) + Ties(a, b) = pairs
    BY <2>1
  <2> HIDE DEF u1, pairs, n, m
  <2> QED BY <2>1, <2>2, <2>3
<1>4. Significant(a, b) => 30000 * (u - pairs) * (u - pairs) > 38415 * pairs * w
  BY DEF Significant
<1>5. u = Min({u1, 2 * pairs - u1})
  OBVIOUS
<1> HIDE DEF u, u1, pairs, w
<1>6. u = pairs
  <2>1. 2 * pairs - u1 = pairs
    BY <1>2, <1>3
  <2>2. Min({pairs}) = pairs
    <3> DEFINE S == {pairs}
    <3>1. pairs \in S /\ \A y \in S : y \in Int /\ pairs <= y
      BY <1>2
    <3> HIDE DEF S
    <3>2. Min(S) = pairs
      BY <3>1, MinIsSmallest
    <3> QED BY <3>2 DEF S
  <2> QED BY <1>3, <1>5, <2>1, <2>2
<1>7. 30000 * (u - pairs) * (u - pairs) = 0
  BY <1>2, <1>6
<1>8. 38415 * pairs * w >= 0
  <2> DEFINE k == pairs * w
  <2>1. k \in Nat
    BY <1>2
  <2>2. 38415 * pairs * w = 38415 * k
    BY <1>2
  <2> HIDE DEF k
  <2> QED BY <2>1, <2>2
<1>9. 38415 * pairs * w \in Int
  BY <1>2
<1> QED BY <1>4, <1>7, <1>8, <1>9

\* The rank statistic counts pairs, and a winner of two is ahead in more of them
\* than the other, or in fewer (get_results and the rank test).
THEOREM WinnersSound == ExperimentsSpec => []WinnersAreSound
<1>1. ASSUME ExperimentsInv PROVE WinnersAreSound
  <2>1. SUFFICES ASSUME NEW e \in Ids, Len(experiments[e].variants) = 2
                 PROVE  LET a == experiments[e].outcomes[experiments[e].variants[1]]
                            b == experiments[e].outcomes[experiments[e].variants[2]]
                        IN  /\ DoubledU(a, b) = 2 * Beats(b, a) + Ties(a, b)
                            /\ Winner(e) # <<>> => Beats(a, b) # Beats(b, a)
    BY DEF WinnersAreSound
  <2> DEFINE x == experiments[e]
             a == x.outcomes[x.variants[1]]
             b == x.outcomes[x.variants[2]]
  <2>2. x \in ExperimentSet
    BY <1>1, ExperimentsAre
  <2>3. a \in Seq(Metrics) /\ b \in Seq(Metrics)
    <3> HIDE DEF x
    <3>1. PICK V \in SUBSET STRING : x.outcomes \in [V -> Seq(Metrics)]
      BY <2>2 DEF ExperimentSet
    <3>2. DOMAIN x.outcomes = ToSet(x.variants)
      BY <2>2 DEF ExperimentSet
    <3>3. DOMAIN x.variants = 1..2
      BY <2>1, <2>2, OfExperiment DEF x
    <3>4. x.variants[1] \in ToSet(x.variants) /\ x.variants[2] \in ToSet(x.variants)
      BY <3>3 DEF ToSet
    <3> QED BY <3>1, <3>2, <3>4
  <2>4. a \in Seq(Nat) /\ b \in Seq(Nat)
    <3> HIDE DEF a, b
    <3>1. ASSUME NEW s \in Seq(Metrics) PROVE s \in Seq(Nat)
      BY SeqMonotonic, ExperimentsAssumption
    <3> QED BY <2>3, <3>1
  <2>5. Winner(e) # <<>> => Significant(a, b)
    BY <2>1 DEF Winner
  <2> HIDE DEF a, b
  <2>6. DoubledU(a, b) = 2 * Beats(b, a) + Ties(a, b)
    BY <2>4, RankTestCounts
  <2>7. Winner(e) # <<>> => Beats(a, b) # Beats(b, a)
    BY <2>4, <2>5, EvenIsNotSignificant
  <2> QED BY <2>6, <2>7 DEF a, b
<1> QED BY <1>1, ExperimentsInvariant, PTL

\* An experiment is decided by what was shown and recorded.
THEOREM ExperimentsSound == ExperimentsSpec => []ExperimentsAreSound
BY SharesHonoured, WinnersSound, PTL DEF ExperimentsAreSound

-----------------------------------------------------------------------------
(* LiveCollectors: the tokens.                                             *)

\* A request takes its time at most, and a token that is kept ends no earlier
\* than that time before the collector believes; so the margin leaves every
\* request the time it may take.
TokensLast ==
  /\ token # NoToken => token + Timeout >= expires
  /\ \A c \in Callers :
       /\ stage[c] # "idle" => clock <= since[c] + Timeout
       /\ stage[c] = "posts" => since[c] + Timeout <= bearer[c]

RedditTyped ==
  /\ clock \in Nat
  /\ token \in Nat \cup {NoToken} /\ expires \in Nat
  /\ stage \in [Callers -> {"idle", "token", "posts"}]
  /\ since \in [Callers -> 0..clock] /\ bearer \in [Callers -> Nat]

TokensInv == RedditTyped /\ TokensLast

LEMMA InitTokens == CollectorsInit => TokensInv
  BY TokenAssumption DEF CollectorsInit, TokensInv, RedditTyped, TokensLast, NoToken

LEMMA NextKeepsTokens ==
  ASSUME TokensInv, [CollectorsNext]_collectorsVars
  PROVE  TokensInv'
<1> USE TokenAssumption DEF TokensInv, RedditTyped, TokensLast, NoToken
<1>1. ASSUME NEW c \in Callers, UseToken(c) PROVE TokensInv'
  BY <1>1 DEF UseToken, Fresh
<1>2. ASSUME NEW c \in Callers, AskForToken(c) PROVE TokensInv'
  BY <1>2 DEF AskForToken
<1>3. ASSUME NEW c \in Callers, TokenArrives(c) PROVE TokensInv'
  <2>1. PICK issued \in since[c]..clock :
          /\ token' = issued + Lifetime
          /\ bearer' = [bearer EXCEPT ![c] = issued + Lifetime]
    BY <1>3 DEF TokenArrives
  <2>2. /\ issued \in Nat /\ issued + Timeout >= clock
        /\ expires' = clock + Lifetime
        /\ stage' = [stage EXCEPT ![c] = "posts"] /\ since' = [since EXCEPT ![c] = clock]
        /\ clock' = clock
    BY <1>3, <2>1 DEF TokenArrives
  <2>3. clock + Timeout <= issued + Lifetime
    BY <2>1, <2>2
  <2>4. QED
    BY <2>1, <2>2, <2>3
<1>4. ASSUME NEW c \in Callers, CallEnds(c) PROVE TokensInv'
  BY <1>4 DEF CallEnds
<1>5. CASE Second
  BY <1>5 DEF Second
<1>6. CASE YouTubeNext
  BY <1>6
  DEF YouTubeNext, RestartYouTube, Search, SearchAnswers, DetailsAnswer, RequestFails,
      redditVars
<1>7. CASE UNCHANGED collectorsVars
  BY <1>7 DEF collectorsVars, redditVars
<1>8. QED
  BY <1>1, <1>2, <1>3, <1>4, <1>5, <1>6, <1>7 DEF CollectorsNext, RedditNext

THEOREM TokensInvariant == CollectorsSpec => []TokensInv
<1>1. QED
  BY InitTokens, NextKeepsTokens, PTL DEF CollectorsSpec

\* With a margin of two timeouts no request carries a token that has ended, in
\* whatever order the tokens arrive (_get_token, collect and search).
THEOREM TokensStayFresh == CollectorsSpec => []TokensAreFresh
<1>1. TokensInv => TokensAreFresh
  BY TokenAssumption DEF TokensInv, RedditTyped, TokensLast, TokensAreFresh
<1>2. QED
  BY <1>1, TokensInvariant, PTL

-----------------------------------------------------------------------------
(* LiveCollectors: the units.                                              *)

Searching == {c \in Callers : step[c] = "search"}
Reading == {c \in Callers : step[c] = "details"}

\* What searches that are under way may still use is counted in from when they
\* are let in: a search and a page before the first answer, a page after it.
\* When the last one is let in, it is the only one that is not counted.
PendingUnits ==
  units + (SearchCost + PageSize) * Cardinality(Searching) + PageSize * Cardinality(Reading)
    <= UnitLimit + PageSize + (Cardinality(Callers) - 1) * (SearchCost + PageSize)

UnitsTyped ==
  /\ units \in Nat
  /\ step \in [Callers -> {"idle", "search", "details"}]
  /\ found \in [Callers -> 0..PageSize]

UnitsInv == UnitsTyped /\ PendingUnits

LEMMA CallersCount ==
  /\ Cardinality(Callers) \in Nat \ {0}
  /\ IsFiniteSet(Searching) /\ Cardinality(Searching) \in Nat
  /\ IsFiniteSet(Reading) /\ Cardinality(Reading) \in Nat
<1>1. IsFiniteSet(Searching) /\ IsFiniteSet(Reading)
  BY CoroutinesAssumption, FS_Subset DEF Searching, Reading
<1> QED BY <1>1, CoroutinesAssumption, FS_CardinalityType, FS_EmptySet

\* One coroutine at least is idle when a search is let in.
LEMMA OthersAreFewer ==
  ASSUME NEW c \in Callers, step[c] = "idle"
  PROVE  Cardinality(Searching) + Cardinality(Reading) <= Cardinality(Callers) - 1
<1>1. Cardinality(Searching \cup Reading) = Cardinality(Searching) + Cardinality(Reading)
  <2>1. Cardinality(Searching \cap Reading) = 0
    <3>1. Searching \cap Reading = {}
      BY DEF Searching, Reading
    <3>2. Cardinality({}) = 0
      BY FS_EmptySet
    <3> QED BY <3>1, <3>2, Zenon
  <2>2. Cardinality(Searching \cup Reading) =
          Cardinality(Searching) + Cardinality(Reading) - Cardinality(Searching \cap Reading)
    BY CallersCount, FS_Union
  <2> QED BY <2>1, <2>2, CallersCount
<1>2. /\ IsFiniteSet(Callers \ {c})
      /\ Cardinality(Callers \ {c}) = Cardinality(Callers) - 1
  BY CoroutinesAssumption, FS_RemoveElement
<1>3. Searching \cup Reading \subseteq Callers \ {c}
  BY DEF Searching, Reading
<1> QED BY <1>1, <1>2, <1>3, FS_Subset

LEMMA InitUnits == CollectorsInit => UnitsInv
<1> SUFFICES ASSUME CollectorsInit PROVE UnitsInv
  OBVIOUS
<1>1. UnitsTyped
  BY UnitsAssumption DEF CollectorsInit, UnitsTyped
<1>2. Searching = {} /\ Reading = {}
  BY DEF CollectorsInit, Searching, Reading
<1>3. /\ units = 0
      /\ (SearchCost + PageSize) * Cardinality(Searching) = 0
      /\ PageSize * Cardinality(Reading) = 0
  BY <1>2, UnitsAssumption, FS_EmptySet DEF CollectorsInit
<1>4. (Cardinality(Callers) - 1) * (SearchCost + PageSize) \in Nat
  <2>1. Cardinality(Callers) - 1 \in Nat /\ SearchCost + PageSize \in Nat
    BY CallersCount, UnitsAssumption
  <2> QED BY <2>1
<1> QED BY <1>1, <1>3, <1>4, UnitsAssumption DEF UnitsInv, PendingUnits

\* A step after which no more is pending, or counted, than was before.
LEMMA PendingShrinks ==
  ASSUME UnitsInv, UnitsTyped', NEW s \in Nat, NEW r \in Nat,
         Cardinality(Searching') = s, Cardinality(Reading') = r,
         units' + (SearchCost + PageSize) * s + PageSize * r
           <= units + (SearchCost + PageSize) * Cardinality(Searching)
                + PageSize * Cardinality(Reading)
  PROVE  UnitsInv'
<1> DEFINE w     == SearchCost + PageSize
           limit == UnitLimit + PageSize + (Cardinality(Callers) - 1) * w
           was   == units + w * Cardinality(Searching) + PageSize * Cardinality(Reading)
           is    == units' + w * s + PageSize * r
<1>1. w \in Nat /\ PageSize \in Nat /\ units \in Nat /\ units' \in Nat
  BY UnitsAssumption DEF UnitsInv, UnitsTyped
<1>2. is \in Int /\ was \in Int /\ limit \in Int
  BY <1>1, CallersCount, UnitsAssumption
<1>3. is <= was /\ was <= limit
  BY DEF UnitsInv, PendingUnits
<1>4. is <= limit
  <2> HIDE DEF is, was, limit
  <2> QED BY <1>2, <1>3
<1> QED BY <1>4 DEF UnitsInv, PendingUnits

LEMMA SearchKeepsUnits ==
  ASSUME UnitsInv, NEW c \in Callers, Search(c)
  PROVE  UnitsInv'
<1> DEFINE s == Cardinality(Searching)  r == Cardinality(Reading)
           n == Cardinality(Callers)    w == SearchCost + PageSize
<1>1. UnitsTyped'
  BY DEF UnitsInv, UnitsTyped, Search
<1>2. Searching' = Searching \cup {c} /\ Reading' = Reading /\ c \notin Searching
      /\ step[c] = "idle" /\ units' = units /\ units + SearchCost <= UnitLimit
  BY DEF Search, CanSearch, Searching, Reading, UnitsInv, UnitsTyped
<1>3. Cardinality(Searching') = s + 1 /\ Cardinality(Reading') = r
  BY <1>2, CallersCount, FS_AddElement
<1>4. /\ s \in Nat /\ r \in Nat /\ n \in Nat \ {0} /\ s + r <= n - 1
      /\ w \in Nat /\ units \in Nat /\ UnitLimit \in Nat
      /\ SearchCost \in Nat /\ PageSize \in Nat
  BY <1>2, CallersCount, OthersAreFewer, UnitsAssumption DEF UnitsInv, UnitsTyped
<1> HIDE DEF s, r, n
<1>5. w * (s + 1) = w * s + w /\ w * s \in Nat /\ PageSize * r \in Nat
  BY <1>4, Distributes
<1>6. PageSize * r <= w * r
  <2>1. w * r = SearchCost * r + PageSize * r /\ SearchCost * r \in Nat
    BY <1>4, Distributes
  <2> QED BY <1>4, <1>5, <2>1
<1>7. w * s + w * r <= (n - 1) * w
  <2>1. PICK k \in Nat : n - 1 = s + r + k
    <3>1. n - 1 - (s + r) \in Nat /\ n - 1 = s + r + (n - 1 - (s + r))
      BY <1>4
    <3> QED BY <3>1
  <2>2. w * (s + r + k) = w * s + w * r + w * k /\ w * k \in Nat /\ w * r \in Nat
    BY <1>4, <2>1, Distributes
  <2>3. (n - 1) * w = w * (s + r + k)
    BY <1>4, <2>1, Distributes
  <2> QED BY <1>5, <2>2, <2>3
<1>8. units + w * (s + 1) + PageSize * r <= UnitLimit + PageSize + (n - 1) * w
  <2>1. w * r \in Nat /\ (n - 1) * w \in Int
    BY <1>4
  <2>2. units + w <= UnitLimit + PageSize
    BY <1>2, <1>4
  <2> HIDE DEF w
  <2> QED BY <1>4, <1>5, <1>6, <1>7, <2>1, <2>2
<1>9. PendingUnits'
  BY <1>2, <1>3, <1>8 DEF PendingUnits, s, r, n
<1> QED BY <1>1, <1>9 DEF UnitsInv

LEMMA SearchAnswersKeepsUnits ==
  ASSUME UnitsInv, NEW c \in Callers, SearchAnswers(c)
  PROVE  UnitsInv'
<1> DEFINE s == Cardinality(Searching)  r == Cardinality(Reading)
           w == SearchCost + PageSize
<1>1. PICK n \in 0..PageSize :
        /\ found' = [found EXCEPT ![c] = n]
        /\ step' = [step EXCEPT ![c] = IF n = 0 THEN "idle" ELSE "details"]
  BY DEF SearchAnswers
<1>2. UnitsTyped'
  BY <1>1, UnitsAssumption DEF UnitsInv, UnitsTyped, SearchAnswers
<1>3. /\ Searching' = Searching \ {c} /\ c \in Searching /\ c \notin Reading
      /\ Reading' \in {Reading, Reading \cup {c}} /\ units' = units + SearchCost
  BY <1>1 DEF SearchAnswers, Searching, Reading, UnitsInv, UnitsTyped
<1>4. Cardinality(Searching') = s - 1 /\ Cardinality(Reading') \in {r, r + 1}
  BY <1>3, CallersCount, FS_RemoveElement, FS_AddElement
<1>5. /\ s \in Nat /\ s - 1 \in Nat /\ r \in Nat /\ units \in Nat
      /\ SearchCost \in Nat /\ PageSize \in Nat /\ w \in Nat
  <2>1. s # 0
    BY <1>3, CallersCount, FS_EmptySet
  <2> QED BY <2>1, CallersCount, UnitsAssumption DEF UnitsInv, UnitsTyped
<1> HIDE DEF s, r
<1>6. /\ w * s = w * (s - 1) + w /\ w * (s - 1) \in Nat
      /\ PageSize * (r + 1) = PageSize * r + PageSize /\ PageSize * r \in Nat
  <2>1. w * ((s - 1) + 1) = w * (s - 1) + w * 1
    BY <1>5, Distributes
  <2> QED BY <1>5, <2>1, Distributes
<1>7. units + SearchCost + w * (s - 1) + PageSize * (r + 1) = units + w * s + PageSize * r
  <2>1. w * s = w * (s - 1) + SearchCost + PageSize
    BY <1>5, <1>6
  <2> HIDE DEF w
  <2> QED BY <1>5, <1>6, <2>1
<1>8. PICK q \in Nat : /\ Cardinality(Reading') = q
                      /\ PageSize * q <= PageSize * (r + 1) /\ PageSize * q \in Nat
  BY <1>4, <1>5, <1>6
<1>9. units' + w * (s - 1) + PageSize * q <= units + w * s + PageSize * r
  <2> HIDE DEF w
  <2> QED BY <1>3, <1>5, <1>6, <1>7, <1>8
<1> QED BY <1>2, <1>4, <1>5, <1>8, <1>9, PendingShrinks DEF s, r

\* What the second request is counted for is at most the page.
LEMMA DetailsAnswerKeepsUnits ==
  ASSUME UnitsInv, NEW c \in Callers, DetailsAnswer(c)
  PROVE  UnitsInv'
<1> DEFINE s == Cardinality(Searching)  r == Cardinality(Reading)
           w == SearchCost + PageSize
<1>1. UnitsTyped'
  BY UnitsAssumption DEF UnitsInv, UnitsTyped, DetailsAnswer
<1>2. /\ Searching' = Searching /\ Reading' = Reading \ {c} /\ c \in Reading
      /\ units' = units + found[c] /\ found[c] \in 0..PageSize
  BY DEF DetailsAnswer, Searching, Reading, UnitsInv, UnitsTyped
<1>3. Cardinality(Searching') = s /\ Cardinality(Reading') = r - 1
  BY <1>2, CallersCount, FS_RemoveElement
<1>4. s \in Nat /\ r \in Nat /\ r - 1 \in Nat /\ PageSize \in Nat /\ w \in Nat /\ units \in Nat
  <2>1. r # 0
    BY <1>2, CallersCount, FS_EmptySet
  <2> QED BY <2>1, CallersCount, UnitsAssumption DEF UnitsInv, UnitsTyped
<1> HIDE DEF s, r, w
<1>5. /\ PageSize * r = PageSize * (r - 1) + PageSize /\ PageSize * (r - 1) \in Nat
      /\ w * s \in Nat
  <2>1. PageSize * ((r - 1) + 1) = PageSize * (r - 1) + PageSize * 1
    BY <1>4, Distributes
  <2> QED BY <1>4, <2>1, Distributes
<1>6. units' + w * s + PageSize * (r - 1) <= units + w * s + PageSize * r
  BY <1>2, <1>4, <1>5
<1> QED BY <1>1, <1>3, <1>4, <1>6, PendingShrinks DEF s, r, w

LEMMA RequestFailsKeepsUnits ==
  ASSUME UnitsInv, NEW c \in Callers, RequestFails(c)
  PROVE  UnitsInv'
<1> DEFINE s == Cardinality(Searching)  r == Cardinality(Reading)
           w == SearchCost + PageSize
<1>1. UnitsTyped'
  BY UnitsAssumption DEF UnitsInv, UnitsTyped, RequestFails
<1>2. Searching' = Searching \ {c} /\ Reading' = Reading \ {c} /\ units' = units
  BY DEF RequestFails, Searching, Reading, UnitsInv, UnitsTyped
<1>3. PICK t \in Nat, q \in Nat : /\ Cardinality(Searching') = t /\ t <= s
                                 /\ Cardinality(Reading') = q /\ q <= r
  BY <1>2, CallersCount, FS_Subset, FS_CardinalityType
<1>4. s \in Nat /\ r \in Nat /\ PageSize \in Nat /\ w \in Nat /\ units \in Nat
  BY CallersCount, UnitsAssumption DEF UnitsInv, UnitsTyped
<1> HIDE DEF s, r, w
<1>5. ASSUME NEW a \in Nat, NEW b \in Nat, NEW d \in Nat, b <= d
      PROVE  a * b <= a * d /\ a * b \in Nat /\ a * d \in Nat
  <2>1. d - b \in Nat /\ d = b + (d - b)
    BY <1>5
  <2>2. a * d = a * b + a * (d - b) /\ a * (d - b) \in Nat /\ a * b \in Nat
    BY <2>1, Distributes
  <2> QED BY <2>2
<1>6. /\ w * t <= w * s /\ w * t \in Nat /\ w * s \in Nat
      /\ PageSize * q <= PageSize * r /\ PageSize * q \in Nat /\ PageSize * r \in Nat
  BY <1>3, <1>4, <1>5
<1>7. units' + w * t + PageSize * q <= units + w * s + PageSize * r
  BY <1>2, <1>4, <1>6
<1> QED BY <1>1, <1>3, <1>7, PendingShrinks DEF s, r, w

LEMMA RestartKeepsUnits ==
  ASSUME UnitsInv, RestartYouTube
  PROVE  UnitsInv'
<1>1. UnitsTyped'
  BY UnitsAssumption DEF UnitsTyped, RestartYouTube
<1>2. Searching' = {} /\ Reading' = {} /\ units' = 0
  BY DEF RestartYouTube, Searching, Reading
<1>3. Cardinality(Searching') = 0 /\ Cardinality(Reading') = 0
  BY <1>2, FS_EmptySet
<1>4. /\ units \in Nat
      /\ (SearchCost + PageSize) * Cardinality(Searching) \in Nat
      /\ PageSize * Cardinality(Reading) \in Nat
      /\ (SearchCost + PageSize) * 0 = 0 /\ PageSize * 0 = 0
  <2>1. SearchCost + PageSize \in Nat /\ PageSize \in Nat
    BY UnitsAssumption
  <2> QED BY <2>1, CallersCount, Distributes DEF UnitsInv, UnitsTyped
<1> QED BY <1>1, <1>2, <1>3, <1>4, PendingShrinks

LEMMA NextKeepsUnits ==
  ASSUME UnitsInv, [CollectorsNext]_collectorsVars
  PROVE  UnitsInv'
<1>1. CASE UNCHANGED youtubeVars
  BY <1>1
  DEF youtubeVars, UnitsInv, UnitsTyped, PendingUnits, Searching, Reading
<1>2. RedditNext => UNCHANGED youtubeVars
  BY DEF RedditNext, Second, UseToken, AskForToken, TokenArrives, CallEnds
<1> QED BY <1>1, <1>2, SearchKeepsUnits, SearchAnswersKeepsUnits, DetailsAnswerKeepsUnits,
           RequestFailsKeepsUnits, RestartKeepsUnits
        DEF CollectorsNext, YouTubeNext, collectorsVars

LEMMA UnitsFollow == UnitsInv => UnitsAreBounded
<1>1. SUFFICES ASSUME UnitsInv PROVE UnitsAreBounded
  OBVIOUS
<1> DEFINE w     == SearchCost + PageSize
           limit == UnitLimit + PageSize + (Cardinality(Callers) - 1) * w
<1>2. /\ w * Cardinality(Searching) \in Nat /\ PageSize * Cardinality(Reading) \in Nat
      /\ limit \in Int /\ units \in Nat
  <2>1. w \in Nat /\ PageSize \in Nat /\ UnitLimit \in Nat
    BY UnitsAssumption
  <2> QED BY <1>1, <2>1, CallersCount, Distributes DEF UnitsInv, UnitsTyped
<1>3. units + w * Cardinality(Searching) + PageSize * Cardinality(Reading) <= limit
  BY <1>1 DEF UnitsInv, PendingUnits
<1>4. units <= limit
  <2> HIDE DEF limit, w
  <2> QED BY <1>2, <1>3
<1> QED BY <1>4 DEF UnitsAreBounded

THEOREM UnitsInvariant == CollectorsSpec => []UnitsInv
<1>1. QED
  BY InitUnits, NextKeepsUnits, PTL DEF CollectorsSpec

\* However the coroutines' requests interleave, fail and answer, the units of a
\* day are exceeded by one page and what searches let in beside it may use at
\* most, and no request carries a token that has ended (_search, _get_token).
THEOREM QuotasKept == CollectorsSpec => []QuotasAreKept
<1>1. QED
  BY UnitsFollow, UnitsInvariant, TokensStayFresh, PTL DEF QuotasAreKept

-----------------------------------------------------------------------------
(* Signals.                                                                *)

\* The table has finitely many rows.
SignalsInv == SignalsTypeOK /\ IsFiniteSet(Stored)

LEMMA InitSignals == SignalsInit => SignalsInv
<1> SUFFICES ASSUME SignalsInit PROVE SignalsInv
  OBVIOUS
<1>1. Stored = {}
  BY DEF SignalsInit, Stored
<1>2. IsFiniteSet(Stored)
  BY <1>1, FS_EmptySet
<1> QED BY <1>2, ScoresAssumption DEF SignalsInit, SignalsInv, SignalsTypeOK

LEMMA NextKeepsSignals ==
  ASSUME SignalsInv, [SignalsNext]_signalsVars
  PROVE  SignalsInv'
<1>1. ASSUME NEW e \in EventIds, NEW row \in Inputs, InsertEvent(e, row) \/ UpsertEvent(e, row)
      PROVE  SignalsInv'
  <2>1. events' = [events EXCEPT ![e] = row] /\ points' = points /\ row \in Rows
    BY <1>1, InputsAssumption DEF InsertEvent, UpsertEvent
  <2> HIDE DEF Rows
  <2>2. SignalsTypeOK'
    BY <2>1 DEF SignalsInv, SignalsTypeOK
  <2>3. Stored' \subseteq Stored \cup {e}
    BY <2>1 DEF SignalsInv, SignalsTypeOK, Stored
  <2>4. IsFiniteSet(Stored \cup {e})
    BY FS_AddElement DEF SignalsInv
  <2> QED BY <2>2, <2>3, <2>4, FS_Subset DEF SignalsInv
<1>2. ASSUME NEW t \in Times, NEW score \in Scores, ScoreArrives([at |-> t, score |-> score])
      PROVE  SignalsInv'
  <2> DEFINE P == [at : Times, score : Scores]  p == [at |-> t, score |-> score]
  <2>1. points \in Seq(P) /\ p \in P
    BY DEF SignalsInv, SignalsTypeOK
  <2>2. points' = Append(points, p) /\ Len(points) < MaxPoints /\ events' = events
    BY <1>2 DEF ScoreArrives
  <2> HIDE DEF P, p
  <2>3. points' \in Seq(P) /\ Len(points') = Len(points) + 1 /\ Len(points) \in Nat
    BY <2>1, <2>2, AppendProperties, LenProperties
  <2>4. SignalsTypeOK'
    BY <2>2, <2>3, ScoresAssumption DEF SignalsInv, SignalsTypeOK, P
  <2> QED BY <2>2, <2>4 DEF SignalsInv, Stored
<1>3. CASE UNCHANGED signalsVars
  BY <1>3 DEF signalsVars, SignalsInv, SignalsTypeOK, Stored
<1> QED BY <1>1, <1>2, <1>3 DEF SignalsNext, EventsNext, TrendNext

THEOREM SignalsInvariant == SignalsSpec => []SignalsInv
<1>1. QED
  BY InitSignals, NextKeepsSignals, PTL DEF SignalsSpec

\* The order of texts is the order of hours, but for an end without a time of
\* day, which comes before the hours of its day.
LEMMA TextsAreInstants ==
  ASSUME NEW a \in Dates, NEW m \in Moments
  PROVE  /\ NotAfter(a, m) <=> Instant(a) <= Instant(m)
         /\ NotAfter(m, a) => Instant(m) <= LastInstant(a)
         /\ m.day < a.day \/ (a.part > 0 /\ Instant(m) <= Instant(a)) => NotAfter(m, a)
<1>1. /\ a.day \in Nat /\ a.part \in 0..24 /\ m.day \in Nat /\ m.part \in 0..24 /\ m.part > 0
  BY DatesAssumption
<1>2. ASSUME NEW n \in 0..24 PROVE Max({0, n - 1}) = IF n = 0 THEN 0 ELSE n - 1
  <2>1. n - 1 \in Int /\ (n = 0 => n - 1 < 0) /\ (n # 0 => 0 <= n - 1)
    OBVIOUS
  <2> DEFINE k == n - 1
  <2>2. Max({0, k}) \in {0, k} /\ \A y \in {0, k} : Max({0, k}) >= y
    <3>1. \E x \in {0, k} : \A y \in {0, k} : x >= y
      BY <2>1
    <3> HIDE DEF k
    <3> QED BY <3>1 DEF Max
  <2> QED BY <2>1, <2>2
<1>3. Max({0, a.part - 1}) = (IF a.part = 0 THEN 0 ELSE a.part - 1)
      /\ Max({0, m.part - 1}) = m.part - 1
  <2>1. Max({0, a.part - 1}) = (IF a.part = 0 THEN 0 ELSE a.part - 1)
    BY <1>1, <1>2
  <2>2. Max({0, m.part - 1}) = (IF m.part = 0 THEN 0 ELSE m.part - 1)
    BY <1>1, <1>2
  <2> QED BY <1>1, <2>1, <2>2
<1> DEFINE ad == a.day  ap == a.part  md == m.day  mp == m.part
<1>4. ad \in Nat /\ ap \in Nat /\ md \in Nat /\ mp \in Nat
  BY <1>1
<1>5. ap <= 24 /\ 0 < mp /\ mp <= 24
  BY <1>1
<1>6. /\ NotAfter(a, m) <=> ad < md \/ (ad = md /\ ap <= mp)
      /\ NotAfter(m, a) <=> md < ad \/ (md = ad /\ mp <= ap)
  BY DEF NotAfter
<1>7. Instant(a) = ad * 24 + (IF ap = 0 THEN 0 ELSE ap - 1)
  BY <1>3 DEF Instant
<1>8. Instant(m) = md * 24 + (mp - 1)
  BY <1>3 DEF Instant
<1>11. LastInstant(a) = IF ap = 0 THEN ad * 24 + 23 ELSE Instant(a)
  BY DEF LastInstant
<1> HIDE DEF ad, ap, md, mp
<1>12. SUFFICES /\ NotAfter(a, m) <=> Instant(a) <= Instant(m)
                /\ NotAfter(m, a) => Instant(m) <= LastInstant(a)
                /\ md < ad \/ (ap > 0 /\ Instant(m) <= Instant(a)) => NotAfter(m, a)
  BY DEF ad, ap, md
<1>9. CASE ap = 0
  <2>1. Instant(a) = ad * 24
    BY <1>4, <1>7, <1>9
  <2> QED BY <1>4, <1>5, <1>6, <1>8, <1>9, <1>11, <2>1
<1>10. CASE ap # 0
  <2>1. Instant(a) = ad * 24 + (ap - 1)
    BY <1>4, <1>7, <1>10
  <2> QED BY <1>4, <1>5, <1>6, <1>8, <1>10, <1>11, <2>1
<1> QED BY <1>9, <1>10

\* A match adds no less than nothing.
LEMMA BoostsAddUp ==
  ASSUME SignalsInv, NEW matched \in SUBSET Stored
  PROVE  /\ EventBoost(matched) \in 100..300
         /\ \A e \in matched : EventBoost(matched \ {e}) <= EventBoost(matched)
<1> DEFINE more == [e \in Stored |-> Max({0, events[e].boost - 100})]
           Extra(S) == SumFunctionOnSet(more, S)
<1>1. ASSUME NEW e \in Stored PROVE more[e] \in Nat
  <2> DEFINE k == events[e].boost - 100
  <2>1. k \in Int
    <3>1. events[e] \in Rows
      BY DEF SignalsInv, SignalsTypeOK, Stored
    <3>2. events[e].boost \in Nat
      BY <3>1, ScoresAssumption DEF Rows
    <3> QED BY <3>2
  <2>2. \E x \in {0, k} : \A y \in {0, k} : x >= y
    BY <2>1
  <2> HIDE DEF k
  <2>3. Max({0, k}) \in {0, k} /\ Max({0, k}) >= 0
    BY <2>2 DEF Max
  <2>4. Max({0, k}) \in Nat
    BY <2>1, <2>3
  <2> QED BY <2>4 DEF k
<1> HIDE DEF more
<1>2. ASSUME NEW S \in SUBSET Stored PROVE IsFiniteSet(S) /\ Extra(S) \in Int
  <2>1. IsFiniteSet(S)
    BY FS_Subset DEF SignalsInv
  <2>2. \A e \in S : more[e] \in Int
    BY <1>1
  <2> QED BY <2>1, <2>2, SumIsInt
<1>3. ASSUME NEW S \in SUBSET Stored, NEW e \in S
      PROVE  Extra(S) = Extra(S \ {e}) + more[e] /\ Extra(S \ {e}) <= Extra(S)
  <2>1. \A x \in S : more[x] \in Int
    BY <1>1
  <2>2. Extra(S) = Extra(S \ {e}) + more[e]
    BY <1>2, <2>1, SumTakes
  <2>3. Extra(S \ {e}) \in Int /\ more[e] \in Nat
    BY <1>1, <1>2
  <2> HIDE DEF Extra
  <2> QED BY <2>2, <2>3
<1>4. ASSUME NEW S \in SUBSET Stored PROVE Extra(S) \in Nat
  <2> DEFINE Odd == {T \in SUBSET S : Extra(T) \notin Nat}
  <2>1. SUFFICES ASSUME Odd # {} PROVE FALSE
    OBVIOUS
  <2>2. PICK T \in Odd : \A x \in T : T \ {x} \notin Odd
    <3>1. \A T \in Odd : IsFiniteSet(T)
      BY <1>2
    <3> HIDE DEF Odd
    <3> QED BY <2>1, <3>1, SmallestSet
  <2>3. CASE T = {}
    <3>1. Extra({}) = 0
      BY SumOfEmpty
    <3> HIDE DEF Extra
    <3> QED BY <2>2, <2>3, <3>1
  <2>4. CASE T # {}
    <3>1. PICK x \in T : TRUE
      BY <2>4
    <3>2. Extra(T \ {x}) \in Nat /\ more[x] \in Nat
      BY <1>1, <2>2, <3>1
    <3>3. Extra(T) = Extra(T \ {x}) + more[x]
      BY <1>3, <2>2, <3>1
    <3> HIDE DEF Extra
    <3> QED BY <2>2, <3>2, <3>3
  <2> QED BY <2>3, <2>4
<1>5. ASSUME NEW n \in Nat
      PROVE  Min({300, 100 + n}) = IF n <= 200 THEN 100 + n ELSE 300
  <2> DEFINE k == 100 + n
  <2>1. k \in Nat /\ k = 100 + n
    OBVIOUS
  <2>2. \E x \in {300, k} : \A y \in {300, k} : x <= y
    BY <2>1
  <2> HIDE DEF k
  <2>3. Min({300, k}) \in {300, k} /\ Min({300, k}) <= 300 /\ Min({300, k}) <= k
    BY <2>2 DEF Min
  <2> QED BY <2>1, <2>3
<1>6. ASSUME NEW S \in SUBSET Stored
      PROVE  EventBoost(S) = IF Extra(S) <= 200 THEN 100 + Extra(S) ELSE 300
  <2>1. EventBoost(S) = Min({300, 100 + Extra(S)})
    BY DEF EventBoost, more
  <2> HIDE DEF Extra
  <2> QED BY <1>4, <1>5, <2>1
<1>7. EventBoost(matched) \in 100..300
  <2> HIDE DEF Extra
  <2> QED BY <1>4, <1>6
<1>8. ASSUME NEW e \in matched PROVE EventBoost(matched \ {e}) <= EventBoost(matched)
  <2>1. matched \ {e} \in SUBSET Stored
    OBVIOUS
  <2> HIDE DEF Extra
  <2> QED BY <1>3, <1>4, <1>6, <2>1
<1> QED BY <1>7, <1>8

\* Events are on from their first day to their last, and what they are worth
\* together is bounded and falls with none of them (get_active_events and
\* compute_event_boost).
THEOREM EventsKept == SignalsSpec => []EventsKeepToTheirDays
<1>1. ASSUME SignalsInv PROVE EventsKeepToTheirDays
  <2>1. SUFFICES ASSUME NEW e \in Stored, NEW m \in Moments
                 PROVE  /\ e \in ActiveEvents(m) =>
                             /\ Instant(events[e].start) <= Instant(m)
                             /\ Instant(m) <= LastInstant(events[e].end)
                        /\ /\ Instant(events[e].start) <= Instant(m)
                           /\ \/ m.day < events[e].end.day
                              \/ events[e].end.part > 0 /\ Instant(m) <= Instant(events[e].end)
                           => e \in ActiveEvents(m)
                        /\ \A tags, qids \in SUBSET Tags :
                             LET matched == Matching(tags, qids, ActiveEvents(m))
                             IN /\ EventBoost(matched) \in 100..300
                                /\ EventBoost(matched \ {e}) <= EventBoost(matched)
    BY DEF EventsKeepToTheirDays
  <2>2. events[e].start \in Dates /\ events[e].end \in Dates
    BY <1>1 DEF SignalsInv, SignalsTypeOK, Stored, Rows
  <2>3. e \in ActiveEvents(m) <=> NotAfter(events[e].start, m) /\ NotAfter(m, events[e].end)
    BY DEF ActiveEvents
  <2>4. ASSUME NEW tags \in SUBSET Tags, NEW qids \in SUBSET Tags
        PROVE  LET matched == Matching(tags, qids, ActiveEvents(m))
               IN /\ EventBoost(matched) \in 100..300
                  /\ EventBoost(matched \ {e}) <= EventBoost(matched)
    <3> DEFINE matched == Matching(tags, qids, ActiveEvents(m))
    <3>1. matched \in SUBSET Stored
      BY DEF Matching, ActiveEvents
    <3> HIDE DEF matched
    <3>2. EventBoost(matched) \in 100..300
      BY <1>1, <3>1, BoostsAddUp
    <3>3. EventBoost(matched \ {e}) <= EventBoost(matched)
      <4>1. CASE e \in matched
        BY <1>1, <3>1, <4>1, BoostsAddUp
      <4>2. CASE e \notin matched
        <5>1. matched \ {e} = matched
          BY <4>2
        <5>2. EventBoost(matched) \in Int /\ EventBoost(matched) <= EventBoost(matched)
          BY <3>2
        <5> QED BY <5>1, <5>2, Zenon
      <4> QED BY <4>1, <4>2
    <3> QED BY <3>2, <3>3 DEF matched
  <2> QED BY <2>2, <2>3, <2>4, TextsAreInstants
<1>2. QED
  BY <1>1, SignalsInvariant, PTL

ScoreSet == [at : Times, score : Scores]

TimesDiffer(s) == \A i, j \in DOMAIN s : i # j => s[i].at # s[j].at
InTime(s) == \A i, j \in DOMAIN s : i < j => s[i].at < s[j].at

LEMMA ScoresAreNumbers ==
  \A p \in ScoreSet : p.at \in Nat /\ p.score \in Nat
  BY ScoresAssumption DEF ScoreSet

LEMMA SortedInTime ==
  ASSUME NEW s \in Seq(ScoreSet), TimesDiffer(s)
  PROVE  /\ Sorted(s) \in Seq(ScoreSet) /\ Len(Sorted(s)) = Len(s)
         /\ InTime(Sorted(s)) /\ ToSet(Sorted(s)) = ToSet(s)
<1> DEFINE n == Len(s)
           keys == [i \in DOMAIN s |-> s[i].at]
           r == Sorted(s)
<1>1. n \in Nat /\ DOMAIN s = 1..n /\ \A i \in 1..n : s[i] \in ScoreSet
  BY LenProperties, ElementOfSeq
<1>2. keys \in [1..n -> Int] /\ \A i \in 1..n : keys[i] = s[i].at /\ keys[i] \in Nat
  BY <1>1, ScoresAreNumbers
<1>3. r = SortedBy(s, keys)
  BY DEF Sorted
<1> HIDE DEF n, keys, r
<1>4. PICK from \in [1..n -> 1..n] :
         /\ SortedBy(s, keys) = [m \in 1..n |-> s[from[m]]]
         /\ \A m \in 1..n : Place(keys, from[m]) = m
         /\ \A i \in 1..n : from[Place(keys, i)] = i
         /\ \A m, k \in 1..n : m < k => Precedes(keys, from[m], from[k])
  <2>1. n \in Nat /\ keys \in [1..n -> Int] /\ DOMAIN s = 1..n
    BY <1>1, <1>2
  <2> QED BY <2>1, SortedIsPlaced
<1>5. r \in Seq(ScoreSet) /\ Len(r) = n /\ DOMAIN r = 1..n
  <2>1. \A m \in 1..n : s[from[m]] \in ScoreSet
    BY <1>1
  <2>2. r \in [1..n -> ScoreSet]
    BY <1>3, <1>4, <2>1
  <2> QED BY <1>1, <2>2
<1>6. InTime(r)
  <2> SUFFICES ASSUME NEW m \in 1..n, NEW k \in 1..n, m < k
               PROVE  r[m].at < r[k].at
    BY <1>5 DEF InTime
  <2> DEFINE i == from[m]
             j == from[k]
  <2>1. /\ i \in 1..n /\ j \in 1..n /\ Precedes(keys, i, j)
        /\ Place(keys, i) = m /\ Place(keys, j) = k
        /\ r[m] = s[i] /\ r[k] = s[j]
    BY <1>3, <1>4
  <2> HIDE DEF i, j
  <2>2. i # j
    BY <2>1
  <2>3. s[i].at # s[j].at
    BY <1>1, <2>1, <2>2 DEF TimesDiffer
  <2> QED BY <1>2, <2>1, <2>3 DEF Precedes
<1>7. ToSet(r) = ToSet(s)
  <2>1. ASSUME NEW m \in 1..n PROVE \E i \in 1..n : r[m] = s[i]
    BY <1>3, <1>4
  <2>2. ASSUME NEW i \in 1..n PROVE \E m \in 1..n : r[m] = s[i]
    <3> DEFINE m == Place(keys, i)
    <3>1. m \in 1..n /\ from[m] = i
      BY <1>1, <1>2, <1>4, PlacesAreTaken
    <3> HIDE DEF m
    <3>2. r[m] = s[i]
      BY <1>3, <1>4, <3>1
    <3> QED BY <3>1, <3>2
  <2>3. ToSet(r) = {r[m] : m \in 1..n} /\ ToSet(s) = {s[i] : i \in 1..n}
    BY <1>1, <1>5, Zenon DEF ToSet
  <2> QED BY <2>1, <2>2, <2>3
<1> QED BY <1>5, <1>6, <1>7 DEF n, r

\* Of scores in order, a prefix are those that are no later than a time.
LEMMA OlderComeFirst ==
  ASSUME NEW r \in Seq(ScoreSet), InTime(r), NEW t \in Int
  PROVE  /\ AtOrBefore(r, t) \in 0..Len(r)
         /\ \A k \in 1..Len(r) : k <= AtOrBefore(r, t) <=> r[k].at <= t
<1> DEFINE later == {k \in DOMAIN r : r[k].at > t}
<1>1. /\ Len(r) \in Nat /\ DOMAIN r = 1..Len(r)
      /\ \A k \in 1..Len(r) : r[k] \in ScoreSet /\ r[k].at \in Nat
  BY LenProperties, ElementOfSeq, ScoresAreNumbers
<1>2. CASE later = {}
  <2>1. AtOrBefore(r, t) = Len(r)
    BY <1>2 DEF AtOrBefore
  <2> QED BY <1>1, <1>2, <2>1
<1>3. CASE later # {}
  <2> DEFINE first == Min(later)
  <2>1. AtOrBefore(r, t) = first - 1
    BY <1>3 DEF AtOrBefore
  <2>2. first \in later /\ \A k \in later : first <= k
    <3>1. later \subseteq Nat
      BY <1>1
    <3> HIDE DEF later
    <3> QED BY <1>3, <3>1, MinIsLeast
  <2> HIDE DEF first
  <2>3. first \in 1..Len(r) /\ r[first].at > t
    BY <1>1, <2>2
  <2>4. ASSUME NEW k \in 1..Len(r) PROVE k <= first - 1 <=> r[k].at <= t
    <3>1. CASE k < first
      <4>1. k \notin later
        BY <2>2, <2>3, <3>1
      <4> QED BY <1>1, <2>3, <3>1, <4>1
    <3>2. CASE k >= first
      <4>1. r[k].at >= r[first].at
        BY <1>1, <2>3, <3>2 DEF InTime
      <4>2. r[k].at > t /\ ~ (k <= first - 1)
        <5>1. r[k].at \in Nat /\ r[first].at \in Nat /\ r[first].at > t
          BY <1>1, <2>3
        <5>2. first \in Nat /\ k \in Nat
          BY <1>1, <2>3
        <5> QED BY <3>2, <4>1, <5>1, <5>2
      <4> QED BY <1>1, <4>2
    <3> QED BY <2>3, <3>1, <3>2
  <2> QED BY <1>1, <2>1, <2>3, <2>4
<1> QED BY <1>2, <1>3

\* The first and the last of scores in order.
LEMMA EndsOf ==
  ASSUME NEW r \in Seq(ScoreSet), InTime(r), NEW S, S # {},
         NEW i \in 1..Len(r), S = {r[k] : k \in 1..i}
  PROVE  Latest(S) = r[i] /\ Earliest(S) = r[1]
<1>1. /\ Len(r) \in Nat /\ DOMAIN r = 1..Len(r)
      /\ \A k \in 1..Len(r) : r[k] \in ScoreSet /\ r[k].at \in Nat
  BY LenProperties, ElementOfSeq, ScoresAreNumbers
<1>2. \A k \in 1..i :
        k \in 1..Len(r) /\ (k # i => r[k].at < r[i].at) /\ (k # 1 => r[1].at < r[k].at)
  BY <1>1 DEF InTime
<1>3. r[i] \in S /\ r[1] \in S
  OBVIOUS
<1>4. \A q \in S : q.at <= r[i].at /\ r[1].at <= q.at
  BY <1>1, <1>2
<1>5. \A p \in S : (r[i].at <= p.at => p = r[i]) /\ (p.at <= r[1].at => p = r[1])
  <2> SUFFICES ASSUME NEW k \in 1..i
               PROVE  (r[i].at <= r[k].at => r[k] = r[i]) /\ (r[k].at <= r[1].at => r[k] = r[1])
    OBVIOUS
  <2>1. /\ r[i].at \in Nat /\ r[k].at \in Nat /\ r[1].at \in Nat
        /\ (k # i => r[k].at < r[i].at) /\ (k # 1 => r[1].at < r[k].at)
    BY <1>1, <1>2
  <2> QED BY <2>1
<1>6. Latest(S) = r[i]
  BY <1>3, <1>4, <1>5 DEF Latest
<1>7. Earliest(S) = r[1]
  BY <1>3, <1>4, <1>5 DEF Earliest
<1> QED BY <1>6, <1>7

\* The first scores of some that are in order.
LEMMA PrefixInTime ==
  ASSUME NEW r \in Seq(ScoreSet), InTime(r), NEW m \in 0..Len(r)
  PROVE  /\ SubSeq(r, 1, m) \in Seq(ScoreSet) /\ Len(SubSeq(r, 1, m)) = m
         /\ InTime(SubSeq(r, 1, m)) /\ \A k \in 1..m : SubSeq(r, 1, m)[k] = r[k]
<1>1. Len(r) \in Nat /\ DOMAIN r = 1..Len(r) /\ \A k \in 1..Len(r) : r[k] \in ScoreSet
  BY LenProperties, ElementOfSeq
<1> DEFINE f == SubSeq(r, 1, m)
<1>2. m \in Nat /\ \A k \in 1..m : k \in 1..Len(r)
  BY <1>1
<1>3. f \in Seq(ScoreSet) /\ Len(f) = m /\ \A k \in 1..m : f[k] = r[k]
  BY <1>1, <1>2, SubSeqProperties
<1> HIDE DEF f
<1>4. DOMAIN f = 1..m
  BY <1>3, LenProperties
<1>5. InTime(f)
  <2> SUFFICES ASSUME NEW i \in 1..m, NEW j \in 1..m, i < j
               PROVE  f[i].at < f[j].at
    BY <1>4 DEF InTime
  <2> QED BY <1>1, <1>2, <1>3 DEF InTime
<1> QED BY <1>3, <1>5 DEF f

\* Scores in order, but for the last.
LEMMA FrontInTime ==
  ASSUME NEW r \in Seq(ScoreSet), InTime(r), Len(r) >= 1
  PROVE  /\ Front(r) \in Seq(ScoreSet) /\ Len(Front(r)) = Len(r) - 1 /\ InTime(Front(r))
         /\ \A k \in 1..(Len(r) - 1) : Front(r)[k] = r[k]
<1> DEFINE m == Len(r) - 1
<1>1. m \in 0..Len(r)
  BY LenProperties
<1>2. Front(r) = SubSeq(r, 1, m)
  BY DEF Front
<1> HIDE DEF m
<1> QED BY <1>1, <1>2, PrefixInTime DEF m

\* As many scores as times.
LEMMA TimesCount ==
  ASSUME NEW s \in Seq(ScoreSet), TimesDiffer(s)
  PROVE  Cardinality(ToSet(s)) = Len(s)
<1>1. Len(s) \in Nat /\ DOMAIN s = 1..Len(s)
  BY LenProperties
<1>2. s \in Bijection(1..Len(s), ToSet(s))
  BY <1>1 DEF TimesDiffer, ToSet, Bijection, Injection, Surjection, IsInjective
<1>3. ExistsBijection(1..Len(s), ToSet(s))
  BY <1>2 DEF ExistsBijection
<1>4. IsFiniteSet(1..Len(s)) /\ Cardinality(1..Len(s)) = Len(s)
  BY <1>1, FS_Interval
<1> QED BY <1>3, <1>4, FS_Bijection

\* The score a velocity is measured from.
Past(r) ==
  LET i == AtOrBefore(Front(r), Last(r).at - Day)
  IN  r[IF i = 0 THEN 1 ELSE i].score

LEMMA VelocityInOrder ==
  ASSUME NEW r \in Seq(ScoreSet), InTime(r), Len(r) >= 2
  PROVE  /\ Past(r) \in Nat /\ Last(r).score \in Nat
         /\ Cardinality(ToSet(r)) >= 2
         /\ VelocityOf(ToSet(r)) =
              IF Past(r) = 0 THEN <<0, 1>> ELSE <<Last(r).score - Past(r), Past(r)>>
<1> DEFINE n == Len(r)
           top == r[n]
           t == top.at - Day
           i == AtOrBefore(Front(r), t)
           older == {p \in ToSet(r) : p.at <= t} \ {top}
<1>1. /\ n \in Nat /\ n >= 2 /\ DOMAIN r = 1..n
      /\ \A k \in 1..n : r[k] \in ScoreSet /\ r[k].at \in Nat /\ r[k].score \in Nat
  BY LenProperties, ElementOfSeq, ScoresAreNumbers
<1>2. t \in Int
  BY <1>1, ScoresAssumption
<1>3. top = Last(r) /\ ToSet(r) = {r[k] : k \in 1..n}
  BY <1>1, Zenon DEF Last, ToSet
<1> HIDE DEF n, t
<1>4. i \in 0..(n - 1) /\ \A k \in 1..(n - 1) : k <= i <=> r[k].at <= t
  <2> DEFINE f == Front(r)
  <2>1. /\ f \in Seq(ScoreSet) /\ InTime(f) /\ Len(f) = n - 1
        /\ \A k \in 1..(n - 1) : f[k] = r[k]
    <3>1. Len(r) >= 1 /\ n = Len(r)
      BY <1>1 DEF n
    <3> HIDE DEF f
    <3> QED BY <3>1, FrontInTime DEF f
  <2> HIDE DEF f
  <2> DEFINE a == AtOrBefore(f, t)
  <2>2. a \in 0..Len(f) /\ \A k \in 1..Len(f) : k <= a <=> f[k].at <= t
    BY <1>2, <2>1, OlderComeFirst
  <2>3. i = a
    BY DEF f
  <2>4. Len(f) = n - 1 /\ \A k \in 1..(n - 1) : f[k] = r[k]
    BY <2>1
  <2> HIDE DEF a, i
  <2> QED BY <2>2, <2>3, <2>4
<1>5. Past(r) = r[IF i = 0 THEN 1 ELSE i].score
  BY <1>3 DEF Past, t
<1> HIDE DEF i
<1>6. older = {r[k] : k \in 1..i}
  <2>1. ASSUME NEW k \in 1..n PROVE r[k] = top <=> k = n
    BY <1>1 DEF InTime
  <2>2. ASSUME NEW k \in 1..n PROVE r[k] \in older <=> k \in 1..i
    <3>1. CASE k = n
      BY <1>1, <1>4, <3>1
    <3>2. CASE k # n
      <4>1. k \in 1..(n - 1) /\ r[k] # top
        BY <1>1, <2>1, <3>2
      <4>2. r[k] \in older <=> r[k].at <= t
        BY <1>3, <4>1
      <4>3. k \in 1..i <=> k <= i
        BY <1>4, <4>1
      <4> QED BY <1>4, <4>1, <4>2, <4>3
    <3> QED BY <3>1, <3>2
  <2>3. older \subseteq {r[k] : k \in 1..n}
    BY <1>3
  <2>4. \A k \in 1..i : k \in 1..n
    BY <1>1, <1>4
  <2> HIDE DEF older
  <2> QED BY <2>2, <2>3, <2>4
<1>7. Latest(ToSet(r)) = top /\ Earliest(ToSet(r)) = r[1]
  <2>1. n \in 1..Len(r) /\ ToSet(r) # {}
    BY <1>1, <1>3 DEF n
  <2> QED BY <1>3, <2>1, EndsOf
<1>8. CASE i = 0
  <2>1. older = {}
    BY <1>6, <1>8
  <2>2. Past(r) = Earliest(ToSet(r)).score
    BY <1>5, <1>7, <1>8
  <2>3. Cardinality(ToSet(r)) >= 2
    <3>1. TimesDiffer(r)
      BY <1>1 DEF TimesDiffer, InTime
    <3> QED BY <1>1, <3>1, TimesCount DEF n
  <2> HIDE DEF older
  <2>4. VelocityOf(ToSet(r)) =
          IF Cardinality(ToSet(r)) < 2 \/ Past(r) = 0 THEN <<0, 1>>
          ELSE <<top.score - Past(r), Past(r)>>
    <3>1. older = {p \in ToSet(r) : p.at <= Latest(ToSet(r)).at - Day} \ {Latest(ToSet(r))}
      BY <1>7 DEF older, t
    <3> QED BY <1>7, <2>1, <2>2, <3>1 DEF VelocityOf
  <2>5. Past(r) \in Nat
    BY <1>1, <1>5, <1>8
  <2>6. Cardinality(ToSet(r)) \in Nat
    <3>1. TimesDiffer(r)
      BY <1>1 DEF TimesDiffer, InTime
    <3> QED BY <1>1, <3>1, TimesCount DEF n
  <2> QED BY <1>1, <1>3, <2>3, <2>4, <2>5, <2>6
<1>9. CASE i # 0
  <2>1. i \in 1..Len(r) /\ i \in 1..i /\ older # {}
    BY <1>1, <1>4, <1>6, <1>9 DEF n
  <2>2. Latest(older) = r[i]
    <3> HIDE DEF older
    <3> QED BY <1>6, <2>1, EndsOf
  <2>3. Past(r) = Latest(older).score
    BY <1>5, <1>9, <2>2
  <2>4. Cardinality(ToSet(r)) \in Nat /\ Cardinality(ToSet(r)) >= 2
    <3>1. TimesDiffer(r)
      BY <1>1 DEF TimesDiffer, InTime
    <3> QED BY <1>1, <3>1, TimesCount DEF n
  <2>5. older = {p \in ToSet(r) : p.at <= Latest(ToSet(r)).at - Day} \ {Latest(ToSet(r))}
    BY <1>7 DEF t
  <2> HIDE DEF older
  <2>6. VelocityOf(ToSet(r)) =
          IF Cardinality(ToSet(r)) < 2 \/ Past(r) = 0 THEN <<0, 1>>
          ELSE <<top.score - Past(r), Past(r)>>
    BY <1>7, <2>1, <2>3, <2>5 DEF VelocityOf
  <2>7. Past(r) \in Nat
    BY <1>1, <1>5, <1>9, <2>1 DEF n
  <2> QED BY <1>1, <1>3, <2>4, <2>6, <2>7
<1> QED BY <1>8, <1>9

Fractions == Int \X (Nat \ {0})

\* The velocity of scores is the velocity of their set.
LEMMA VelocityIs ==
  ASSUME NEW s \in Seq(ScoreSet), TimesDiffer(s)
  PROVE  Velocity(s) = VelocityOf(ToSet(s)) /\ Velocity(s) \in Fractions
<1>1. Len(s) \in Nat /\ Cardinality(ToSet(s)) = Len(s)
  BY LenProperties, TimesCount
<1>2. CASE Len(s) < 2
  BY <1>1, <1>2 DEF Velocity, VelocityOf, Fractions
<1>3. CASE Len(s) >= 2
  <2> DEFINE r == Sorted(s)
  <2>1. r \in Seq(ScoreSet) /\ Len(r) >= 2 /\ InTime(r) /\ ToSet(r) = ToSet(s)
    BY <1>3, SortedInTime
  <2>2. Velocity(s) = IF Past(r) = 0 THEN <<0, 1>> ELSE <<Last(r).score - Past(r), Past(r)>>
    BY <1>1, <1>3 DEF Velocity, Past
  <2> HIDE DEF r
  <2>3. /\ Past(r) \in Nat /\ Last(r).score \in Nat
        /\ VelocityOf(ToSet(r)) =
             IF Past(r) = 0 THEN <<0, 1>> ELSE <<Last(r).score - Past(r), Past(r)>>
    BY <2>1, VelocityInOrder
  <2>4. Velocity(s) \in Fractions
    <3> DEFINE x == Last(r).score
               y == Past(r)
    <3>1. x \in Nat /\ y \in Nat /\ Velocity(s) = IF y = 0 THEN <<0, 1>> ELSE <<x - y, y>>
      BY <2>2, <2>3
    <3> HIDE DEF x, y
    <3> QED BY <3>1 DEF Fractions
  <2> QED BY <2>1, <2>2, <2>3, <2>4
<1> QED BY <1>1, <1>2, <1>3

LEMMA InTimeDiffers ==
  ASSUME NEW r \in Seq(ScoreSet), InTime(r)
  PROVE  TimesDiffer(r)
<1>1. /\ Len(r) \in Nat /\ DOMAIN r = 1..Len(r)
      /\ \A k \in 1..Len(r) : r[k].at \in Nat
  BY LenProperties, ElementOfSeq, ScoresAreNumbers
<1> QED BY <1>1 DEF TimesDiffer, InTime

\* The acceleration is the change from the velocity there was before the
\* window that ends with the latest score.
LEMMA AccelerationIs ==
  ASSUME NEW s \in Seq(ScoreSet), TimesDiffer(s), Len(s) >= 3
  PROVE  /\ Acceleration(s) = Minus(Velocity(s), VelocityOf(Early(ToSet(s))))
         /\ VelocityOf(Early(ToSet(s))) \in Fractions
<1> DEFINE r == Sorted(s)
           n == Len(r)
           t == Last(r).at - Window
           upto == AtOrBefore(r, t)
           f == SubSeq(r, 1, upto)
<1>1. /\ r \in Seq(ScoreSet) /\ n = Len(s) /\ n \in Nat /\ n >= 3 /\ InTime(r)
      /\ ToSet(r) = ToSet(s)
  BY SortedInTime, LenProperties
<1>2. Acceleration(s) = Minus(Velocity(r), IF Len(f) >= 2 THEN Velocity(f) ELSE <<0, 1>>)
  <2>1. ~ (Len(s) < 3)
    BY <1>1
  <2> QED BY <2>1, Zenon DEF Acceleration
<1> HIDE DEF r
<1>3. /\ DOMAIN r = 1..n /\ n \in 1..n
      /\ \A k \in 1..n : r[k] \in ScoreSet /\ r[k].at \in Nat
      /\ ToSet(r) = {r[k] : k \in 1..n}
  <2>1. DOMAIN r = 1..n /\ \A k \in 1..n : r[k] \in ScoreSet /\ r[k].at \in Nat
    BY <1>1, LenProperties, ElementOfSeq, ScoresAreNumbers
  <2>2. n \in 1..n
    BY <1>1
  <2> QED BY <2>1, <2>2 DEF ToSet
<1>4. t \in Int /\ t = r[n].at - Window
  BY <1>3, ScoresAssumption DEF Last
<1>5. upto \in 0..n /\ \A k \in 1..n : k <= upto <=> r[k].at <= t
  <2> HIDE DEF t
  <2> QED BY <1>1, <1>4, OlderComeFirst
<1>6. Latest(ToSet(r)) = r[n]
  <2>1. ToSet(r) # {}
    BY <1>3
  <2> QED BY <1>1, <1>3, <2>1, EndsOf
<1> HIDE DEF t, upto
<1>7. /\ f \in Seq(ScoreSet) /\ Len(f) = upto /\ InTime(f)
      /\ \A k \in 1..upto : f[k] = r[k]
  BY <1>1, <1>5, PrefixInTime
<1> HIDE DEF f
<1>8. ToSet(f) = Early(ToSet(s))
  <2>1. DOMAIN f = 1..upto
    BY <1>7, LenProperties
  <2>2. ToSet(f) = {r[k] : k \in 1..upto}
    BY <1>7, <2>1 DEF ToSet
  <2>3. Early(ToSet(s)) = {p \in ToSet(r) : p.at <= t}
    BY <1>1, <1>4, <1>6 DEF Early
  <2>4. \A k \in 1..n : k \in 1..upto <=> r[k].at <= t
    <3>1. \A k \in 1..n : k \in 1..upto <=> k <= upto
      BY <1>1, <1>5
    <3> QED BY <1>5, <3>1
  <2>5. \A k \in 1..upto : k \in 1..n
    BY <1>1, <1>5
  <2> QED BY <1>3, <2>2, <2>3, <2>4, <2>5
<1>9. Velocity(r) = VelocityOf(ToSet(r)) /\ Velocity(s) = VelocityOf(ToSet(s))
  BY <1>1, InTimeDiffers, VelocityIs
<1>10. Velocity(f) = VelocityOf(ToSet(f)) /\ Velocity(f) \in Fractions
  BY <1>7, InTimeDiffers, VelocityIs
<1>11. ~ (Len(f) >= 2) => Velocity(f) = <<0, 1>>
  <2>1. Len(f) \in Nat
    BY <1>7, LenProperties
  <2>2. ~ (Len(f) >= 2) => Len(f) < 2
    BY <2>1
  <2> QED BY <2>2 DEF Velocity
<1>12. Acceleration(s) = Minus(Velocity(r), Velocity(f))
  BY <1>2, <1>11
<1> QED BY <1>1, <1>8, <1>9, <1>10, <1>12

LEMMA MinusIsFraction ==
  ASSUME NEW x \in Fractions, NEW y \in Fractions
  PROVE  Minus(x, y) \in Fractions
<1> DEFINE a == x[1]
           b == x[2]
           c == y[1]
           d == y[2]
<1>1. a \in Int /\ b \in Nat /\ b > 0 /\ c \in Int /\ d \in Nat /\ d > 0
  BY DEF Fractions
<1>2. Minus(x, y) = <<a * d - c * b, b * d>>
  BY DEF Minus
<1> HIDE DEF a, b, c, d
<1>3. a * d - c * b \in Int /\ b * d \in Nat /\ b * d # 0
  BY <1>1
<1> QED BY <1>2, <1>3 DEF Fractions

\* The order in which scores arrive does not change the trend, the scores of
\* the acceleration window do not count for the velocity before it, and the
\* trend is called what it is (trend_detector.py:55-125).
THEOREM OrderIgnored == SignalsSpec => []TrendIgnoresOrder
<1>1. SignalsInv => TrendIgnoresOrder
  <2> SUFFICES ASSUME SignalsInv, TimesDiffer(points)
               PROVE  LET set   == ToSet(points)
                          v     == Velocity(points)
                          a     == Acceleration(points)
                      IN /\ v = VelocityOf(set)
                         /\ Len(points) >= 3 => a = Minus(v, VelocityOf(Early(set)))
                         /\ ClassifyState(v, a) \in {"viral", "rising"} => v[1] > 0
                         /\ ClassifyState(v, a) = "falling" => v[1] < 0
                         /\ OptimalWindow(v, a) => v[1] > 0 /\ a[1] > 0
    BY DEF TrendIgnoresOrder, TimesDiffer
  <2> DEFINE v == Velocity(points)
             a == Acceleration(points)
  <2>1. points \in Seq(ScoreSet) /\ Len(points) \in Nat
    BY LenProperties DEF SignalsInv, SignalsTypeOK, ScoreSet
  <2>2. v = VelocityOf(ToSet(points)) /\ v \in Fractions
    BY <2>1, VelocityIs
  <2>3. ASSUME Len(points) >= 3
        PROVE  /\ a = Minus(v, VelocityOf(Early(ToSet(points))))
               /\ VelocityOf(Early(ToSet(points))) \in Fractions
    BY <2>1, <2>3, AccelerationIs
  <2>4. a \in Fractions
    <3>1. CASE Len(points) >= 3
      <4> HIDE DEF v, a
      <4> QED BY <2>2, <2>3, <3>1, MinusIsFraction
    <3>2. CASE Len(points) < 3
      BY <3>2 DEF Acceleration, Fractions
    <3> QED BY <2>1, <3>1, <3>2
  <2>5. v[1] \in Int /\ v[2] \in Nat \ {0} /\ a[1] \in Int /\ a[2] \in Nat \ {0}
    <3> HIDE DEF v, a
    <3> QED BY <2>2, <2>4 DEF Fractions
  <2> HIDE DEF v, a
  <2>7. /\ ClassifyState(v, a) \in {"viral", "rising"} => v[1] > 0
        /\ ClassifyState(v, a) = "falling" => v[1] < 0
        /\ OptimalWindow(v, a) => v[1] > 0 /\ a[1] > 0
    BY <2>5 DEF ClassifyState, OptimalWindow, Above, Below
  <2> QED BY <2>2, <2>3, <2>7 DEF v, a
<1> QED BY <1>1, SignalsInvariant, PTL

\* What is published of signals is what the rows say, whatever order they are
\* read in (the trend detector and the event calendar).
THEOREM SignalsSound == SignalsSpec => []SignalsAreSound
BY EventsKept, OrderIgnored, PTL DEF SignalsAreSound

-----------------------------------------------------------------------------
(* Feedback.                                                               *)

\* Of the labels recorded for a post one has most hours, however many there are.
SomeAreLatest ==
  \A p \in Posts : DOMAIN raw[p] # {} =>
    \E l \in DOMAIN raw[p] : \A m \in DOMAIN raw[p] : Hours[l] >= Hours[m]

FeedbackInv == FeedbackTypeOK /\ SomeAreLatest

LEMMA ClampInRange ==
  ASSUME NEW x \in Int, NEW low \in Int, NEW high \in Int, low <= high
  PROVE  Clamp(x, low, high) \in low..high
<1>1. ASSUME NEW a \in Int, NEW b \in Int
      PROVE  /\ Min({a, b}) = IF a <= b THEN a ELSE b
             /\ Max({a, b}) = IF a <= b THEN b ELSE a
  BY DEF Min, Max
<1>2. Min({high, x}) \in Int /\ Min({high, x}) <= high
  BY <1>1
<1> QED BY <1>1, <1>2 DEF Clamp

LEMMA InitFeedback == FeedbackInit => FeedbackInv
<1>1. ASSUME FeedbackInit, NEW p \in Posts
      PROVE  raw[p] \in [{} -> Revenues] /\ DOMAIN raw[p] = {}
  BY <1>1 DEF FeedbackInit
<1>2. FeedbackInit => raw = [p \in Posts |-> raw[p]]
  BY DEF FeedbackInit
<1>3. FeedbackInit => raw \in [Posts -> UNION {[D -> Revenues] : D \in SUBSET Labels}]
  BY <1>1, <1>2
<1> QED BY <1>1, <1>3 DEF FeedbackInit, FeedbackInv, FeedbackTypeOK, SomeAreLatest

\* What an observation does to the table of a post.
LEMMA RecordedRaw ==
  ASSUME FeedbackTypeOK, NEW p \in Posts, NEW l \in Labels, NEW revenue \in Revenues,
         RecordRaw(p, l, revenue)
  PROVE  /\ raw' \in [Posts -> UNION {[D -> Revenues] : D \in SUBSET Labels}]
         /\ DOMAIN raw'[p] = DOMAIN raw[p] \cup {l}
         /\ raw'[p][l] = revenue
         /\ \A m \in DOMAIN raw[p] \ {l} : raw'[p][m] = raw[p][m]
         /\ \A q \in Posts \ {p} : raw'[q] = raw[q]
<1> DEFINE new == [m \in DOMAIN raw[p] \cup {l} |-> IF m = l THEN revenue ELSE raw[p][m]]
<1>1. PICK D \in SUBSET Labels : raw[p] \in [D -> Revenues]
  BY DEF FeedbackTypeOK
<1>2. new \in [D \cup {l} -> Revenues] /\ D \cup {l} \in SUBSET Labels
  BY <1>1
<1>3. raw' = [raw EXCEPT ![p] = new] /\ p \in DOMAIN raw
  BY DEF RecordRaw, FeedbackTypeOK
<1>4. new \in UNION {[E -> Revenues] : E \in SUBSET Labels}
  BY <1>2
<1>5. raw' \in [Posts -> UNION {[E -> Revenues] : E \in SUBSET Labels}]
  <2> HIDE DEF new
  <2> QED BY <1>3, <1>4 DEF FeedbackTypeOK
<1>6. raw'[p] = new /\ \A q \in Posts \ {p} : raw'[q] = raw[q]
  <2> HIDE DEF new
  <2> QED BY <1>3 DEF FeedbackTypeOK
<1>7. DOMAIN new = DOMAIN raw[p] \cup {l} /\ new[l] = revenue
      /\ \A m \in DOMAIN raw[p] \ {l} : new[m] = raw[p][m]
  OBVIOUS
<1> HIDE DEF new
<1> QED BY <1>5, <1>6, <1>7

LEMMA LabelsRecorded ==
  ASSUME FeedbackTypeOK, NEW p \in Posts
  PROVE  DOMAIN raw[p] \subseteq Labels
<1>1. PICK D \in SUBSET Labels : raw[p] \in [D -> Revenues]
  BY DEF FeedbackTypeOK
<1> QED BY <1>1

LEMMA NextKeepsFeedback ==
  ASSUME FeedbackInv, [FeedbackNext]_feedbackVars
  PROVE  FeedbackInv'
<1>1. ASSUME NEW p \in Posts, NEW l \in Labels, NEW revenue \in Revenues,
             RecordRaw(p, l, revenue)
      PROVE  FeedbackInv'
  <2>1. FeedbackTypeOK'
    <3>1. raw' \in [Posts -> UNION {[D -> Revenues] : D \in SUBSET Labels}]
      BY <1>1, RecordedRaw DEF FeedbackInv
    <3>2. weights' = weights /\ updated' = updated
      BY <1>1 DEF RecordRaw
    <3> QED BY <3>1, <3>2 DEF FeedbackInv, FeedbackTypeOK
  <2>2. ASSUME NEW q \in Posts, DOMAIN raw'[q] # {}
        PROVE  \E k \in DOMAIN raw'[q] : \A m \in DOMAIN raw'[q] : Hours[k] >= Hours[m]
    <3>1. CASE q # p
      BY <1>1, <2>2, <3>1, RecordedRaw DEF FeedbackInv, SomeAreLatest
    <3>2. CASE q = p
      <4>1. DOMAIN raw'[p] = DOMAIN raw[p] \cup {l} /\ DOMAIN raw[p] \subseteq Labels
        BY <1>1, RecordedRaw, LabelsRecorded DEF FeedbackInv
      <4>2. \A m \in Labels : Hours[m] \in Int
        BY LabelsAssumption DEF NoHours
      <4>3. CASE DOMAIN raw[p] = {}
        BY <3>2, <4>1, <4>2, <4>3
      <4>4. CASE DOMAIN raw[p] # {}
        <5>1. PICK k \in DOMAIN raw[p] : \A m \in DOMAIN raw[p] : Hours[k] >= Hours[m]
          BY <4>4 DEF FeedbackInv, SomeAreLatest
        <5>2. CASE Hours[k] >= Hours[l]
          BY <3>2, <4>1, <5>1, <5>2
        <5>3. CASE ~ (Hours[k] >= Hours[l])
          BY <3>2, <4>1, <4>2, <5>1, <5>3
        <5> QED BY <5>2, <5>3
      <4> QED BY <4>3, <4>4
    <3> QED BY <3>1, <3>2
  <2> QED BY <2>1, <2>2 DEF FeedbackInv, SomeAreLatest
<1>2. ASSUME NEW c \in Components, NEW error \in Errors, NEW gradient \in Gradients,
             Update(c, error, gradient)
      PROVE  FeedbackInv'
  <2> DEFINE to == weights[c] + error * Clamp(gradient, -GradClip, GradClip)
  <2>1. to \in Int
    <3>1. gradient \in Int /\ -GradClip \in Int /\ GradClip \in Int /\ -GradClip <= GradClip
      BY WeightsAssumption
    <3>2. Clamp(gradient, -GradClip, GradClip) \in Int
      BY <3>1, ClampInRange
    <3>3. error \in Int
      BY WeightsAssumption
    <3>4. weights[c] \in Int
      <4>1. weights[c] \in InitialWeights \/ weights[c] \in WMin..WMax
        BY DEF FeedbackInv, FeedbackTypeOK
      <4>2. \A x \in WMin..WMax : x \in Int
        BY WeightsAssumption
      <4>3. \A x \in InitialWeights : x \in Int
        BY WeightsAssumption
      <4> QED BY <4>1, <4>2, <4>3
    <3> QED BY <3>2, <3>3, <3>4
  <2>2. Clamp(to, WMin, WMax) \in WMin..WMax
    BY <2>1, ClampInRange, WeightsAssumption
  <2>3. /\ weights' = [weights EXCEPT ![c] = Clamp(to, WMin, WMax)]
        /\ updated' = updated \cup {c} /\ raw' = raw
    BY <1>2 DEF Update
  <2> HIDE DEF to
  <2>4. FeedbackTypeOK'
    BY <2>2, <2>3 DEF FeedbackInv, FeedbackTypeOK
  <2> QED BY <2>3, <2>4 DEF FeedbackInv, SomeAreLatest
<1>3. CASE UNCHANGED feedbackVars
  BY <1>3 DEF feedbackVars, FeedbackInv, FeedbackTypeOK, SomeAreLatest
<1> QED BY <1>1, <1>2, <1>3 DEF FeedbackNext, AttributionNext, WeightsNext

THEOREM FeedbackInvariant == FeedbackSpec => []FeedbackInv
<1>1. QED
  BY InitFeedback, NextKeepsFeedback, PTL DEF FeedbackSpec

HoursOf(p) == {Hours[l] : l \in DOMAIN raw[p]}

LEMMA LatestIsLatest ==
  ASSUME FeedbackInv, NEW p \in Posts, DOMAIN raw[p] # {}
  PROVE  /\ LatestPoint(p) \in DOMAIN raw[p]
         /\ \A m \in DOMAIN raw[p] : Hours[LatestPoint(p)] >= Hours[m]
  BY DEF FeedbackInv, SomeAreLatest, LatestPoint

\* What is projected from the latest checkpoint is what the run of that
\* checkpoint projects.
LEMMA LatestIsRun ==
  ASSUME FeedbackInv, NEW p \in Posts, DOMAIN raw[p] # {}, NoHours \notin HoursOf(p),
         LatestPoint(p) \in Checkpoints
  PROVE  AggregateTotal(p) = RunAttribution(p, Max(HoursOf(p)))
<1> DEFINE newest == LatestPoint(p)
<1>1. newest \in DOMAIN raw[p] /\ \A m \in DOMAIN raw[p] : Hours[newest] >= Hours[m]
  BY LatestIsLatest
<1>2. \A m \in DOMAIN raw[p] : Hours[m] \in Int
  BY LabelsRecorded, LabelsAssumption DEF FeedbackInv, NoHours
<1> HIDE DEF newest
<1>3. Max(HoursOf(p)) = Hours[newest]
  <2>1. Hours[newest] \in HoursOf(p) /\ \A h \in HoursOf(p) : h \in Int /\ Hours[newest] >= h
    BY <1>1, <1>2 DEF HoursOf
  <2>2. Max(HoursOf(p)) \in HoursOf(p) /\ \A h \in HoursOf(p) : Max(HoursOf(p)) >= h
    BY <2>1 DEF Max
  <2> QED BY <2>1, <2>2
<1>4. PointsForHours(Hours[newest]) = {newest}
  BY LabelsAssumption DEF PointsForHours, newest
<1>5. RunAttribution(p, Hours[newest]) = Projected(raw[p][newest], newest)
  BY <1>1, <1>4 DEF RunAttribution
<1>6. AggregateTotal(p) = Projected(raw[p][newest], newest)
  BY DEF AggregateTotal, HoursOf, newest
<1> QED BY <1>3, <1>5, <1>6

\* An observation at a label that is not newest leaves the estimate.
LEMMA LateChangesNothing ==
  ASSUME FeedbackInv, NEW p \in Posts, NEW l \in Labels, NEW revenue \in Revenues,
         RecordRaw(p, l, revenue), Hours[l] # NoHours,
         NEW k \in DOMAIN raw[p], ~ (Hours[l] >= Hours[k])
  PROVE  AggregateTotal(p)' = AggregateTotal(p)
<1> DEFINE D == DOMAIN raw[p]
<1>1. /\ DOMAIN raw'[p] = D \cup {l} /\ D \subseteq Labels
      /\ \A m \in D \ {l} : raw'[p][m] = raw[p][m]
  BY RecordedRaw, LabelsRecorded DEF FeedbackInv
<1>2. \A m \in Labels : Hours[m] \in Int
  BY LabelsAssumption DEF NoHours
<1>3. (\E m \in D : Hours[m] = NoHours) <=> (\E m \in D \cup {l} : Hours[m] = NoHours)
  OBVIOUS
<1>4. /\ LatestPoint(p) \in D /\ \A m \in D : Hours[LatestPoint(p)] >= Hours[m]
  BY LatestIsLatest
<1>5. \A x : (x \in D /\ \A m \in D : Hours[x] >= Hours[m])
             <=> (x \in D \cup {l} /\ \A m \in D \cup {l} : Hours[x] >= Hours[m])
  <2>1. ASSUME NEW x, x \in D, \A m \in D : Hours[x] >= Hours[m]
        PROVE  Hours[x] >= Hours[l]
    <3>1. Hours[x] >= Hours[k] /\ Hours[x] \in Int /\ Hours[k] \in Int /\ Hours[l] \in Int
      BY <1>1, <1>2, <2>1
    <3> QED BY <3>1
  <2>2. ASSUME \A m \in D \cup {l} : Hours[l] >= Hours[m] PROVE FALSE
    BY <2>2
  <2> QED BY <2>1, <2>2
<1>6. LatestPoint(p)' = LatestPoint(p)
  BY <1>1, <1>5 DEF LatestPoint
<1>7. LatestPoint(p) # l
  BY <1>4
<1>8. raw'[p][LatestPoint(p)] = raw[p][LatestPoint(p)]
  BY <1>1, <1>4, <1>7
<1> QED BY <1>1, <1>3, <1>6, <1>8 DEF AggregateTotal

\* Observations that come late or again leave the estimate as it is, and one
\* that cannot be read takes it away for good (record_raw and
\* aggregate_total).
THEOREM EstimateStaysLatest == FeedbackSpec => EstimateIsLatest
<1> DEFINE old(p) == {Hours[l] : l \in DOMAIN raw[p]}
           new(p) == {Hours[l] : l \in {l \in DOMAIN raw'[p] :
                                   l \notin DOMAIN raw[p] \/ raw[p][l] # raw'[p][l]}}
           Lasts(p) == NoHours \in old(p) => AggregateTotal(p)' = Raises
           Moves(p) == AggregateTotal(p)' # AggregateTotal(p) =>
                         NoHours \in new(p) \/ \E h \in new(p) : \A g \in old(p) : h >= g
           Agrees(p) == old(p) # {} /\ NoHours \notin old(p) /\ LatestPoint(p) \in Checkpoints =>
                          AggregateTotal(p) = RunAttribution(p, Max(old(p)))
<1>1. ASSUME FeedbackInv, NEW p \in Posts PROVE Agrees(p)
  <2>1. old(p) = HoursOf(p) /\ (old(p) # {} => DOMAIN raw[p] # {})
    BY DEF HoursOf
  <2> QED BY <1>1, <2>1, LatestIsRun
<1>2. ASSUME FeedbackInv, NEW q \in Posts, NEW l \in Labels, NEW revenue \in Revenues,
             RecordRaw(q, l, revenue), NEW p \in Posts
      PROVE  Lasts(p) /\ Moves(p)
  <2>1. CASE p # q
    <3>1. raw'[p] = raw[p]
      BY <1>2, <2>1, RecordedRaw DEF FeedbackInv
    <3>2. AggregateTotal(p)' = AggregateTotal(p)
      BY <3>1 DEF AggregateTotal, LatestPoint
    <3> QED BY <3>1, <3>2 DEF AggregateTotal
  <2>2. CASE p = q
    <3>1. DOMAIN raw'[p] = DOMAIN raw[p] \cup {l} /\ raw'[p][l] = revenue
          /\ \A m \in DOMAIN raw[p] \ {l} : raw'[p][m] = raw[p][m]
      BY <1>2, <2>2, RecordedRaw DEF FeedbackInv
    <3>2. Lasts(p)
      BY <3>1 DEF AggregateTotal
    <3>3. Moves(p)
      <4>1. SUFFICES ASSUME AggregateTotal(p)' # AggregateTotal(p), NoHours \notin new(p)
                     PROVE  \E h \in new(p) : \A g \in old(p) : h >= g
        OBVIOUS
      <4>2. Hours[l] \in new(p)
        <5>1. SUFFICES ASSUME l \in DOMAIN raw[p], raw[p][l] = raw'[p][l] PROVE FALSE
          BY <3>1
        <5>2. DOMAIN raw'[p] = DOMAIN raw[p] /\ \A m \in DOMAIN raw[p] : raw'[p][m] = raw[p][m]
          BY <3>1, <5>1
        <5>3. LatestPoint(p)' = LatestPoint(p)
          BY <5>2 DEF LatestPoint
        <5>4. DOMAIN raw[p] # {} => LatestPoint(p) \in DOMAIN raw[p]
          BY <1>2, LatestIsLatest
        <5>5. AggregateTotal(p)' = AggregateTotal(p)
          BY <5>2, <5>3, <5>4 DEF AggregateTotal
        <5> QED BY <4>1, <5>5
      <4>3. ASSUME NEW k \in DOMAIN raw[p], ~ (Hours[l] >= Hours[k]) PROVE FALSE
        <5>1. Hours[l] # NoHours
          BY <4>1, <4>2
        <5> QED BY <1>2, <2>2, <4>1, <4>3, <5>1, LateChangesNothing
      <4>4. \A g \in old(p) : Hours[l] >= g
        BY <4>3
      <4> QED BY <4>2, <4>4
    <3> QED BY <3>2, <3>3
  <2> QED BY <2>1, <2>2
<1>3. ASSUME FeedbackInv, NEW c \in Components, NEW error \in Errors, NEW gradient \in Gradients,
             Update(c, error, gradient), NEW p \in Posts
      PROVE  Lasts(p) /\ Moves(p)
  <2>1. raw' = raw
    BY <1>3 DEF Update
  <2>2. AggregateTotal(p)' = AggregateTotal(p)
    BY <2>1 DEF AggregateTotal, LatestPoint
  <2> QED BY <2>2 DEF AggregateTotal
<1>4. ASSUME FeedbackInv, [FeedbackNext]_feedbackVars
      PROVE  (\A p \in Posts : EstimateFollows(p)) \/ UNCHANGED feedbackVars
  <2>1. ASSUME NEW p \in Posts, Lasts(p), Moves(p), Agrees(p) PROVE EstimateFollows(p)
    BY <2>1 DEF EstimateFollows
  <2> HIDE DEF Lasts, Moves, Agrees
  <2> QED BY <1>1, <1>2, <1>3, <1>4, <2>1 DEF FeedbackNext, AttributionNext, WeightsNext
<1>5. QED
  BY <1>4, FeedbackInvariant, PTL DEF FeedbackSpec, EstimateIsLatest

-----------------------------------------------------------------------------
(* All of them side by side.                                               *)

\* A step of the services is a step of one of them, or of half of one, and
\* leaves the others as they are.
LEMMA StepsAreApart ==
  ASSUME [Next]_vars
  PROVE  /\ [WorkersNext]_workersVars /\ [AdapterNext]_adapterVars
         /\ [LimiterNext]_limiterVars /\ [CacheNext]_cacheVars
         /\ [RetryNext]_retryVars /\ [RobotsNext]_robotsVars
         /\ [ExperimentsNext]_experimentsVars /\ [CollectorsNext]_collectorsVars
         /\ [SignalsNext]_signalsVars /\ [FeedbackNext]_feedbackVars
<1>1. CASE RunWorkers
  BY <1>1 DEF RunWorkers, helpersVars, topicsVars
<1>2. CASE RunAdapter
  BY <1>2 DEF RunAdapter, helpersVars, topicsVars
<1>3. CASE RunHelpers
  BY <1>3 DEF RunHelpers, topicsVars
<1>4. CASE RunTopics
  BY <1>4
  DEF RunTopics, RunExperiments, RunCollectors, RunSignals, RunFeedback, helpersVars,
      CollectorsNext, SignalsNext, FeedbackNext
<1>5. CASE UNCHANGED vars
  BY <1>5 DEF vars, helpersVars, topicsVars
<1> QED BY <1>1, <1>2, <1>3, <1>4, <1>5 DEF Next

\* The services side by side are each of them by itself: what is proved of one
\* holds of all.
THEOREM EachByItself ==
  Spec => /\ WorkersSpec /\ AdapterSpec /\ LimiterSpec /\ CacheSpec /\ RetrySpec
          /\ RobotsSpec /\ ExperimentsSpec /\ CollectorsSpec /\ SignalsSpec /\ FeedbackSpec
<1>1. Init => /\ WorkersInit /\ AdapterInit /\ LimiterInit /\ CacheInit /\ RetryInit
              /\ RobotsInit /\ ExperimentsInit /\ CollectorsInit /\ SignalsInit /\ FeedbackInit
  BY DEF Init
<1> QED
  BY <1>1, StepsAreApart, PTL
  DEF Spec, WorkersSpec, AdapterSpec, LimiterSpec, CacheSpec, RetrySpec, RobotsSpec,
      ExperimentsSpec, CollectorsSpec, SignalsSpec, FeedbackSpec

\* The state of every service stays what its variables are meant to hold.
THEOREM ServicesTypes == Spec => []ServicesTypeOK
<1>1. WorkersInv /\ AdapterInv /\ LimiterInv /\ CacheInv /\ RetryInv /\ RobotsInv
        /\ ExperimentsInv /\ UnitsInv /\ TokensInv /\ SignalsInv /\ FeedbackInv
      => ServicesTypeOK
  BY ExperimentsTyped
  DEF WorkersInv, AdapterInv, LimiterInv, CacheInv, RetryInv, RobotsInv, UnitsInv, UnitsTyped,
      TokensInv, RedditTyped, CollectorsTypeOK, SignalsInv, FeedbackInv, ServicesTypeOK
<1> QED
  BY <1>1, EachByItself, WorkersInvariant, AdapterInvariant, LimiterInvariant, CacheInvariant,
     RetryInvariant, RobotsInvariant, ExperimentsInvariant, UnitsInvariant, TokensInvariant,
     SignalsInvariant, FeedbackInvariant, PTL

\* What should have been replaced is read for so long at most, no delay is
\* shorter than one before it, and what a site is judged by is its last answer
\* that could be read (the cache, the retries and robots.txt).
THEOREM HelpersStaySound == Spec => []HelpersAreSound
<1>1. RetryInv => BackoffGrows
  BY DEF RetryInv
<1>2. RobotsInv => LastAnswerCounts
  BY DEF RobotsInv
<1> QED
  BY <1>1, <1>2, EachByItself, OldReadsEndSoon, RetryInvariant, RobotsInvariant, PTL
  DEF HelpersAreSound
=============================================================================
