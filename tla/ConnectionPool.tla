--------------------------- MODULE ConnectionPool ---------------------------
(***************************************************************************)
(* The pool of TCP connections of internal/client/conn_pool.go.  Every      *)
(* operation runs under p.mu from its first line to its last, so each is    *)
(* one action.  Connections are identities that can be dialled again after  *)
(* they were closed.  The idle list is in order of lastUsed, because Put    *)
(* appends and stamps under the mutex: the expired connections are a prefix *)
(* of it, and time passing lengthens the prefix.                            *)
(*                                                                         *)
(* The names carry the prefix "pool" because MCSupport extends this module  *)
(* together with the other supporting components.                           *)
(***************************************************************************)
EXTENDS Integers, FiniteSets, Sequences

CONSTANTS
    PoolConns,   \* the connections that can be open at one time
    PoolMaxSize, \* ConnectionPool.maxSize
    PoolMaxLost  \* bound: connections a borrower closes without putting back

ASSUME PoolAssumption ==
    /\ IsFiniteSet(PoolConns)
    /\ PoolMaxSize \in Nat
    /\ PoolMaxLost \in Nat

VARIABLES
    idleConns,   \* p.idleConns, oldest first
    expired,     \* how many of them have been idle for more than idleTimeout
    activeCount, \* p.activeCount
    lent,        \* connections that a borrower holds
    lost,        \* history: connections that were lent and never came back
    owed         \* history: what Close left out of activeCount

poolVars == <<idleConns, expired, activeCount, lent, lost, owed>>

Idle == {idleConns[i] : i \in DOMAIN idleConns}

PoolInit ==
    /\ idleConns = <<>>
    /\ expired = 0
    /\ activeCount = 0
    /\ lent = {}
    /\ lost = 0
    /\ owed = 0

-----------------------------------------------------------------------------
\* The borrower gets a newly dialled connection, by createConn; the count it
\* raises is what the caller of createConn left of activeCount.
CreateConn(left, kept) ==
    \E c \in PoolConns \ (lent \cup {kept[i] : i \in DOMAIN kept}) :
        /\ lent' = lent \cup {c}
        /\ activeCount' = left + 1

\* The dial failed: nothing is lent and nothing counted.
DialFails(left) ==
    /\ lent' = lent
    /\ activeCount' = left

\* Get takes the idle connection that was put back last.
GetIdle ==
    /\ Len(idleConns) > expired
    /\ idleConns' = SubSeq(idleConns, 1, Len(idleConns) - 1)
    /\ lent' = lent \cup {idleConns[Len(idleConns)]}
    /\ UNCHANGED <<expired, activeCount, lost, owed>>

\* That one has expired, and so have all the others: Get closes it and dials.
GetExpired ==
    /\ Len(idleConns) > 0
    /\ Len(idleConns) = expired
    /\ idleConns' = SubSeq(idleConns, 1, Len(idleConns) - 1)
    /\ expired' = expired - 1
    /\ CreateConn(activeCount - 1, idleConns') \/ DialFails(activeCount - 1)
    /\ UNCHANGED <<lost, owed>>

\* The bug of dialling without a look at the limit.
\* No connection is idle and the limit is not reached: Get dials.  (At the
\* limit Get returns an error and changes nothing; so does a failed dial.)
GetNew ==
    /\ idleConns = <<>>
    /\ activeCount < PoolMaxSize
    /\ CreateConn(activeCount, idleConns)
    /\ UNCHANGED <<idleConns, expired, lost, owed>>

\* Put of a connection that still takes the keep-alive option.
Put(c) ==
    /\ c \in lent
    /\ lent' = lent \ {c}
    /\ idleConns' = Append(idleConns, c)
    /\ UNCHANGED <<expired, activeCount, lost, owed>>

\* The bug of a broken connection that is dropped and stays counted.
PutBrokenKeepsCount(c) ==
    /\ c \in lent
    /\ lent' = lent \ {c}
    /\ UNCHANGED <<idleConns, expired, activeCount, lost, owed>>

\* Put of a connection that is closed already: it is closed and uncounted.
PutBroken(c) ==
    /\ c \in lent
    /\ lent' = lent \ {c}
    /\ activeCount' = activeCount - 1
    /\ UNCHANGED <<idleConns, expired, lost, owed>>

\* A borrower closes the connection itself; the pool is not told.
Abandon(c) ==
    /\ c \in lent
    /\ lost < PoolMaxLost
    /\ lent' = lent \ {c}
    /\ lost' = lost + 1
    /\ UNCHANGED <<idleConns, expired, activeCount, owed>>

\* Close closes the idle connections and zeroes the count, lent ones included.
\* Nothing keeps the pool from being used afterwards.
PoolClose ==
    /\ idleConns' = <<>>
    /\ expired' = 0
    /\ activeCount' = 0
    /\ owed' = Cardinality(lent) + lost
    /\ UNCHANGED <<lent, lost>>

\* A tick of cleanupLoop, which never ends: the expired ones are closed.
Cleanup ==
    /\ expired > 0
    /\ idleConns' = SubSeq(idleConns, expired + 1, Len(idleConns))
    /\ activeCount' = activeCount - expired
    /\ expired' = 0
    /\ UNCHANGED <<lent, lost, owed>>

\* idleTimeout passes for the connection that has been idle longest.
Age ==
    /\ expired < Len(idleConns)
    /\ expired' = expired + 1
    /\ UNCHANGED <<idleConns, activeCount, lent, lost, owed>>

PoolNext ==
    \/ GetIdle \/ GetExpired \/ GetNew
    \/ PoolClose \/ Cleanup \/ Age
    \/ \E c \in PoolConns : Put(c) \/ PutBroken(c) \/ Abandon(c)

PoolSpec == PoolInit /\ [][PoolNext]_poolVars

-----------------------------------------------------------------------------
\* Type invariant of the pool.
PoolTypeOK ==
    /\ idleConns \in Seq(PoolConns)
    /\ expired \in 0..Len(idleConns)
    /\ activeCount \in Int
    /\ lent \in SUBSET PoolConns
    /\ lost \in 0..PoolMaxLost
    /\ owed \in Nat

\* No connection has two holders: none is idle twice, none is idle and lent.
\* (Get and Put move one connection each, conn_pool.go:46-93.)
PoolExclusive ==
    /\ \A i, j \in DOMAIN idleConns : idleConns[i] = idleConns[j] => i = j
    /\ Idle \cap lent = {}

\* The count is the number of connections that are lent, idle or lost, less
\* those that the last Close left out; it is below zero once those come back
\* and expire.  (activeCount++ and -- at conn_pool.go:58, 84, 113, 123, 151.)
PoolAccounting ==
    activeCount = Cardinality(lent) + Len(idleConns) + lost - owed

\* The pool counts right, and so the limit holds for the connections it knows;
\* after a Close it lets in as many more as were lent at the time, and no
\* others.  (The test of maxSize at conn_pool.go:67, reset by 113.)
PoolLimit ==
    /\ PoolAccounting
    /\ Cardinality(lent) + Len(idleConns) + lost <= PoolMaxSize + owed

=============================================================================
