--------------------------- MODULE AccountsProofs ---------------------------
(***************************************************************************)
(* Proofs about Accounts, for any sets of accounts, requests and addresses *)
(* and any number of writes and restarts: the memory follows the table, and *)
(* the second look-up of an account finds it.                               *)
(***************************************************************************)
EXTENDS Accounts, TLAPS

AccountType == [pw : Passwords \cup {"none"}, ips : SUBSET Addresses]
RequestType == [op : {"idle", "register", "forget", "bind"},
                sid : SystemIDs \cup {"none"}, account : AccountType]

AccTypes ==
    /\ accCallers \in {"api", "library"}
    /\ smmc \in [RowIDs -> Rows \cup {NoRow}]
    /\ inserted \in Nat
    /\ accountIPs \in [SystemIDs -> SUBSET Addresses]
    /\ accounts \in [SystemIDs -> AccountType]
    /\ loaded \in [SystemIDs -> AccountType]
    /\ request \in [AccRequests -> RequestType]
    /\ \A r \in AccRequests : request[r].op # "idle" => request[r].sid \in SystemIDs
    /\ loading \in BOOLEAN /\ serving \in BOOLEAN
    /\ unread \subseteq SystemIDs
    /\ unsettled \subseteq SystemIDs

\* The unique key of external_smmc.
UniqueIDs == \A i, j \in RowIDs : smmc[i].sid = smmc[j].sid /\ smmc[i] # NoRow => i = j

\* Request r is on its way to change s in memory.
Changes(r, s) == request[r].op \in {"register", "forget"} /\ request[r].sid = s

\* The rows of s, or the active ones, have password p.
RowsHave(s, p) == \A i \in RowIDs : smmc[i].sid = s => smmc[i].pw = p
ActiveRowsHave(s, p) == \A i \in RowIDs : smmc[i].sid = s /\ smmc[i].active => smmc[i].pw = p

\* Of a settled system id: one request at most is about to change it in memory,
\* to what its row says; without one, memory says what its active row says; and
\* so does what a load has read.
Follows(s) ==
    /\ \A r, q \in AccRequests : Changes(r, s) /\ Changes(q, s) => r = q
    /\ \A r \in AccRequests : Changes(r, s) => RowsHave(s, request[r].account.pw)
    /\ serving /\ Quiet(s) => ActiveRowsHave(s, accounts[s].pw)
    /\ loading => Quiet(s) /\ ActiveRowsHave(s, loaded[s].pw)

FollowInv == \A s \in SystemIDs \ unsettled : Follows(s)

AccInv == AccTypes /\ UniqueIDs /\ FollowInv

\* What holds besides when only the program's own operations are used.
ApiInv ==
    accCallers = "api" =>
        /\ ~panicked
        /\ loading => ~serving
        /\ ~serving => \A r \in AccRequests : request[r].op = "idle"
        /\ \A r \in AccRequests :
              /\ request[r].op # "forget"
              /\ request[r].op = "register" => request[r].account.pw # "none"
              /\ request[r].op = "bind" => accounts[request[r].sid] # NoAccount

-----------------------------------------------------------------------------
LEMMA NoneIsTyped ==
    /\ NoAccount \in AccountType
    /\ NoAccount.pw = "none"
    /\ IdleRequest \in RequestType
    /\ IdleRequest.op = "idle" /\ IdleRequest.account = NoAccount
    /\ NoRow.sid = "none" /\ NoRow.active = FALSE
BY DEF NoAccount, AccountType, IdleRequest, RequestType, NoRow

LEMMA QuietIsNoChange == \A s : Quiet(s) <=> \A r \in AccRequests : ~Changes(r, s)
BY DEF Quiet, Changes

LEMMA AccInitInv == AccInit => AccInv /\ ApiInv
<1> SUFFICES ASSUME AccInit PROVE AccInv /\ ApiInv
  OBVIOUS
<1>1. AccTypes
  BY NoneIsTyped DEF AccInit, AccTypes
<1>2. UniqueIDs
  BY DEF AccInit, UniqueIDs
<1>3. FollowInv
  BY NoneIsTyped DEF AccInit, FollowInv, Follows, Changes
<1>4. ApiInv
  BY NoneIsTyped DEF AccInit, ApiInv
<1> QED
  BY <1>1, <1>2, <1>3, <1>4 DEF AccInv

-----------------------------------------------------------------------------
\* Statements that write the table.

\* A statement of r that writes the row of s and leaves r with a change of s to
\* make in memory keeps FollowInv: others' rows are as they were, or gone, and
\* s is either out of everyone's way or no longer settled.
Writes(r, s, q, S) ==
    /\ request[r] = IdleRequest
    /\ q \in RequestType /\ q.op \in {"register", "forget"} /\ q.sid = s
    /\ request' = [request EXCEPT ![r] = q]
    /\ Unsettle(r, s, S)
    /\ \A i \in RowIDs : smmc'[i].sid \notin {s, "none"} => smmc'[i] = smmc[i]
    /\ s \in S \/ \A i \in RowIDs : smmc'[i].sid = s => smmc'[i].pw = q.account.pw
    /\ UNCHANGED <<accounts, loading, loaded, serving>>

LEMMA WriteFollows ==
    ASSUME AccTypes, FollowInv, AccTypes',
           NEW r \in AccRequests, NEW s \in SystemIDs, NEW q, NEW S \in SUBSET SystemIDs,
           Writes(r, s, q, S)
    PROVE  FollowInv'
<1> USE DEF Writes
<1> SUFFICES ASSUME NEW t \in SystemIDs, t \notin unsettled'
             PROVE  Follows(t)'
  BY DEF FollowInv
<1>1. t \notin unsettled /\ t \notin S /\ (t = s => ~Busy(s, r))
  BY DEF Unsettle
<1>2. Follows(t)
  BY <1>1 DEF FollowInv
<1>3. /\ request'[r] = q
      /\ \A p \in AccRequests \ {r} : request'[p] = request[p]
      /\ request[r].op = "idle"
  BY NoneIsTyped DEF AccTypes
<1>4. CASE t = s
  <2>1. Changes(r, s)' /\ \A p \in AccRequests : Changes(p, s)' => p = r
    BY <1>1, <1>3, <1>4 DEF Busy, Changes
  <2>2. ~loading /\ ~Quiet(s)'
    BY <1>1, <1>4, <2>1, QuietIsNoChange DEF Busy, Quiet, Changes
  <2>3. RowsHave(s, q.account.pw)'
    BY <1>1, <1>4 DEF RowsHave
  <2> QED
    BY <1>3, <1>4, <2>1, <2>2, <2>3 DEF Follows, RowsHave
<1>5. CASE t # s
  <2>1. \A p \in AccRequests : Changes(p, t)' <=> Changes(p, t)
    BY <1>3, <1>5 DEF Changes
  <2>2. Quiet(t)' <=> Quiet(t)
    BY <2>1 DEF Quiet, Changes
  <2>3. \A p \in AccRequests : Changes(p, t) => request'[p] = request[p]
    BY <1>3 DEF Changes
  <2>4. \A i \in RowIDs : smmc'[i].sid = t => smmc'[i] = smmc[i]
    BY <1>5, AccAssumption
  <2>5. \A p \in AccRequests : Changes(p, t)' => RowsHave(t, request[p].account.pw)'
    BY <1>2, <2>1, <2>3, <2>4 DEF Follows, RowsHave
  <2>6. /\ (serving /\ Quiet(t) => ActiveRowsHave(t, accounts[t].pw))'
        /\ (loading => Quiet(t) /\ ActiveRowsHave(t, loaded[t].pw))'
    BY <1>2, <2>2, <2>4 DEF Follows, ActiveRowsHave
  <2> QED
    BY <1>2, <2>1, <2>5, <2>6 DEF Follows
<1> QED
  BY <1>4, <1>5

\* A row is a record with a known system id; the request that follows a
\* statement is one of the known kinds.
LEMMA RowType ==
    ASSUME NEW row \in Rows
    PROVE  row.sid \in SystemIDs /\ row.pw \in Passwords /\ row.active \in BOOLEAN
           /\ row # NoRow
BY AccAssumption DEF Rows, NoRow

LEMMA RegisterType ==
    ASSUME NEW s \in SystemIDs, NEW p \in Passwords, NEW ips \in SUBSET Addresses
    PROVE  LET q == [op |-> "register", sid |-> s, account |-> [pw |-> p, ips |-> ips]]
           IN q \in RequestType /\ q.op = "register" /\ q.sid = s /\ q.account.pw = p
BY DEF RequestType, AccountType

LEMMA CreateConfigInv ==
    ASSUME AccInv, NEW r \in AccRequests, NEW row \in Rows, CreateConfig(r, row)
    PROVE  AccInv'
<1> DEFINE new == inserted + 1
           q == [op |-> "register", sid |-> row.sid, account |-> [pw |-> row.pw, ips |-> {}]]
<1>1. /\ request[r] = IdleRequest /\ RowOf(row.sid) = {}
      /\ smmc' = [smmc EXCEPT ![new] = row] /\ inserted' = new /\ inserted < AccMaxRows
      /\ request' = [request EXCEPT ![r] = q]
      /\ Unsettle(r, row.sid, {})
      /\ UNCHANGED <<accCallers, accountIPs, accounts, loading, loaded, unread, serving>>
  BY DEF CreateConfig, CanWrite, RegisterNext, loadVars
<1>2. new \in RowIDs /\ new \in Nat
  BY <1>1, AccAssumption DEF AccInv, AccTypes, RowIDs
<1>3. /\ smmc'[new] = row /\ \A i \in RowIDs \ {new} : smmc'[i] = smmc[i] /\ smmc[i].sid # row.sid
      /\ row.sid \in SystemIDs /\ row.pw \in Passwords
  BY <1>1, <1>2, RowType DEF AccInv, AccTypes, RowOf
<1>4. q \in RequestType /\ q.op = "register" /\ q.sid = row.sid /\ q.account.pw = row.pw
  BY <1>3, RegisterType
<1>5. AccTypes'
  <2>1. smmc' \in [RowIDs -> Rows \cup {NoRow}] /\ request' \in [AccRequests -> RequestType]
    BY <1>1, <1>2, <1>4 DEF AccInv, AccTypes
  <2>2. \A p \in AccRequests : request'[p].op # "idle" => request'[p].sid \in SystemIDs
    BY <1>1, <1>3, <1>4 DEF AccInv, AccTypes
  <2>3. unsettled' \subseteq SystemIDs
    BY <1>1, <1>3 DEF AccInv, AccTypes, Unsettle
  <2> QED
    BY <1>1, <1>2, <2>1, <2>2, <2>3 DEF AccInv, AccTypes
<1>6. UniqueIDs'
  BY <1>2, <1>3 DEF AccInv, UniqueIDs
<1>7. FollowInv'
  <2>1. Writes(r, row.sid, q, {})
    BY <1>1, <1>3, <1>4 DEF Writes
  <2> HIDE DEF q
  <2> QED
    BY <1>3, <1>5, <2>1, WriteFollows DEF AccInv
<1> QED
  BY <1>5, <1>6, <1>7 DEF AccInv

LEMMA UpdateConfigInv ==
    ASSUME AccInv, NEW r \in AccRequests, NEW k \in RowIDs, NEW row \in Rows,
           UpdateConfig(r, k, row)
    PROVE  AccInv'
<1> DEFINE q == [op |-> "register", sid |-> row.sid, account |-> [pw |-> row.pw, ips |-> {}]]
<1>1. /\ request[r] = IdleRequest /\ RowOf(row.sid) \subseteq {k}
      /\ smmc' = [smmc EXCEPT ![k] = row]
      /\ request' = [request EXCEPT ![r] = q]
      /\ Unsettle(r, row.sid, {})
      /\ UNCHANGED <<accCallers, inserted, accountIPs, accounts, loading, loaded, unread, serving>>
  BY DEF UpdateConfig, CanWrite, RegisterNext, loadVars
<1>2. /\ smmc'[k] = row /\ \A i \in RowIDs \ {k} : smmc'[i] = smmc[i] /\ smmc[i].sid # row.sid
      /\ row.sid \in SystemIDs /\ row.pw \in Passwords
  BY <1>1, RowType DEF AccInv, AccTypes, RowOf
<1>3. q \in RequestType /\ q.op = "register" /\ q.sid = row.sid /\ q.account.pw = row.pw
  BY <1>2, RegisterType
<1>4. AccTypes'
  <2>1. smmc' \in [RowIDs -> Rows \cup {NoRow}] /\ request' \in [AccRequests -> RequestType]
    BY <1>1, <1>3 DEF AccInv, AccTypes
  <2>2. \A p \in AccRequests : request'[p].op # "idle" => request'[p].sid \in SystemIDs
    BY <1>1, <1>2, <1>3 DEF AccInv, AccTypes
  <2>3. unsettled' \subseteq SystemIDs
    BY <1>1, <1>2 DEF AccInv, AccTypes, Unsettle
  <2> QED
    BY <1>1, <2>1, <2>2, <2>3 DEF AccInv, AccTypes
<1>5. UniqueIDs'
  BY <1>2 DEF AccInv, UniqueIDs
<1>6. FollowInv'
  <2>1. Writes(r, row.sid, q, {})
    BY <1>1, <1>2, <1>3 DEF Writes
  <2> HIDE DEF q
  <2> QED
    BY <1>2, <1>4, <2>1, WriteFollows DEF AccInv
<1> QED
  BY <1>4, <1>5, <1>6 DEF AccInv

LEMMA UpdateMissingInv ==
    ASSUME AccInv, NEW r \in AccRequests, NEW k \in RowIDs, NEW row \in Rows,
           UpdateMissing(r, k, row)
    PROVE  AccInv'
<1> DEFINE q == [op |-> "register", sid |-> row.sid, account |-> [pw |-> row.pw, ips |-> {}]]
<1>1. /\ request[r] = IdleRequest
      /\ request' = [request EXCEPT ![r] = q]
      /\ Unsettle(r, row.sid, {row.sid})
      /\ UNCHANGED <<accCallers, smmc, inserted, accountIPs, accounts, loading, loaded, unread, serving>>
  BY DEF UpdateMissing, CanWrite, RegisterNext, loadVars
<1>2. row.sid \in SystemIDs /\ row.pw \in Passwords
  BY RowType
<1>3. q \in RequestType /\ q.op = "register" /\ q.sid = row.sid /\ q.account.pw = row.pw
  BY <1>2, RegisterType
<1>4. AccTypes'
  <2>1. request' \in [AccRequests -> RequestType]
    BY <1>1, <1>3 DEF AccInv, AccTypes
  <2>2. \A p \in AccRequests : request'[p].op # "idle" => request'[p].sid \in SystemIDs
    BY <1>1, <1>2, <1>3 DEF AccInv, AccTypes
  <2>3. unsettled' \subseteq SystemIDs
    BY <1>1, <1>2 DEF AccInv, AccTypes, Unsettle
  <2> QED
    BY <1>1, <2>1, <2>2, <2>3 DEF AccInv, AccTypes
<1>5. UniqueIDs'
  BY <1>1 DEF AccInv, UniqueIDs
<1>6. FollowInv'
  <2>1. Writes(r, row.sid, q, {row.sid})
    BY <1>1, <1>3 DEF Writes
  <2> HIDE DEF q
  <2> QED
    BY <1>2, <1>4, <2>1, WriteFollows DEF AccInv
<1> QED
  BY <1>4, <1>5, <1>6 DEF AccInv

\* SaveAccount updates the one row of the system id, or inserts it.
LEMMA SaveAccountInv ==
    ASSUME AccInv, NEW r \in AccRequests, NEW s \in SystemIDs, NEW p \in Passwords,
           NEW ips \in SUBSET Addresses, SaveAccount(r, s, p, ips)
    PROVE  AccInv'
<1> DEFINE q == [op |-> "register", sid |-> s, account |-> [pw |-> p, ips |-> ips]]
<1>1. /\ request[r] = IdleRequest
      /\ accountIPs' = [accountIPs EXCEPT ![s] = ips]
      /\ request' = [request EXCEPT ![r] = q]
      /\ Unsettle(r, s, {})
      /\ UNCHANGED <<accCallers, accounts, loading, loaded, unread, serving>>
  BY DEF SaveAccount, CanWrite, RegisterNext, loadVars
<1>2. PICK k \in RowIDs :
        /\ smmc' = [smmc EXCEPT ![k] = smmc'[k]]
        /\ smmc'[k] \in Rows /\ smmc'[k].sid = s /\ smmc'[k].pw = p
        /\ \A i \in RowIDs \ {k} : smmc[i].sid # s
        /\ inserted' \in Nat
  <2>1. CASE \E i \in RowOf(s) : smmc' = [smmc EXCEPT ![i].pw = p] /\ UNCHANGED inserted
    <3>1. PICK i \in RowIDs : /\ smmc[i].sid = s
                              /\ smmc' = [smmc EXCEPT ![i].pw = p] /\ UNCHANGED inserted
      BY <2>1 DEF RowOf
    <3>2. smmc[i] \in Rows /\ smmc[i] # NoRow
      BY <3>1, NoneIsTyped, AccAssumption, RowType DEF AccInv, AccTypes
    <3>3. smmc'[i] = [smmc[i] EXCEPT !.pw = p]
      BY <3>1 DEF AccInv, AccTypes
    <3>4. smmc'[i] \in Rows /\ smmc'[i].sid = s /\ smmc'[i].pw = p
      BY <3>1, <3>2, <3>3 DEF Rows
    <3>5. \A j \in RowIDs \ {i} : smmc[j].sid # s
      BY <3>1, <3>2 DEF AccInv, UniqueIDs
    <3>6. smmc' = [smmc EXCEPT ![i] = smmc'[i]]
      BY <3>1, <3>3 DEF AccInv, AccTypes
    <3> QED
      BY <3>1, <3>4, <3>5, <3>6 DEF AccInv, AccTypes
  <2>2. CASE /\ RowOf(s) = {} /\ inserted < AccMaxRows
             /\ smmc' = [smmc EXCEPT ![inserted + 1] = [sid |-> s, pw |-> p, active |-> TRUE]]
             /\ inserted' = inserted + 1
    <3>1. inserted + 1 \in RowIDs /\ inserted' \in Nat
      BY <2>2, AccAssumption DEF AccInv, AccTypes, RowIDs
    <3>2. smmc'[inserted + 1] = [sid |-> s, pw |-> p, active |-> TRUE]
      BY <2>2, <3>1 DEF AccInv, AccTypes
    <3>3. [sid |-> s, pw |-> p, active |-> TRUE] \in Rows
      BY DEF Rows
    <3>4. \A i \in RowIDs : smmc[i].sid # s
      BY <2>2 DEF RowOf
    <3>5. smmc' = [smmc EXCEPT ![inserted + 1] = smmc'[inserted + 1]]
      BY <2>2, <3>2
    <3> HIDE DEF RowIDs
    <3>6. /\ smmc'[inserted + 1] \in Rows
          /\ smmc'[inserted + 1].sid = s /\ smmc'[inserted + 1].pw = p
      BY <3>2, <3>3
    <3> QED
      BY <3>1, <3>4, <3>5, <3>6
  <2> QED
    BY <2>1, <2>2 DEF SaveAccount
<1>3. \A i \in RowIDs \ {k} : smmc'[i] = smmc[i]
  BY <1>2 DEF AccInv, AccTypes
<1>4. q \in RequestType /\ q.op = "register" /\ q.sid = s /\ q.account.pw = p
  BY RegisterType
<1>5. AccTypes'
  <2>1. smmc' \in [RowIDs -> Rows \cup {NoRow}]
    BY <1>2 DEF AccInv, AccTypes
  <2>2. request' \in [AccRequests -> RequestType] /\ accountIPs' \in [SystemIDs -> SUBSET Addresses]
    BY <1>1, <1>4 DEF AccInv, AccTypes
  <2>3. \A o \in AccRequests : request'[o].op # "idle" => request'[o].sid \in SystemIDs
    BY <1>1, <1>4 DEF AccInv, AccTypes
  <2>4. unsettled' \subseteq SystemIDs
    BY <1>1 DEF AccInv, AccTypes, Unsettle
  <2> QED
    BY <1>1, <1>2, <2>1, <2>2, <2>3, <2>4 DEF AccInv, AccTypes
<1>6. UniqueIDs'
  BY <1>2, <1>3 DEF AccInv, UniqueIDs
<1>7. FollowInv'
  <2>1. Writes(r, s, q, {})
    <3>1. \A i \in RowIDs : smmc'[i].sid = s => smmc'[i].pw = q.account.pw
      BY <1>2, <1>3, <1>4
    <3> HIDE DEF q
    <3> QED
      BY <1>1, <1>3, <1>2, <1>4, <3>1 DEF Writes
  <2> HIDE DEF q
  <2> QED
    BY <1>5, <2>1, WriteFollows DEF AccInv
<1> QED
  BY <1>5, <1>6, <1>7 DEF AccInv

LEMMA DeleteAccountInv ==
    ASSUME AccInv, NEW r \in AccRequests, NEW s \in SystemIDs, DeleteAccount(r, s)
    PROVE  AccInv'
<1> DEFINE q == [IdleRequest EXCEPT !.op = "forget", !.sid = s]
<1>1. /\ request[r] = IdleRequest
      /\ smmc' = [i \in RowIDs |-> IF i \in RowOf(s) THEN NoRow ELSE smmc[i]]
      /\ accountIPs' = [accountIPs EXCEPT ![s] = {}]
      /\ request' = [request EXCEPT ![r] = q]
      /\ Unsettle(r, s, {})
      /\ UNCHANGED <<accCallers, inserted, accounts, loading, loaded, unread, serving>>
  BY DEF DeleteAccount, CanWrite, loadVars
<1>2. q \in RequestType /\ q.op = "forget" /\ q.sid = s
  BY NoneIsTyped DEF IdleRequest, RequestType
<1>3. /\ \A i \in RowIDs : smmc'[i] = NoRow \/ smmc'[i] = smmc[i]
      /\ \A i \in RowIDs : smmc'[i].sid # s
  BY <1>1, NoneIsTyped, AccAssumption DEF RowOf
<1>4. AccTypes'
  <2>1. smmc' \in [RowIDs -> Rows \cup {NoRow}]
    BY <1>1 DEF AccInv, AccTypes
  <2>2. request' \in [AccRequests -> RequestType] /\ accountIPs' \in [SystemIDs -> SUBSET Addresses]
    BY <1>1, <1>2 DEF AccInv, AccTypes
  <2>3. \A o \in AccRequests : request'[o].op # "idle" => request'[o].sid \in SystemIDs
    BY <1>1, <1>2 DEF AccInv, AccTypes
  <2>4. unsettled' \subseteq SystemIDs
    BY <1>1 DEF AccInv, AccTypes, Unsettle
  <2> QED
    BY <1>1, <2>1, <2>2, <2>3, <2>4 DEF AccInv, AccTypes
<1>5. UniqueIDs'
  <2> SUFFICES ASSUME NEW i \in RowIDs, NEW j \in RowIDs,
                      smmc'[i].sid = smmc'[j].sid, smmc'[i] # NoRow
               PROVE  i = j
    BY DEF UniqueIDs
  <2>1. smmc'[i] = smmc[i] /\ smmc[i].sid # "none"
    BY <1>3, RowType, AccAssumption DEF AccInv, AccTypes
  <2>2. smmc'[j] = smmc[j]
    BY <1>3, <2>1, NoneIsTyped
  <2> QED
    BY <2>1, <2>2 DEF AccInv, UniqueIDs
<1>6. FollowInv'
  <2>1. \A i \in RowIDs : smmc'[i].sid \notin {s, "none"} => smmc'[i] = smmc[i]
    BY <1>3, NoneIsTyped
  <2>2. Writes(r, s, q, {})
    BY <1>1, <1>2, <1>3, <2>1 DEF Writes
  <2> HIDE DEF q
  <2> QED
    BY <1>4, <2>2, WriteFollows DEF AccInv
<1> QED
  BY <1>4, <1>5, <1>6 DEF AccInv

\* DeleteConfig leaves the memory to the row that is gone: nothing is asked of it.
LEMMA DeleteConfigInv ==
    ASSUME AccInv, NEW r \in AccRequests, NEW k \in RowIDs, DeleteConfig(r, k)
    PROVE  AccInv'
<1>1. /\ smmc[k] # NoRow
      /\ smmc' = [smmc EXCEPT ![k] = NoRow]
      /\ accountIPs' = [accountIPs EXCEPT ![smmc[k].sid] = {}]
      /\ UNCHANGED <<accCallers, inserted, accounts, request, loading, loaded, unread, serving, unsettled>>
  BY DEF DeleteConfig, loadVars
<1>2. smmc'[k] = NoRow /\ \A i \in RowIDs \ {k} : smmc'[i] = smmc[i]
  BY <1>1 DEF AccInv, AccTypes
<1>3. AccTypes'
  <2>1. smmc' \in [RowIDs -> Rows \cup {NoRow}] /\ accountIPs' \in [SystemIDs -> SUBSET Addresses]
    BY <1>1 DEF AccInv, AccTypes
  <2> QED
    BY <1>1, <2>1 DEF AccInv, AccTypes
<1>4. UniqueIDs'
  <2> SUFFICES ASSUME NEW i \in RowIDs, NEW j \in RowIDs,
                      smmc'[i].sid = smmc'[j].sid, smmc'[i] # NoRow
               PROVE  i = j
    BY DEF UniqueIDs
  <2>1. smmc'[i] = smmc[i] /\ smmc[i].sid # "none"
    BY <1>2, RowType, AccAssumption DEF AccInv, AccTypes
  <2>2. smmc'[j] = smmc[j]
    BY <1>2, <2>1, NoneIsTyped
  <2> QED
    BY <2>1, <2>2 DEF AccInv, UniqueIDs
<1>5. FollowInv'
  <2> SUFFICES ASSUME NEW t \in SystemIDs, t \notin unsettled PROVE Follows(t)'
    BY <1>1 DEF FollowInv
  <2>1. Follows(t)
    BY DEF AccInv, FollowInv
  <2>2. \A i \in RowIDs : smmc'[i].sid = t => smmc'[i] = smmc[i]
    BY <1>2, NoneIsTyped, AccAssumption
  <2>3. (Quiet(t)' <=> Quiet(t)) /\ \A o \in AccRequests : Changes(o, t)' <=> Changes(o, t)
    BY <1>1 DEF Quiet, Changes
  <2>4. \A o \in AccRequests : Changes(o, t)' => RowsHave(t, request[o].account.pw)'
    BY <1>1, <2>1, <2>2, <2>3 DEF Follows, RowsHave
  <2>5. /\ (serving /\ Quiet(t) => ActiveRowsHave(t, accounts[t].pw))'
        /\ (loading => Quiet(t) /\ ActiveRowsHave(t, loaded[t].pw))'
    BY <1>1, <2>1, <2>2, <2>3 DEF Follows, ActiveRowsHave
  <2> QED
    BY <2>1, <2>3, <2>4, <2>5 DEF Follows
<1> QED
  BY <1>3, <1>4, <1>5 DEF AccInv

-----------------------------------------------------------------------------
\* Changes of memory.

\* A step that leaves the table, the requests about to change memory, and what
\* memory and a load have of the settled ids, keeps FollowInv.
LEMMA SameFollows ==
    ASSUME FollowInv, unsettled \subseteq unsettled', UNCHANGED <<smmc, loading, serving>>,
           \A s \in SystemIDs : accounts'[s].pw = accounts[s].pw /\ loaded'[s].pw = loaded[s].pw,
           \A p \in AccRequests, s \in SystemIDs : Changes(p, s)' <=> Changes(p, s),
           \A p \in AccRequests, s \in SystemIDs : Changes(p, s) => request'[p] = request[p]
    PROVE  FollowInv'
<1> SUFFICES ASSUME NEW t \in SystemIDs, t \notin unsettled' PROVE Follows(t)'
  BY DEF FollowInv
<1>1. Follows(t)
  BY DEF FollowInv
<1>2. Quiet(t)' <=> Quiet(t)
  BY DEF Quiet, Changes
<1>3. \A p : (RowsHave(t, p)' <=> RowsHave(t, p)) /\ (ActiveRowsHave(t, p)' <=> ActiveRowsHave(t, p))
  BY DEF RowsHave, ActiveRowsHave
<1>4. \A p \in AccRequests : Changes(p, t)' => RowsHave(t, request[p].account.pw)'
  BY <1>1, <1>3 DEF Follows
<1>5. \A p \in AccRequests : Changes(p, t)' => request'[p] = request[p]
  OBVIOUS
<1>6. \A p \in AccRequests : Changes(p, t)' => RowsHave(t, request[p].account.pw)'
                              /\ request'[p].account.pw = request[p].account.pw
  BY <1>4, <1>5
<1>7. (serving /\ Quiet(t) => ActiveRowsHave(t, accounts[t].pw))'
  BY <1>1, <1>2 DEF Follows, ActiveRowsHave
<1>8. (loading => Quiet(t) /\ ActiveRowsHave(t, loaded[t].pw))'
  BY <1>1, <1>2 DEF Follows, ActiveRowsHave
<1> QED
  BY <1>1, <1>6, <1>7, <1>8 DEF Follows, RowsHave

\* What r registers is what the row of its system id says, and nobody else is
\* about to change it: memory follows again.
LEMMA ApplyToMemoryInv ==
    ASSUME AccInv, NEW r \in AccRequests, ApplyToMemory(r)
    PROVE  AccInv'
<1> DEFINE s == request[r].sid
<1>1. /\ request[r].op \in {"register", "forget"}
      /\ accounts' = [accounts EXCEPT ![s] = request[r].account]
      /\ request' = [request EXCEPT ![r] = IdleRequest]
      /\ UNCHANGED <<accCallers, smmc, inserted, accountIPs, loading, loaded, unread, serving, unsettled>>
  BY DEF ApplyToMemory, tableVars, loadVars
<1>2. s \in SystemIDs /\ request[r] \in RequestType /\ request[r].account \in AccountType
  BY <1>1 DEF AccInv, AccTypes, RequestType
<1>3. /\ request'[r] = IdleRequest /\ \A p \in AccRequests \ {r} : request'[p] = request[p]
      /\ accounts'[s] = request[r].account /\ \A t \in SystemIDs \ {s} : accounts'[t] = accounts[t]
  BY <1>1, <1>2 DEF AccInv, AccTypes
<1>4. AccTypes'
  <2>1. accounts' \in [SystemIDs -> AccountType] /\ request' \in [AccRequests -> RequestType]
    BY <1>1, <1>2, NoneIsTyped DEF AccInv, AccTypes
  <2>2. \A o \in AccRequests : request'[o].op # "idle" => request'[o].sid \in SystemIDs
    BY <1>3, NoneIsTyped DEF AccInv, AccTypes
  <2> QED
    BY <1>1, <2>1, <2>2 DEF AccInv, AccTypes
<1>5. UniqueIDs'
  BY <1>1 DEF AccInv, UniqueIDs
<1>6. FollowInv'
  <2> SUFFICES ASSUME NEW t \in SystemIDs, t \notin unsettled PROVE Follows(t)'
    BY <1>1 DEF FollowInv
  <2>1. Follows(t)
    BY DEF AccInv, FollowInv
  <2>2. \A p \in AccRequests : Changes(p, t)' => p # r /\ Changes(p, t) /\ request'[p] = request[p]
    BY <1>3, NoneIsTyped DEF Changes
  <2>3. \A p : (RowsHave(t, p)' <=> RowsHave(t, p)) /\ (ActiveRowsHave(t, p)' <=> ActiveRowsHave(t, p))
    BY <1>1 DEF RowsHave, ActiveRowsHave
  <2>4. CASE t = s
    <3>1. Changes(r, t)
      BY <1>1, <2>4 DEF Changes
    <3>2. \A p \in AccRequests : ~Changes(p, t)'
      BY <2>1, <2>2, <3>1 DEF Follows
    <3>3. RowsHave(t, request[r].account.pw) /\ ~loading
      BY <2>1, <3>1 DEF Follows, Quiet, Changes
    <3>4. ActiveRowsHave(t, accounts[t].pw)'
      BY <1>1, <1>3, <2>4, <3>3 DEF RowsHave, ActiveRowsHave
    <3> QED
      BY <1>1, <3>2, <3>3, <3>4 DEF Follows
  <2>5. CASE t # s
    <3>1. \A p \in AccRequests : Changes(p, t)' <=> Changes(p, t)
      BY <1>3, <2>2, <2>5 DEF Changes
    <3>2. Quiet(t)' <=> Quiet(t)
      BY <3>1 DEF Quiet, Changes
    <3>3. \A p \in AccRequests : Changes(p, t)' => RowsHave(t, request[p].account.pw)'
      BY <2>1, <2>2, <2>3 DEF Follows
    <3>4. (serving /\ Quiet(t) => ActiveRowsHave(t, accounts[t].pw))'
      BY <1>1, <1>3, <2>1, <2>5, <3>2 DEF Follows, ActiveRowsHave
    <3>5. (loading => Quiet(t) /\ ActiveRowsHave(t, loaded[t].pw))'
      BY <1>1, <2>1, <3>2 DEF Follows, ActiveRowsHave
    <3> QED
      BY <2>1, <2>2, <3>1, <3>3, <3>4, <3>5 DEF Follows, RowsHave
  <2> QED
    BY <2>4, <2>5
<1> QED
  BY <1>4, <1>5, <1>6 DEF AccInv

-----------------------------------------------------------------------------
\* The load.

\* What the query has read of a settled system id is its active row's; nobody
\* is about to change the memory of one that is settled still.
LEMMA QueryAccountsInv ==
    ASSUME AccInv, QueryAccounts
    PROVE  AccInv'
<1> DEFINE busy == {request[r].sid : r \in {q \in AccRequests : request[q].op \in {"register", "forget"}}}
           row(s) == CHOOSE i \in RowOf(s) : TRUE
<1>1. /\ ~loading /\ loading' = TRUE
      /\ unread' = {s \in SystemIDs : Active(s)}
      /\ loaded' = [s \in SystemIDs |->
           IF s \in unread' THEN [pw |-> smmc[row(s)].pw, ips |-> {}] ELSE NoAccount]
      /\ unsettled' = unsettled \cup busy
      /\ UNCHANGED <<accCallers, smmc, inserted, accountIPs, accounts, request, serving>>
  BY DEF QueryAccounts, tableVars
<1>2. \A s \in unread' : row(s) \in RowIDs /\ smmc[row(s)].sid = s
  BY <1>1 DEF Active, RowOf
<1>3. AccTypes'
  <2>1. \A s \in unread' : smmc[row(s)].pw \in Passwords
    <3> SUFFICES ASSUME NEW s \in unread' PROVE smmc[row(s)].pw \in Passwords
      OBVIOUS
    <3>1. PICK k \in RowIDs : k = row(s) /\ smmc[k].sid = s
      BY <1>2
    <3>2. s \in SystemIDs
      BY <1>1
    <3> HIDE DEF row
    <3>3. smmc[k] \in Rows
      BY <3>1, <3>2, NoneIsTyped, AccAssumption DEF AccInv, AccTypes
    <3> QED
      BY <3>1, <3>3, RowType
  <2>2. \A s \in unread' : [pw |-> smmc[row(s)].pw, ips |-> {}] \in AccountType
    BY <2>1 DEF AccountType
  <2>3. loaded' \in [SystemIDs -> AccountType]
    BY <1>1, <2>2, NoneIsTyped
  <2>4. unsettled' \subseteq SystemIDs
    BY <1>1 DEF AccInv, AccTypes
  <2> QED
    BY <1>1, <2>3, <2>4 DEF AccInv, AccTypes
<1>4. UniqueIDs'
  BY <1>1 DEF AccInv, UniqueIDs
<1>5. FollowInv'
  <2> SUFFICES ASSUME NEW t \in SystemIDs, t \notin unsettled' PROVE Follows(t)'
    BY DEF FollowInv
  <2>1. Follows(t) /\ t \notin busy
    BY <1>1 DEF AccInv, FollowInv
  <2>2. \A p \in AccRequests : ~Changes(p, t)'
    BY <1>1, <2>1 DEF Changes
  <2>3. Quiet(t) /\ Quiet(t)'
    BY <1>1, <2>1 DEF Quiet
  <2>4. ActiveRowsHave(t, loaded[t].pw)'
    <3> SUFFICES ASSUME NEW i \in RowIDs, smmc[i].sid = t, smmc[i].active
                 PROVE  loaded'[t].pw = smmc[i].pw
      BY <1>1 DEF ActiveRowsHave
    <3>1. t \in unread'
      BY <1>1 DEF Active, RowOf
    <3>2. row(t) = i
      BY <1>2, <3>1, NoneIsTyped DEF AccInv, UniqueIDs
    <3> QED
      BY <1>1, <3>1, <3>2
  <2>5. (serving => ActiveRowsHave(t, accounts[t].pw))'
    BY <1>1, <2>1, <2>3 DEF Follows, ActiveRowsHave
  <2> QED
    BY <2>2, <2>3, <2>4, <2>5 DEF Follows
<1> QED
  BY <1>3, <1>4, <1>5 DEF AccInv

LEMMA QueryIPsInv ==
    ASSUME AccInv, NEW s \in SystemIDs, QueryIPs(s)
    PROVE  AccInv'
<1>1. /\ loaded' = [loaded EXCEPT ![s].ips = accountIPs[s]]
      /\ unread' = unread \ {s}
      /\ UNCHANGED <<accCallers, smmc, inserted, accountIPs, accounts, request, loading, serving, unsettled>>
  BY DEF QueryIPs, tableVars
<1>2. loaded' \in [SystemIDs -> AccountType] /\ \A t \in SystemIDs : loaded'[t].pw = loaded[t].pw
  BY <1>1 DEF AccInv, AccTypes, AccountType
<1>3. AccTypes'
  BY <1>1, <1>2 DEF AccInv, AccTypes
<1>4. UniqueIDs'
  BY <1>1 DEF AccInv, UniqueIDs
<1>5. \A p \in AccRequests, t \in SystemIDs : Changes(p, t)' <=> Changes(p, t)
  BY <1>1 DEF Changes
<1>6. FollowInv'
  BY <1>1, <1>2, <1>5, SameFollows DEF AccInv
<1> QED
  BY <1>3, <1>4, <1>6 DEF AccInv

LEMMA LoadReplacesInv ==
    ASSUME AccInv, LoadReplaces
    PROVE  AccInv'
<1>1. /\ loading /\ ~loading' /\ loading' = FALSE /\ serving' = TRUE
      /\ accounts' = loaded /\ loaded' = [s \in SystemIDs |-> NoAccount]
      /\ UNCHANGED <<accCallers, smmc, inserted, accountIPs, unread, request, unsettled>>
  BY DEF LoadReplaces, tableVars
<1>2. AccTypes'
  BY <1>1, NoneIsTyped DEF AccInv, AccTypes
<1>3. UniqueIDs'
  BY <1>1 DEF AccInv, UniqueIDs
<1>4. FollowInv'
  <2> SUFFICES ASSUME NEW t \in SystemIDs, t \notin unsettled PROVE Follows(t)'
    BY <1>1 DEF FollowInv
  <2>1. Follows(t)
    BY DEF AccInv, FollowInv
  <2>2. Quiet(t) /\ ActiveRowsHave(t, accounts[t].pw)'
    BY <1>1, <2>1 DEF Follows, ActiveRowsHave
  <2>3. \A p \in AccRequests : ~Changes(p, t)'
    BY <1>1, <2>2, QuietIsNoChange DEF Changes
  <2> QED
    BY <1>1, <2>2, <2>3 DEF Follows
<1> QED
  BY <1>2, <1>3, <1>4 DEF AccInv

\* A load that fails at start-up unsettles every system id; a later one leaves
\* memory as it was.
LEMMA LoadFailsInv ==
    ASSUME AccInv, LoadFails
    PROVE  AccInv'
<1>1. /\ loading' = FALSE /\ serving' = TRUE /\ unread' = {}
      /\ loaded' = [s \in SystemIDs |-> NoAccount]
      /\ unsettled' = IF serving THEN unsettled ELSE SystemIDs
      /\ UNCHANGED <<accCallers, smmc, inserted, accountIPs, accounts, request>>
  BY DEF LoadFails, tableVars
<1>2. AccTypes'
  BY <1>1, NoneIsTyped DEF AccInv, AccTypes
<1>3. UniqueIDs'
  BY <1>1 DEF AccInv, UniqueIDs
<1>4. FollowInv'
  <2> SUFFICES ASSUME NEW t \in SystemIDs, t \notin unsettled' PROVE Follows(t)'
    BY DEF FollowInv
  <2>1. serving /\ t \notin unsettled /\ Follows(t)
    BY <1>1 DEF AccInv, FollowInv
  <2>2. (Quiet(t)' <=> Quiet(t)) /\ \A o \in AccRequests : Changes(o, t)' <=> Changes(o, t)
    BY <1>1 DEF Quiet, Changes
  <2>3. \A o \in AccRequests : Changes(o, t)' => RowsHave(t, request[o].account.pw)'
    BY <1>1, <2>1, <2>2 DEF Follows, RowsHave
  <2>4. (serving /\ Quiet(t) => ActiveRowsHave(t, accounts[t].pw))'
    BY <1>1, <2>1, <2>2 DEF Follows, ActiveRowsHave
  <2> QED
    BY <1>1, <2>1, <2>2, <2>3, <2>4 DEF Follows
<1> QED
  BY <1>2, <1>3, <1>4 DEF AccInv

\* Binds and the white list.
LEMMA BindInv ==
    ASSUME AccInv, NEW r \in AccRequests,
           \/ \E s \in SystemIDs, p \in Passwords, ip \in Addresses : Authenticate(r, s, p, ip)
           \/ LookUpAgain(r)
    PROVE  AccInv'
<1>1. PICK s \in SystemIDs :
        /\ request[r].op \notin {"register", "forget"}
        /\ request' \in {[request EXCEPT ![r] = [IdleRequest EXCEPT !.op = "bind", !.sid = s]],
                         [request EXCEPT ![r] = IdleRequest]}
        /\ UNCHANGED <<accCallers, smmc, inserted, accountIPs, accounts, loading, loaded, unread,
                       serving, unsettled>>
  <2>1. CASE \E s \in SystemIDs, p \in Passwords, ip \in Addresses : Authenticate(r, s, p, ip)
    BY <2>1, NoneIsTyped DEF Authenticate, tableVars, loadVars
  <2>2. CASE LookUpAgain(r)
    <3>1. request[r].sid \in SystemIDs
      BY <2>2 DEF LookUpAgain, AccInv, AccTypes
    <3> QED
      BY <2>2, <3>1 DEF LookUpAgain, tableVars, loadVars
  <2> QED
    BY <2>1, <2>2
<1>2. /\ [IdleRequest EXCEPT !.op = "bind", !.sid = s] \in RequestType
      /\ [IdleRequest EXCEPT !.op = "bind", !.sid = s].op = "bind"
      /\ [IdleRequest EXCEPT !.op = "bind", !.sid = s].sid = s
  BY NoneIsTyped DEF IdleRequest, RequestType
<1>3. /\ request' \in [AccRequests -> RequestType]
      /\ request'[r].op \in {"bind", "idle"} /\ (request'[r].op = "bind" => request'[r].sid = s)
      /\ \A p \in AccRequests \ {r} : request'[p] = request[p]
  BY <1>1, <1>2, NoneIsTyped DEF AccInv, AccTypes
<1>4. AccTypes'
  BY <1>1, <1>3 DEF AccInv, AccTypes
<1>5. UniqueIDs'
  BY <1>1 DEF AccInv, UniqueIDs
<1>6. /\ \A p \in AccRequests, t \in SystemIDs : Changes(p, t)' <=> Changes(p, t)
      /\ \A p \in AccRequests, t \in SystemIDs : Changes(p, t) => request'[p] = request[p]
  BY <1>1, <1>3 DEF Changes
<1>7. FollowInv'
  BY <1>1, <1>6, SameFollows DEF AccInv
<1> QED
  BY <1>4, <1>5, <1>7 DEF AccInv

\* A crash leaves no request and nothing served: there is nothing to follow.
LEMMA RestartInv ==
    ASSUME AccInv, Restart
    PROVE  AccInv'
<1>1. /\ accounts' = [s \in SystemIDs |-> NoAccount] /\ loaded' = [s \in SystemIDs |-> NoAccount]
      /\ request' = [r \in AccRequests |-> IdleRequest]
      /\ loading' = FALSE /\ unread' = {} /\ serving' = FALSE /\ unsettled' = {}
      /\ UNCHANGED <<accCallers, smmc, inserted, accountIPs>>
  BY DEF Restart, tableVars
<1>2. AccTypes'
  BY <1>1, NoneIsTyped DEF AccInv, AccTypes
<1>3. UniqueIDs'
  BY <1>1 DEF AccInv, UniqueIDs
<1>4. FollowInv'
  BY <1>1, NoneIsTyped DEF FollowInv, Follows, Changes
<1> QED
  BY <1>2, <1>3, <1>4 DEF AccInv

-----------------------------------------------------------------------------
\* The program's own operations.

LEMMA RequestApi ==
    ASSUME AccTypes, ApiInv, NEW r \in AccRequests, NEW q, request' = [request EXCEPT ![r] = q],
           serving, q.op # "forget", q.op = "register" => q.account.pw # "none",
           q.op = "bind" => accounts[q.sid] # NoAccount,
           UNCHANGED <<accCallers, accounts, loading, serving, panicked>>
    PROVE  ApiInv'
BY DEF AccTypes, ApiInv

LEMMA ApplyToMemoryApi ==
    ASSUME AccInv, ApiInv, NEW r \in AccRequests, ApplyToMemory(r)
    PROVE  ApiInv'
<1> SUFFICES ASSUME accCallers = "api" PROVE ApiInv'
  BY DEF ApplyToMemory, ApiInv
<1>1. /\ request[r].op = "register" /\ request[r].account # NoAccount
      /\ accounts' = [accounts EXCEPT ![request[r].sid] = request[r].account]
      /\ request' = [request EXCEPT ![r] = IdleRequest]
      /\ UNCHANGED <<accCallers, loading, serving, panicked>>
  BY NoneIsTyped DEF ApplyToMemory, ApiInv, loadVars
<1>2. request'[r].op = "idle" /\ \A p \in AccRequests \ {r} : request'[p] = request[p]
  BY <1>1, NoneIsTyped DEF AccInv, AccTypes
<1>3. \A s \in SystemIDs : accounts[s] # NoAccount => accounts'[s] # NoAccount
  BY <1>1 DEF AccInv, AccTypes
<1>4. \A p \in AccRequests : request'[p].op = "bind" => accounts'[request'[p].sid] # NoAccount
  BY <1>2, <1>3 DEF AccInv, AccTypes, ApiInv
<1> QED
  BY <1>1, <1>2, <1>4 DEF ApiInv

\* While the program's load runs nothing is served, so nobody is between the
\* two look-ups.
LEMMA LoadApi ==
    ASSUME AccInv, ApiInv, QueryAccounts \/ LoadReplaces \/ LoadFails
    PROVE  ApiInv'
<1> SUFFICES ASSUME accCallers = "api" PROVE ApiInv'
  BY DEF QueryAccounts, LoadReplaces, LoadFails, ApiInv
<1>1. ~serving /\ UNCHANGED <<accCallers, request, panicked>>
  BY DEF QueryAccounts, LoadReplaces, LoadFails, ApiInv
<1>2. \A p \in AccRequests : request'[p].op = "idle"
  BY <1>1 DEF ApiInv
<1>3. loading' => ~serving'
  BY <1>1 DEF QueryAccounts, LoadReplaces, LoadFails
<1> QED
  BY <1>1, <1>2, <1>3 DEF ApiInv

LEMMA AccStep ==
    ASSUME AccInv, ApiInv, [AccNext]_accVars
    PROVE  AccInv' /\ ApiInv'
<1>1. CASE UNCHANGED accVars
  BY <1>1 DEF AccInv, AccTypes, UniqueIDs, FollowInv, Follows, RowsHave, ActiveRowsHave, Changes,
              Quiet, ApiInv, accVars
<1>2. CASE QueryAccounts \/ LoadReplaces \/ LoadFails
  BY <1>2, QueryAccountsInv, LoadReplacesInv, LoadFailsInv, LoadApi
<1>3. CASE ReloadLoop
  BY <1>1, <1>3 DEF ReloadLoop, LoadAccounts
<1>4. CASE ChangeWhitelist
  <2>1. UNCHANGED <<accCallers, smmc, inserted, accountIPs, accounts, request, loading, loaded, unread,
                    serving, panicked, unsettled>>
    BY <1>4 DEF ChangeWhitelist, tableVars, loadVars
  <2> QED
    BY <2>1 DEF AccInv, AccTypes, UniqueIDs, FollowInv, Follows, RowsHave, ActiveRowsHave, Changes,
                Quiet, ApiInv
<1>5. CASE Restart
  <2>1. ApiInv'
    BY <1>5, NoneIsTyped DEF Restart, ApiInv
  <2> QED
    BY <1>5, <2>1, RestartInv
<1>6. CASE \E s \in SystemIDs : QueryIPs(s)
  <2>1. ApiInv'
    BY <1>6 DEF QueryIPs, tableVars, ApiInv
  <2> QED
    BY <1>6, <2>1, QueryIPsInv
<1>7. ASSUME NEW r \in AccRequests, NEW row \in Rows, CreateConfig(r, row)
      PROVE  AccInv' /\ ApiInv'
  <2>1. row.pw # "none"
    BY RowType, AccAssumption
  <2>2. ApiInv'
    <3> DEFINE q == [op |-> "register", sid |-> row.sid, account |-> [pw |-> row.pw, ips |-> {}]]
    <3>1. q.op = "register" /\ q.account.pw # "none"
      BY <2>1
    <3>2. /\ request' = [request EXCEPT ![r] = q] /\ serving
          /\ UNCHANGED <<accCallers, accounts, loading, serving, panicked>>
      BY <1>7 DEF CreateConfig, CanWrite, RegisterNext, loadVars
    <3> HIDE DEF q
    <3> QED
      BY <3>1, <3>2, RequestApi DEF AccInv
  <2> QED
    BY <1>7, <2>2, CreateConfigInv
<1>8. ASSUME NEW r \in AccRequests, NEW i \in RowIDs, NEW row \in Rows,
             UpdateConfig(r, i, row) \/ UpdateMissing(r, i, row)
      PROVE  AccInv' /\ ApiInv'
  <2>1. row.pw # "none"
    BY RowType, AccAssumption
  <2>2. ApiInv'
    <3> DEFINE q == [op |-> "register", sid |-> row.sid, account |-> [pw |-> row.pw, ips |-> {}]]
    <3>1. q.op = "register" /\ q.account.pw # "none"
      BY <2>1
    <3>2. /\ request' = [request EXCEPT ![r] = q] /\ serving
          /\ UNCHANGED <<accCallers, accounts, loading, serving, panicked>>
      BY <1>8 DEF UpdateConfig, UpdateMissing, CanWrite, RegisterNext, loadVars
    <3> HIDE DEF q
    <3> QED
      BY <3>1, <3>2, RequestApi DEF AccInv
  <2> QED
    BY <1>8, <2>2, UpdateConfigInv, UpdateMissingInv
<1>9. ASSUME NEW r \in AccRequests, NEW i \in RowIDs, DeleteConfig(r, i)
      PROVE  AccInv' /\ ApiInv'
  <2>1. ApiInv'
    BY <1>9 DEF DeleteConfig, loadVars, ApiInv
  <2> QED
    BY <1>9, <2>1, DeleteConfigInv
<1>10. ASSUME NEW r \in AccRequests, NEW s \in SystemIDs, NEW p \in Passwords,
              NEW ips \in SUBSET Addresses, SaveAccount(r, s, p, ips)
       PROVE  AccInv' /\ ApiInv'
  <2>1. ApiInv'
    BY <1>10 DEF SaveAccount, ApiInv
  <2> QED
    BY <1>10, <2>1, SaveAccountInv
<1>11. ASSUME NEW r \in AccRequests, NEW s \in SystemIDs, DeleteAccount(r, s)
       PROVE  AccInv' /\ ApiInv'
  <2>1. ApiInv'
    BY <1>11 DEF DeleteAccount, ApiInv
  <2> QED
    BY <1>11, <2>1, DeleteAccountInv
<1>12. ASSUME NEW r \in AccRequests, NEW s \in SystemIDs, NEW p \in Passwords, NEW ip \in Addresses,
              Authenticate(r, s, p, ip)
       PROVE  AccInv' /\ ApiInv'
  <2> DEFINE q == [IdleRequest EXCEPT !.op = "bind", !.sid = s]
  <2>1. q.op = "bind" /\ q.sid = s
    BY DEF IdleRequest
  <2>2. /\ request' = [request EXCEPT ![r] = q] /\ serving /\ accounts[s] # NoAccount
        /\ UNCHANGED <<accCallers, accounts, loading, serving, panicked>>
    BY <1>12 DEF Authenticate, loadVars
  <2> HIDE DEF q
  <2>3. ApiInv'
    BY <2>1, <2>2, RequestApi DEF AccInv
  <2> QED
    BY <1>12, <2>3, BindInv
<1>13. ASSUME NEW r \in AccRequests, LookUpAgain(r)
       PROVE  AccInv' /\ ApiInv'
  <2>1. ASSUME accCallers = "api" PROVE ApiInv'
    <3>1. /\ request[r].op = "bind" /\ accounts[request[r].sid] # NoAccount
          /\ request' = [request EXCEPT ![r] = IdleRequest]
          /\ UNCHANGED <<accCallers, accounts, loading, serving>>
      BY <1>13, <2>1 DEF LookUpAgain, loadVars, ApiInv
    <3>2. ~panicked'
      BY <1>13, <3>1 DEF LookUpAgain
    <3>3. request'[r].op = "idle" /\ \A p \in AccRequests \ {r} : request'[p] = request[p]
      BY <3>1, NoneIsTyped DEF AccInv, AccTypes
    <3> QED
      BY <2>1, <3>1, <3>2, <3>3 DEF ApiInv
  <2>2. ApiInv'
    BY <1>13, <2>1 DEF LookUpAgain, ApiInv
  <2> QED
    BY <1>13, <2>2, BindInv
<1>14. ASSUME NEW r \in AccRequests, ApplyToMemory(r)
       PROVE  AccInv' /\ ApiInv'
  BY <1>14, ApplyToMemoryInv, ApplyToMemoryApi
<1> QED
  BY <1>1, <1>2, <1>3, <1>4, <1>5, <1>6, <1>7, <1>8, <1>9, <1>10, <1>11, <1>12, <1>13, <1>14
  DEF AccNext

\* The invariant both theorems follow from.
THEOREM AccInvariant == AccSpec => [](AccInv /\ ApiInv)
<1>1. AccInit => AccInv /\ ApiInv
  BY AccInitInv
<1>2. (AccInv /\ ApiInv) /\ [AccNext]_accVars => (AccInv /\ ApiInv)'
  BY AccStep
<1> QED
  BY <1>1, <1>2, PTL DEF AccSpec

\* Once the requests about an account have ended, memory has the password of
\* its active row, unless requests or a load overlapped, or the load at
\* start-up failed, or an update named a row that does not exist: for any
\* number of requests, restarts and reloads (smmc_config.go:118-144, 166-200,
\* authenticator.go:325-330).
THEOREM MemoryFollowsAlways == AccSpec => []MemoryFollowsTable
<1>1. AccInv => MemoryFollowsTable
  <2> SUFFICES ASSUME AccInv, NEW i \in RowIDs,
                      smmc[i].active, serving, Quiet(smmc[i].sid), smmc[i].sid \notin unsettled
               PROVE  accounts[smmc[i].sid].pw = smmc[i].pw
    BY DEF MemoryFollowsTable
  <2>1. smmc[i].sid \in SystemIDs
    BY NoneIsTyped, RowType DEF AccInv, AccTypes
  <2>2. Follows(smmc[i].sid)
    BY <2>1 DEF AccInv, FollowInv
  <2> QED
    BY <2>2 DEF Follows, ActiveRowsHave
<1> QED
  BY <1>1, AccInvariant, PTL

\* The second look-up of an account that has authenticated finds it, whatever
\* the web API does in between (smmc_server.go:283).
THEOREM SecondLookUpFindsAlways == AccSpec => []SecondLookUpFinds
<1>1. ApiInv => SecondLookUpFinds
  BY DEF ApiInv, SecondLookUpFinds
<1> QED
  BY <1>1, AccInvariant, PTL
=============================================================================
