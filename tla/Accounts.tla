------------------------------ MODULE Accounts ------------------------------
(***************************************************************************)
(* The accounts of the external network elements: the tables external_smmc  *)
(* and account_ips, the copy of them in the Authenticator's memory, and     *)
(* those that write either: the web API (api/handlers/smmc_config.go), the  *)
(* Authenticator's own operations, the load at start-up, and a crash.       *)
(*                                                                         *)
(* Each SQL statement is atomic, SaveAccount's transaction as a whole; a    *)
(* change of memory is a step of its own, and requests run concurrently.    *)
(* The program calls the Authenticator's SaveAccount and DeleteAccount and  *)
(* a second load nowhere but in a test command; "accCallers" says whether   *)
(* the behaviour is one of the program ("api") or of a user of the package  *)
(* ("library").  Of an account only the password and the allowed addresses  *)
(* are kept: the other columns are copied as the password is.               *)
(***************************************************************************)
EXTENDS Integers, FiniteSets

CONSTANTS
    SystemIDs, Passwords, Addresses,
    AccRequests,    \* goroutines that serve a request of the API, or a bind
    AccMaxRows,     \* bound: rows inserted (AUTO_INCREMENT never reuses an id)
    AccMaxWrites,   \* bound: statements that write the tables
    AccMaxRestarts, \* bound: crashes of the process
    UseIPWhitelist  \* Authenticator.useIPWhitelist

ASSUME AccAssumption ==
    /\ AccMaxRows \in Nat /\ AccMaxWrites \in Nat /\ AccMaxRestarts \in Nat
    /\ UseIPWhitelist \in BOOLEAN
    /\ "none" \notin Passwords /\ "none" \notin SystemIDs

RowIDs == 1..AccMaxRows
NoAccount == [pw |-> "none", ips |-> {}]
NoRow == [sid |-> "none", pw |-> "none", active |-> FALSE]
Rows == [sid : SystemIDs, pw : Passwords, active : BOOLEAN]
IdleRequest == [op |-> "idle", sid |-> "none", account |-> NoAccount]

VARIABLES
    accCallers,  \* whose behaviour this is: "api" or "library"
    smmc,        \* table external_smmc: a row per id; system_id is UNIQUE
    inserted,    \* AUTO_INCREMENT counter
    accountIPs,  \* table account_ips, per system_id
    accounts,    \* a.accounts, nil as NoAccount
    whitelist,   \* a.ipWhitelist
    request,     \* what each request goroutine has still to do
    loading,     \* whether a load is under way
    loaded,      \* the accounts it has read so far
    unread,      \* the accounts whose addresses the load has still to query
    serving,     \* start-up is over: binds and API requests are served
    panicked,    \* a goroutine dereferenced a nil account: the process ends
    unsettled,   \* history: system ids whose memory need not follow the table
    writes, restarts

tableVars == <<smmc, inserted, accountIPs, writes>>
loadVars == <<loading, loaded, unread, serving>>
accVars == <<accCallers, smmc, inserted, accountIPs, accounts, whitelist, request,
             loading, loaded, unread, serving, panicked, unsettled, writes, restarts>>

RowOf(s) == {i \in RowIDs : smmc[i].sid = s}
Active(s) == \E i \in RowOf(s) : smmc[i].active

AccInit ==
    /\ accCallers \in {"api", "library"}
    /\ smmc = [i \in RowIDs |-> NoRow]
    /\ inserted = 0
    /\ accountIPs = [s \in SystemIDs |-> {}]
    /\ accounts = [s \in SystemIDs |-> NoAccount]
    /\ whitelist = {}
    /\ request = [r \in AccRequests |-> IdleRequest]
    /\ loading = FALSE /\ unread = {}
    /\ loaded = [s \in SystemIDs |-> NoAccount]
    /\ serving = FALSE
    /\ panicked = FALSE
    /\ unsettled = {}
    /\ writes = 0 /\ restarts = 0

-----------------------------------------------------------------------------
\* What a statement that writes a row of system id s is followed by: the
\* goroutine has its account to register.  A system id that another goroutine
\* is about to register, or that a load is reading, is not settled.
Busy(s, r) ==
    \/ \E q \in AccRequests \ {r} : request[q].op \in {"register", "forget"} /\ request[q].sid = s
    \/ loading

\* The ids whose two copies can come apart: those in S, and s if it is busy.
Unsettle(r, s, S) ==
    unsettled' = unsettled \cup S \cup (IF Busy(s, r) THEN {s} ELSE {})

RegisterNext(r, s, p, ips) ==
    request' = [request EXCEPT ![r] =
        [op |-> "register", sid |-> s, account |-> [pw |-> p, ips |-> ips]]]

CanWrite(r) ==
    /\ serving /\ ~panicked
    /\ request[r] = IdleRequest
    /\ writes < AccMaxWrites

\* CreateConfig: INSERT, refused by the unique key if the system id is taken.
\* The account it registers has no address restriction and is not tested for
\* is_active.
CreateConfig(r, row) ==
    /\ accCallers = "api"
    /\ CanWrite(r)
    /\ inserted < AccMaxRows
    /\ RowOf(row.sid) = {}
    /\ smmc' = [smmc EXCEPT ![inserted + 1] = row]
    /\ inserted' = inserted + 1
    /\ writes' = writes + 1
    /\ RegisterNext(r, row.sid, row.pw, {})
    /\ Unsettle(r, row.sid, {})
    /\ UNCHANGED <<accCallers, accountIPs, accounts, whitelist, loadVars, panicked, restarts>>

\* The handler without the call of RegisterAccount.
UpdateConfigAlone(r, i, row) ==
    LET old == smmc[i].sid IN
    /\ accCallers = "api"
    /\ CanWrite(r)
    /\ smmc[i] # NoRow
    /\ RowOf(row.sid) \subseteq {i}
    /\ old # row.sid => accountIPs[old] = {}
    /\ smmc' = [smmc EXCEPT ![i] = row]
    /\ writes' = writes + 1
    /\ UNCHANGED request
    /\ Unsettle(r, row.sid, {})
    /\ UNCHANGED <<accCallers, inserted, accountIPs, accounts, whitelist, loadVars, panicked, restarts>>

\* UpdateConfig of row i, which the foreign key refuses if the row is renamed
\* and has addresses, and the unique key if the new name is taken.
UpdateConfig(r, i, row) ==
    LET old == smmc[i].sid IN
    /\ accCallers = "api"
    /\ CanWrite(r)
    /\ smmc[i] # NoRow
    /\ RowOf(row.sid) \subseteq {i}
    /\ old # row.sid => accountIPs[old] = {}
    /\ smmc' = [smmc EXCEPT ![i] = row]
    /\ writes' = writes + 1
    /\ RegisterNext(r, row.sid, row.pw, {})
    /\ Unsettle(r, row.sid, {})
    /\ UNCHANGED <<accCallers, inserted, accountIPs, accounts, whitelist, loadVars, panicked, restarts>>

\* UpdateConfig of an id that has no row: no row is changed, which is no error,
\* and the account is registered all the same.
UpdateMissing(r, i, row) ==
    /\ accCallers = "api"
    /\ CanWrite(r)
    /\ smmc[i] = NoRow
    /\ writes' = writes + 1
    /\ RegisterNext(r, row.sid, row.pw, {})
    /\ Unsettle(r, row.sid, {row.sid})
    /\ UNCHANGED <<accCallers, smmc, inserted, accountIPs, accounts, whitelist, loadVars, panicked, restarts>>

\* The handler as its TODO would have it: the account leaves the memory too.
DeleteConfigAndForget(r, i) ==
    /\ accCallers = "api"
    /\ CanWrite(r)
    /\ smmc[i] # NoRow
    /\ smmc' = [smmc EXCEPT ![i] = NoRow]
    /\ accountIPs' = [accountIPs EXCEPT ![smmc[i].sid] = {}]
    /\ accounts' = [accounts EXCEPT ![smmc[i].sid] = NoAccount]
    /\ writes' = writes + 1
    /\ UNCHANGED <<accCallers, inserted, whitelist, request, loadVars, panicked, unsettled, restarts>>

\* DeleteConfig: the row, and by the foreign key its addresses; the memory
\* keeps the account.
DeleteConfig(r, i) ==
    /\ accCallers = "api"
    /\ CanWrite(r)
    /\ smmc[i] # NoRow
    /\ smmc' = [smmc EXCEPT ![i] = NoRow]
    /\ accountIPs' = [accountIPs EXCEPT ![smmc[i].sid] = {}]
    /\ writes' = writes + 1
    /\ UNCHANGED <<accCallers, inserted, accounts, whitelist, request, loadVars, panicked, unsettled, restarts>>

\* SaveAccount's transaction: the row is updated, whether active or not, or
\* inserted as active, and its addresses are replaced.  (Where MySQL is strict
\* the INSERT fails for want of interface_name, and the transaction with it.)
SaveAccount(r, s, p, ips) ==
    /\ accCallers = "library"
    /\ CanWrite(r)
    /\ \/ \E i \in RowOf(s) :
            smmc' = [smmc EXCEPT ![i].pw = p] /\ UNCHANGED inserted
       \/ /\ RowOf(s) = {} /\ inserted < AccMaxRows
          /\ smmc' = [smmc EXCEPT ![inserted + 1] = [sid |-> s, pw |-> p, active |-> TRUE]]
          /\ inserted' = inserted + 1
    /\ accountIPs' = [accountIPs EXCEPT ![s] = ips]
    /\ writes' = writes + 1
    /\ RegisterNext(r, s, p, ips)
    /\ Unsettle(r, s, {})
    /\ UNCHANGED <<accCallers, accounts, whitelist, loadVars, panicked, restarts>>

\* DeleteAccount: the row goes first, by the statement, then the memory.
DeleteAccount(r, s) ==
    /\ accCallers = "library"
    /\ CanWrite(r)
    /\ smmc' = [i \in RowIDs |-> IF i \in RowOf(s) THEN NoRow ELSE smmc[i]]
    /\ accountIPs' = [accountIPs EXCEPT ![s] = {}]
    /\ writes' = writes + 1
    /\ request' = [request EXCEPT ![r] = [IdleRequest EXCEPT !.op = "forget", !.sid = s]]
    /\ Unsettle(r, s, {})
    /\ UNCHANGED <<accCallers, inserted, accounts, whitelist, loadVars, panicked, restarts>>

\* RegisterAccount, or the delete that ends DeleteAccount, under a.mu.  A write
\* of the table that nobody overtook settles its system id.
ApplyToMemory(r) ==
    LET q == request[r] IN
    /\ ~panicked
    /\ q.op \in {"register", "forget"}
    /\ accounts' = [accounts EXCEPT ![q.sid] = q.account]
    /\ request' = [request EXCEPT ![r] = IdleRequest]
    /\ UNCHANGED <<accCallers, tableVars, whitelist, loadVars, panicked, unsettled, restarts>>

-----------------------------------------------------------------------------
\* LoadAccountsFromDB: at start-up, or again by a user of the package.

\* The query of the active rows.
QueryAccounts ==
    /\ ~panicked /\ ~loading /\ loading' = TRUE
    /\ ~serving \/ accCallers = "library"
    /\ unread' = {s \in SystemIDs : Active(s)}
    /\ loaded' = [s \in SystemIDs |->
         IF s \in unread' THEN [pw |-> smmc[CHOOSE i \in RowOf(s) : TRUE].pw, ips |-> {}]
         ELSE NoAccount]
    /\ unsettled' = unsettled \cup
         {request[r].sid : r \in {q \in AccRequests : request[q].op \in {"register", "forget"}}}
    /\ UNCHANGED <<accCallers, tableVars, accounts, whitelist, request, serving, panicked, restarts>>

\* The query of one account's addresses.
QueryIPs(s) ==
    /\ s \in unread
    /\ loaded' = [loaded EXCEPT ![s].ips = accountIPs[s]]
    /\ unread' = unread \ {s}
    /\ UNCHANGED <<loading, accCallers, tableVars, accounts, whitelist, request, serving, panicked, unsettled, restarts>>

\* The map is replaced under a.mu; after start-up's load the rest is started.
LoadReplaces ==
    /\ loading /\ unread = {}
    /\ accounts' = loaded
    /\ loading' = FALSE
    /\ loaded' = [s \in SystemIDs |-> NoAccount]
    /\ serving' = TRUE
    /\ UNCHANGED <<accCallers, tableVars, unread, whitelist, request, panicked, unsettled, restarts>>

\* A query or a scan fails: memory is left as it was, and start-up goes on.
LoadFails ==
    /\ loading
    /\ loading' = FALSE /\ unread' = {}
    /\ loaded' = [s \in SystemIDs |-> NoAccount]
    /\ serving' = TRUE
    /\ unsettled' = IF serving THEN unsettled ELSE SystemIDs
    /\ UNCHANGED <<accCallers, tableVars, accounts, whitelist, request, panicked, restarts>>

\* LoadAccounts, which AccountManager repeats, asks for a table "accounts" that
\* no migration creates: it returns the error and changes nothing.
LoadAccounts ==
    /\ accCallers = "library" /\ serving /\ ~panicked
    /\ UNCHANGED accVars

\* A tick of AccountManager's loop, which ignores the error.
ReloadLoop == LoadAccounts

-----------------------------------------------------------------------------
\* Authenticate and the look-up that follows it in handleConnection.

WhitelistPasses(ip) == UseIPWhitelist => whitelist = {} \/ ip \in whitelist
AddressPasses(s, ip) == accounts[s].ips = {} \/ ip \in accounts[s].ips

\* Authenticate finds the account, its password, and the address allowed.
Authenticate(r, s, p, ip) ==
    /\ serving /\ ~panicked
    /\ request[r] = IdleRequest
    /\ accounts[s] # NoAccount /\ accounts[s].pw = p
    /\ WhitelistPasses(ip) /\ AddressPasses(s, ip)
    /\ request' = [request EXCEPT ![r] = [IdleRequest EXCEPT !.op = "bind", !.sid = s]]
    /\ UNCHANGED <<accCallers, tableVars, accounts, whitelist, loadVars, panicked, unsettled, restarts>>

\* GetAccount again: the fields of a nil account are dereferenced.
LookUpAgain(r) ==
    /\ ~panicked
    /\ request[r].op = "bind"
    /\ panicked' = (accounts[request[r].sid] = NoAccount)
    /\ request' = [request EXCEPT ![r] = IdleRequest]
    /\ UNCHANGED <<accCallers, tableVars, accounts, whitelist, loadVars, unsettled, restarts>>

\* AddIP, AddCIDR and Clear of the white list, which the program never calls.
ChangeWhitelist ==
    /\ accCallers = "library" /\ serving /\ ~panicked
    /\ \/ \E ip \in Addresses : whitelist' = whitelist \cup {ip}
       \/ whitelist' = {}
    /\ UNCHANGED <<accCallers, tableVars, accounts, request, loadVars, panicked, unsettled, restarts>>

\* The process ends, by itself or by a panic, and a new one starts: memory is
\* lost, the tables are not.
Restart ==
    /\ restarts < AccMaxRestarts
    /\ restarts' = restarts + 1
    /\ accounts' = [s \in SystemIDs |-> NoAccount]
    /\ whitelist' = {}
    /\ request' = [r \in AccRequests |-> IdleRequest]
    /\ loading' = FALSE /\ unread' = {} /\ serving' = FALSE
    /\ loaded' = [s \in SystemIDs |-> NoAccount]
    /\ panicked' = FALSE
    /\ unsettled' = {}
    /\ UNCHANGED <<accCallers, tableVars>>

AccNext ==
    \/ QueryAccounts \/ LoadReplaces \/ LoadFails \/ ReloadLoop \/ ChangeWhitelist \/ Restart
    \/ \E s \in SystemIDs : QueryIPs(s)
    \/ \E r \in AccRequests :
        \/ \E row \in Rows : CreateConfig(r, row)
        \/ \E i \in RowIDs, row \in Rows : UpdateConfig(r, i, row) \/ UpdateMissing(r, i, row)
        \/ \E i \in RowIDs : DeleteConfig(r, i)
        \/ \E s \in SystemIDs, p \in Passwords, ips \in SUBSET Addresses : SaveAccount(r, s, p, ips)
        \/ \E s \in SystemIDs : DeleteAccount(r, s)
        \/ \E s \in SystemIDs, p \in Passwords, ip \in Addresses : Authenticate(r, s, p, ip)
        \/ ApplyToMemory(r)
        \/ LookUpAgain(r)

AccSpec == AccInit /\ [][AccNext]_accVars

-----------------------------------------------------------------------------
\* Type invariant of the accounts.
AccTypeOK ==
    /\ smmc \in [RowIDs -> Rows \cup {NoRow}]
    /\ \A i, j \in RowIDs : smmc[i].sid = smmc[j].sid => i = j \/ smmc[i] = NoRow
    /\ accountIPs \in [SystemIDs -> SUBSET Addresses]
    /\ DOMAIN accounts = SystemIDs
    /\ unread \subseteq SystemIDs
    /\ unsettled \subseteq SystemIDs

\* No goroutine is on its way to change s in memory.
Quiet(s) == ~ \E r \in AccRequests : request[r].op \in {"register", "forget"} /\ request[r].sid = s

\* Memory has the password of every active row, once the requests about it have
\* ended, unless two of them overlapped, a load overlapped one, the load at
\* start-up failed, or an update named a row that does not exist.
\* (The statement and RegisterAccount are two steps, smmc_config.go:118-144,
\* 166-200, authenticator.go:325-330.)
MemoryFollowsTable ==
    \A i \in RowIDs :
        smmc[i].active /\ serving /\ Quiet(smmc[i].sid) /\ smmc[i].sid \notin unsettled
            => accounts[smmc[i].sid].pw = smmc[i].pw

\* The program's second look-up of an account finds it, because nothing takes
\* an account out of memory while it runs: the reason, too, why a deleted or
\* disabled account goes on to be served until a restart.
\* (smmc_server.go:283 ignores the second result of GetAccount.)
SecondLookUpFinds == accCallers = "api" => ~panicked
=============================================================================
