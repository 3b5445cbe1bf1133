------------------------------ MODULE Startup ------------------------------
(***************************************************************************)
(* The start of the gateway: app.New runs the migrations, creates the first *)
(* account of an empty store and leaves its token in a file, and loads or   *)
(* creates the host key, one step after the other and in that order; only   *)
(* then does it serve.  A crash may come between any two steps, and a file  *)
(* or a statement may fail; whoever runs the gateway starts it again.       *)
(*                                                                         *)
(* The store survives, and so do the two files.  os.WriteFile truncates    *)
(* before it writes, so a file can be left "cut".  Between the token and    *)
(* the host key New closes the rows of the sessions that a crash cut off,   *)
(* which SessionLifecycle models; where that fails, the start breaks.       *)
(***************************************************************************)
EXTENDS Naturals, FiniteSets

CONSTANTS Migrations, \* how many migrations the modules list
          MaxFaults,  \* bound of the model: crashes and failures
          MaxSecrets  \* bound of the model: tokens, after which no account changes

ASSUME StartupAssumption ==
  Migrations \in Nat /\ MaxFaults \in Nat /\ MaxSecrets \in Nat

VARIABLES
  pc,        \* the step of New, "serving" or "down"
  next,      \* the migration that store.Migrate has reached
  tx,        \* whether applyMigration's transaction is "open"
  schema,    \* migrations whose statement has taken effect in the database
  recorded,  \* rows of schema_migrations
  accounts,  \* rows of users
  tokens,    \* rows of tokens: [secret, of]
  minted,    \* secrets minted so far are 1 .. minted
  tokenFile, \* bootstrap-token, which holds a secret
  hostFile,  \* host_ed25519, which holds a key
  keys,      \* host keys generated so far are 1 .. keys
  hostKey,   \* the key the running server presents, 0 for none
  known,     \* secrets that whoever runs the gateway holds
  shown,     \* history: host keys that clients were shown
  firsts,    \* history: accounts that bootstrap created
  emptied,   \* history: times the last account was deleted
  faults     \* crashes and failures so far

database == <<schema, recorded, accounts, tokens, minted>>
files    == <<tokenFile, hostFile, keys>>
history  == <<shown, firsts, emptied>>
vars     == <<pc, next, tx, database, files, hostKey, known, history, faults>>

-----------------------------------------------------------------------------
Step == {"down", "migrate", "count", "createUser", "issueToken", "openTokenFile",
         "writeToken", "readHostKey", "openHostKey", "writeHostKey", "serving"}

File == [is : {"absent", "cut", "whole"}, holds : Nat]

Absent   == [is |-> "absent", holds |-> 0]
Cut      == [is |-> "cut", holds |-> 0]
Whole(v) == [is |-> "whole", holds |-> v]

\* "admin" is the account of bootstrap, "other" one created through the API.
Account == {"admin", "other"}

TypeOK ==
  /\ pc \in Step
  /\ next \in 1..Migrations + 1
  /\ tx \in {"none", "open"}
  /\ schema \subseteq 1..Migrations /\ recorded \subseteq 1..Migrations
  /\ accounts \subseteq Account
  /\ tokens \subseteq [secret : Nat, of : accounts]
  /\ minted \in Nat /\ keys \in Nat /\ hostKey \in Nat
  /\ tokenFile \in File /\ hostFile \in File
  /\ known \subseteq Nat /\ shown \subseteq Nat
  /\ firsts \in Nat /\ emptied \in Nat /\ faults \in Nat

Init ==
  /\ pc = "down" /\ next = 1 /\ tx = "none"
  /\ schema = {} /\ recorded = {} /\ accounts = {} /\ tokens = {} /\ minted = 0
  /\ tokenFile = Absent /\ hostFile = Absent /\ keys = 0
  /\ hostKey = 0 /\ known = {}
  /\ shown = {} /\ firsts = 0 /\ emptied = 0 /\ faults = 0

Goto(from, to) == pc = from /\ pc' = to

-----------------------------------------------------------------------------
(* store.Migrate                                                             *)

Start ==
  /\ Goto("down", "migrate")
  /\ next' = 1
  /\ UNCHANGED <<tx, database, files, hostKey, known, history, faults>>

\* A migration that is recorded is not run again.
SkipApplied ==
  /\ pc = "migrate" /\ tx = "none" /\ next \in recorded
  /\ next' = next + 1
  /\ UNCHANGED <<pc, tx, database, files, hostKey, known, history, faults>>

\* Mutant: the statement of a migration is its own transaction.
ApplyMigrationAlone ==
  /\ pc = "migrate" /\ tx = "none" /\ next \in (1..Migrations) \ recorded
  /\ IF next \in schema THEN pc' = "down" /\ UNCHANGED <<tx, schema>>
     ELSE tx' = "open" /\ schema' = schema \cup {next} /\ UNCHANGED pc
  /\ UNCHANGED <<next, recorded, accounts, tokens, minted, files, hostKey, known,
                 history, faults>>

\* Mutant: the row of schema_migrations is inserted first, outside the transaction.
ApplyMigrationRecorded ==
  /\ pc = "migrate" /\ tx = "none" /\ next \in (1..Migrations) \ recorded
  /\ IF next \in schema THEN pc' = "down" /\ UNCHANGED <<tx, recorded>>
     ELSE tx' = "open" /\ recorded' = recorded \cup {next} /\ UNCHANGED pc
  /\ UNCHANGED <<next, schema, accounts, tokens, minted, files, hostKey, known,
                 history, faults>>

\* The statement of a migration, a CREATE or an ALTER, fails where it has already
\* taken effect; otherwise it is pending until the commit.
ApplyMigration ==
  /\ pc = "migrate" /\ tx = "none" /\ next \in (1..Migrations) \ recorded
  /\ IF next \in schema THEN pc' = "down" /\ UNCHANGED tx
     ELSE tx' = "open" /\ UNCHANGED pc
  /\ UNCHANGED <<next, database, files, hostKey, known, history, faults>>

\* The row of schema_migrations is inserted and the transaction is committed.
CommitMigration ==
  /\ pc = "migrate" /\ tx = "open"
  /\ tx' = "none" /\ next' = next + 1
  /\ schema' = schema \cup {next} /\ recorded' = recorded \cup {next}
  /\ UNCHANGED <<pc, accounts, tokens, minted, files, hostKey, known, history,
                 faults>>

StoreReady ==
  /\ next > Migrations
  /\ Goto("migrate", "count")
  /\ UNCHANGED <<next, tx, database, files, hostKey, known, history, faults>>

-----------------------------------------------------------------------------
(* App.bootstrap and identity.bootstrap                                      *)

\* Mutant: the account of bootstrap is looked for, and not any account.
CountAdmins ==
  /\ pc = "count"
  /\ pc' = IF "admin" \in accounts THEN "readHostKey" ELSE "createUser"
  /\ UNCHANGED <<next, tx, database, files, hostKey, known, history, faults>>

CountUsers ==
  /\ pc = "count"
  /\ pc' = IF accounts # {} THEN "readHostKey" ELSE "createUser"
  /\ UNCHANGED <<next, tx, database, files, hostKey, known, history, faults>>

CreateUser ==
  /\ Goto("createUser", "issueToken")
  /\ accounts' = accounts \cup {"admin"}
  /\ firsts' = firsts + 1
  /\ UNCHANGED <<next, tx, schema, recorded, tokens, minted, files, hostKey, known,
                 shown, emptied, faults>>

\* issueToken: a new secret for the account a.
IssueToken(a) ==
  /\ minted' = minted + 1
  /\ tokens' = tokens \cup {[secret |-> minted', of |-> a]}

IssueFirstToken ==
  /\ Goto("issueToken", "openTokenFile")
  /\ IssueToken("admin")
  /\ UNCHANGED <<next, tx, schema, recorded, accounts, files, hostKey, known,
                 history, faults>>

OpenTokenFile ==
  /\ Goto("openTokenFile", "writeToken")
  /\ tokenFile' = Cut
  /\ UNCHANGED <<next, tx, database, hostFile, keys, hostKey, known, history, faults>>

WriteToken ==
  /\ Goto("writeToken", "readHostKey")
  /\ tokenFile' = Whole(minted)
  /\ UNCHANGED <<next, tx, database, hostFile, keys, hostKey, known, history, faults>>

-----------------------------------------------------------------------------
(* loadOrCreateHostKey                                                       *)

Serve(key) == hostKey' = key /\ shown' = shown \cup {key}

\* A file that cannot be parsed is refused, and never replaced.
ReadHostKey ==
  /\ pc = "readHostKey"
  /\ \/ hostFile = Absent /\ pc' = "openHostKey" /\ UNCHANGED <<hostKey, shown>>
     \/ hostFile = Cut /\ pc' = "down" /\ UNCHANGED <<hostKey, shown>>
     \/ hostFile.is = "whole" /\ pc' = "serving" /\ Serve(hostFile.holds)
  /\ UNCHANGED <<next, tx, database, files, known, firsts, emptied, faults>>

OpenHostKey ==
  /\ Goto("openHostKey", "writeHostKey")
  /\ hostFile' = Cut /\ keys' = keys + 1
  /\ UNCHANGED <<next, tx, database, tokenFile, hostKey, known, history, faults>>

WriteHostKey ==
  /\ Goto("writeHostKey", "serving")
  /\ hostFile' = Whole(keys) /\ Serve(keys)
  /\ UNCHANGED <<next, tx, database, tokenFile, keys, known, firsts, emptied, faults>>

-----------------------------------------------------------------------------
(* Whoever runs the gateway.                                                 *)

\* cat data/bootstrap-token
ReadToken ==
  /\ tokenFile.is = "whole"
  /\ known' = known \cup {tokenFile.holds}
  /\ UNCHANGED <<pc, next, tx, database, files, hostKey, history, faults>>

\* rm data/bootstrap-token, once it has been read
RemoveTokenFile ==
  /\ tokenFile.is = "whole" /\ tokenFile.holds \in known
  /\ tokenFile' = Absent
  /\ UNCHANGED <<pc, next, tx, database, hostFile, keys, hostKey, known, history,
                 faults>>

SignedIn ==
  pc = "serving" /\ minted < MaxSecrets /\ \E t \in tokens : t.secret \in known

\* A second administrator and a token of its own.
CreateOther ==
  /\ SignedIn /\ "other" \notin accounts
  /\ accounts' = accounts \cup {"other"}
  /\ IssueToken("other")
  /\ known' = known \cup {minted'}
  /\ UNCHANGED <<pc, next, tx, schema, recorded, files, hostKey, history, faults>>

\* deleteUser: the tokens of the account go with it; it may be the caller's own,
\* and the last.
DeleteAccount(a) ==
  /\ SignedIn /\ a \in accounts
  /\ accounts' = accounts \ {a}
  /\ tokens' = {t \in tokens : t.of # a}
  /\ emptied' = IF accounts' = {} THEN emptied + 1 ELSE emptied
  /\ UNCHANGED <<pc, next, tx, schema, recorded, minted, files, hostKey, known,
                 shown, firsts, faults>>

-----------------------------------------------------------------------------
(* The end of the process.                                                   *)

Gone == pc' = "down" /\ tx' = "none" /\ hostKey' = 0

Stop ==
  /\ pc = "serving" /\ Gone
  /\ UNCHANGED <<next, database, files, known, history, faults>>

\* Mutant: whatever is wrong with the host key, a new one is made.
BreakRegenerating ==
  /\ pc # "down" /\ faults < MaxFaults
  /\ faults' = faults + 1
  /\ IF pc = "readHostKey" THEN pc' = "openHostKey" /\ UNCHANGED <<tx, hostKey>>
     ELSE Gone
  /\ UNCHANGED <<next, database, files, known, history>>

\* The process crashes, or the step it is at fails and New returns the error: an
\* open transaction is rolled back, a file is left as it is.
Break ==
  /\ pc # "down" /\ faults < MaxFaults
  /\ faults' = faults + 1
  /\ Gone
  /\ UNCHANGED <<next, database, files, known, history>>

-----------------------------------------------------------------------------
Migrate   == SkipApplied \/ ApplyMigration \/ CommitMigration \/ StoreReady
Bootstrap == CountUsers \/ CreateUser \/ IssueFirstToken \/ OpenTokenFile \/ WriteToken
HostKey   == ReadHostKey \/ OpenHostKey \/ WriteHostKey
Operator  == \/ ReadToken \/ RemoveTokenFile \/ CreateOther
             \/ \E a \in Account : DeleteAccount(a)

New  == Start \/ Migrate \/ Bootstrap \/ HostKey
Next == New \/ Operator \/ Stop \/ Break

Spec == Init /\ [][Next]_vars

\* New is sequential code, and the gateway is started again whenever it is down.
LiveSpec == Spec /\ WF_vars(New)

-----------------------------------------------------------------------------
\* Whatever broke the runs that applied them, the migrations that have taken
\* effect are the recorded ones, so none is run twice, and none is left out.
MigrationsAreWhole ==
  schema = recorded /\ \E n \in 0..Migrations : recorded = 1..n

\* However starts break, clients are never shown a second host key.
OneHostKey == hostKey # 0 => shown = {hostKey}

\* A restart does not mint a second administrator: one is created only for a
\* store with no account left.
NoSecondAdmin == firsts <= emptied + 1

\* A gateway that breaks now and then serves again, unless a break has cut the
\* host key short.
ServesAgain == []<>(pc = "serving" \/ hostFile = Cut)

-----------------------------------------------------------------------------
\* Whenever the gateway serves and has accounts, somebody can sign in.
AdminIsReachable ==
  pc = "serving" /\ accounts # {} =>
    \E t \in tokens : t.secret \in known \cup {tokenFile.holds}
=============================================================================
