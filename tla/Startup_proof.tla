--------------------------- MODULE Startup_proof ---------------------------
(***************************************************************************)
(* Theorems about Startup, for any number of migrations and of breaks.      *)
(***************************************************************************)
EXTENDS Startup, TLAPS

-----------------------------------------------------------------------------
(* The inductive invariant.                                                  *)

\* The migrations before the one that was reached are recorded, and a
\* transaction is open only for one that is not.
MigrationIsNext ==
  /\ 1..(next - 1) \subseteq recorded
  /\ tx = "open" => pc = "migrate" /\ next \in (1..Migrations) \ recorded

\* A key that was shown is in the file, and stays there: the file is opened for
\* writing only when it is absent.
ShownKeyIsKept ==
  /\ hostFile.is # "whole" => shown = {}
  /\ hostFile.is = "whole" => shown \subseteq {hostFile.holds}
  /\ pc = "openHostKey" => hostFile.is = "absent"
  /\ pc = "writeHostKey" => hostFile.is = "cut"

\* An account is created by bootstrap for a store that has none.
FirstIsAlone ==
  /\ pc = "createUser" => accounts = {}
  /\ pc = "issueToken" => "admin" \in accounts
  /\ accounts = {} => firsts <= emptied

IInv ==
  /\ TypeOK
  /\ MigrationsAreWhole /\ MigrationIsNext
  /\ OneHostKey /\ ShownKeyIsKept
  /\ NoSecondAdmin /\ FirstIsAlone

-----------------------------------------------------------------------------
LEMMA InitHolds == Init => IInv
<1> SUFFICES ASSUME Init PROVE IInv
  OBVIOUS
<1>1. TypeOK
  BY StartupAssumption DEF Init, TypeOK, Step, Account, File, Absent
<1>2. MigrationsAreWhole
  <2>1. 0 \in 0..Migrations /\ recorded = 1..0 /\ schema = recorded
    BY StartupAssumption DEF Init
  <2> QED
    BY <2>1 DEF MigrationsAreWhole
<1>3. MigrationIsNext
  BY DEF Init, MigrationIsNext
<1> QED
  BY <1>1, <1>2, <1>3
     DEF Init, IInv, OneHostKey, ShownKeyIsKept, NoSecondAdmin, FirstIsAlone, Absent

LEMMA FileTypes ==
  /\ Absent \in File /\ Cut \in File
  /\ \A v \in Nat : Whole(v) \in File
  /\ \A f \in File : f.holds \in Nat
BY DEF File, Absent, Cut, Whole

\* Every step keeps the types.
LEMMA TypesHold == IInv /\ [Next]_vars => TypeOK'
<1> SUFFICES ASSUME IInv, [Next]_vars PROVE TypeOK'
  OBVIOUS
<1> USE StartupAssumption DEF IInv
<1>1. CASE Start
  BY <1>1 DEF Start, Goto, TypeOK, Step, database, files, history
<1>2. CASE SkipApplied
  BY <1>2 DEF SkipApplied, TypeOK, database, files, history
<1>3. CASE ApplyMigration
  BY <1>3 DEF ApplyMigration, TypeOK, Step, database, files, history
<1>4. CASE CommitMigration
  <2>1. next \in 1..Migrations
    BY <1>4 DEF CommitMigration, MigrationIsNext
  <2> QED
    BY <1>4, <2>1 DEF CommitMigration, TypeOK, files, history
<1>5. CASE StoreReady \/ CountUsers
  BY <1>5 DEF StoreReady, CountUsers, Goto, TypeOK, Step, database, files, history
<1>6. CASE CreateUser
  <2>1. tokens' \subseteq [secret : Nat, of : accounts']
    BY <1>6 DEF CreateUser, TypeOK
  <2> QED
    BY <1>6, <2>1 DEF CreateUser, Goto, TypeOK, Step, Account, files
<1>7. CASE IssueFirstToken
  <2>1. tokens' \subseteq [secret : Nat, of : accounts']
    BY <1>7 DEF IssueFirstToken, IssueToken, Goto, TypeOK, FirstIsAlone
  <2> QED
    BY <1>7, <2>1 DEF IssueFirstToken, IssueToken, Goto, TypeOK, Step, files, history
<1>8. CASE OpenTokenFile \/ WriteToken
  <2>1. tokenFile' \in File
    BY <1>8, FileTypes DEF OpenTokenFile, WriteToken, TypeOK
  <2> QED
    BY <1>8, <2>1 DEF OpenTokenFile, WriteToken, Goto, TypeOK, Step, database, history
<1>9. CASE HostKey
  <2>1. /\ hostFile' \in File /\ keys' \in Nat /\ hostKey' \in Nat
        /\ shown' \subseteq Nat
    <3>1. CASE ReadHostKey
      BY <3>1, FileTypes DEF ReadHostKey, Serve, TypeOK, files
    <3>2. CASE OpenHostKey
      BY <3>2, FileTypes DEF OpenHostKey, TypeOK, history
    <3>3. CASE WriteHostKey
      BY <3>3, FileTypes DEF WriteHostKey, Serve, TypeOK
    <3> QED
      BY <1>9, <3>1, <3>2, <3>3 DEF HostKey
  <2>2. pc' \in Step
    BY <1>9 DEF HostKey, ReadHostKey, OpenHostKey, WriteHostKey, Goto, Step
  <2> QED
    BY <1>9, <2>1, <2>2 DEF HostKey, ReadHostKey, OpenHostKey, WriteHostKey, TypeOK,
                            database, files, history
<1>10. CASE ReadToken \/ RemoveTokenFile
  <2>1. tokenFile' \in File /\ known' \subseteq Nat
    BY <1>10, FileTypes DEF ReadToken, RemoveTokenFile, TypeOK, files
  <2> QED
    BY <1>10, <2>1 DEF ReadToken, RemoveTokenFile, TypeOK, database, files, history
<1>11. CASE CreateOther
  <2>1. tokens' \subseteq [secret : Nat, of : accounts']
    BY <1>11 DEF CreateOther, IssueToken, TypeOK
  <2> QED
    BY <1>11, <2>1 DEF CreateOther, IssueToken, TypeOK, Account, files, history
<1>12. ASSUME NEW a \in Account, DeleteAccount(a) PROVE TypeOK'
  <2>1. tokens' \subseteq [secret : Nat, of : accounts']
    BY <1>12 DEF DeleteAccount, TypeOK
  <2> QED
    BY <1>12, <2>1 DEF DeleteAccount, TypeOK, files
<1>13. CASE Stop \/ Break
  <2>1. pc' \in Step /\ tx' \in {"none", "open"} /\ hostKey' \in Nat /\ faults' \in Nat
    BY <1>13 DEF Stop, Break, Gone, TypeOK, Step
  <2> QED
    BY <1>13, <2>1 DEF Stop, Break, TypeOK, database, files, history
<1>14. CASE UNCHANGED vars
  BY <1>14 DEF vars, TypeOK, database, files, history
<1> QED
  BY <1>1, <1>2, <1>3, <1>4, <1>5, <1>6, <1>7, <1>8, <1>9, <1>10, <1>11, <1>12,
     <1>13, <1>14 DEF Next, New, Migrate, Bootstrap, Operator

\* Every step keeps the migrations a whole prefix of the list.
LEMMA MigrationsHold == IInv /\ [Next]_vars => MigrationsAreWhole' /\ MigrationIsNext'
<1> SUFFICES ASSUME IInv, [Next]_vars PROVE MigrationsAreWhole' /\ MigrationIsNext'
  OBVIOUS
<1> USE StartupAssumption DEF IInv
<1>1. CASE UNCHANGED <<next, tx, schema, recorded, pc>>
  BY <1>1 DEF MigrationsAreWhole, MigrationIsNext
<1>2. CASE UNCHANGED <<next, schema, recorded>> /\ tx' = "none"
  BY <1>2 DEF MigrationsAreWhole, MigrationIsNext
<1>3. CASE Start
  <2>1. next' = 1 /\ UNCHANGED <<tx, schema, recorded>> /\ tx # "open"
    BY <1>3 DEF Start, Goto, MigrationIsNext, database
  <2>2. MigrationsAreWhole'
    BY <2>1 DEF MigrationsAreWhole
  <2> QED
    BY <2>1, <2>2 DEF MigrationIsNext
<1>4. CASE SkipApplied
  <2>1. /\ next' = next + 1 /\ next \in recorded /\ tx' = "none"
        /\ UNCHANGED <<schema, recorded>>
    BY <1>4 DEF SkipApplied, database
  <2>2. 1..(next' - 1) \subseteq recorded'
    BY <2>1 DEF MigrationIsNext, TypeOK
  <2> QED
    BY <2>1, <2>2 DEF MigrationsAreWhole, MigrationIsNext
<1>5. CASE ApplyMigration
  BY <1>5 DEF ApplyMigration, MigrationsAreWhole, MigrationIsNext, database
<1>6. CASE CommitMigration
  <2>1. /\ next' = next + 1 /\ tx' = "none"
        /\ schema' = schema \cup {next} /\ recorded' = recorded \cup {next}
        /\ next \in 1..Migrations /\ next \notin recorded
    BY <1>6 DEF CommitMigration, MigrationIsNext
  <2>2. PICK n \in 0..Migrations : recorded = 1..n
    BY DEF MigrationsAreWhole
  <2>3. next = n + 1
    <3>1. next > n
      BY <2>1, <2>2
    <3>2. next <= n + 1
      BY <2>1, <2>2 DEF MigrationIsNext
    <3> QED
      BY <2>1, <2>2, <3>1, <3>2
  <2>4. n + 1 \in 0..Migrations /\ recorded' = 1..(n + 1)
    BY <2>1, <2>2, <2>3
  <2>5. MigrationsAreWhole'
    BY <2>1, <2>4 DEF MigrationsAreWhole
  <2> QED
    BY <2>1, <2>2, <2>3, <2>4, <2>5 DEF MigrationIsNext
<1>7. CASE StoreReady
  <2>1. tx # "open"
    BY <1>7 DEF StoreReady, MigrationIsNext
  <2> QED
    BY <1>7, <2>1 DEF StoreReady, MigrationsAreWhole, MigrationIsNext, database
<1>8. CASE Bootstrap \/ HostKey
  <2>1. tx # "open"
    BY <1>8 DEF MigrationIsNext, Bootstrap, CountUsers, CreateUser, IssueFirstToken,
                OpenTokenFile, WriteToken, HostKey, ReadHostKey, OpenHostKey,
                WriteHostKey, Goto
  <2>2. UNCHANGED <<next, tx, schema, recorded>>
    BY <1>8 DEF Bootstrap, CountUsers, CreateUser, IssueFirstToken,
                OpenTokenFile, WriteToken, HostKey, ReadHostKey, OpenHostKey,
                WriteHostKey, database
  <2> QED
    BY <2>1, <2>2 DEF MigrationsAreWhole, MigrationIsNext
<1>9. CASE Operator
  BY <1>1, <1>9 DEF Operator, ReadToken, RemoveTokenFile, CreateOther, DeleteAccount,
                    database
<1>10. CASE Stop \/ Break
  BY <1>2, <1>10 DEF Stop, Break, Gone, database
<1>11. CASE UNCHANGED vars
  BY <1>1, <1>11 DEF vars, database
<1> QED
  BY <1>3, <1>4, <1>5, <1>6, <1>7, <1>8, <1>9, <1>10, <1>11
     DEF Next, New, Migrate

\* Every step keeps the host key.
LEMMA HostKeyHolds == IInv /\ [Next]_vars => OneHostKey' /\ ShownKeyIsKept'
<1> SUFFICES ASSUME IInv, [Next]_vars PROVE OneHostKey' /\ ShownKeyIsKept'
  OBVIOUS
<1> USE DEF IInv
<1>1. ASSUME UNCHANGED <<hostFile, shown>>, hostKey' \in {0, hostKey},
             pc' \notin {"openHostKey", "writeHostKey"} \/ pc' = pc
      PROVE  OneHostKey' /\ ShownKeyIsKept'
  BY <1>1 DEF OneHostKey, ShownKeyIsKept
<1>2. CASE Start \/ Migrate
  BY <1>1, <1>2 DEF Start, Migrate, SkipApplied, ApplyMigration, CommitMigration,
                    StoreReady, Goto, files, history
<1>3. CASE Bootstrap
  BY <1>1, <1>3 DEF Bootstrap, CountUsers, CreateUser, IssueFirstToken, OpenTokenFile,
                    WriteToken, Goto, files, history
<1>4. CASE ReadHostKey
  <2>1. UNCHANGED hostFile
    BY <1>4 DEF ReadHostKey, files
  <2>2. CASE hostFile = Absent /\ pc' = "openHostKey" /\ UNCHANGED <<hostKey, shown>>
    BY <2>1, <2>2 DEF OneHostKey, ShownKeyIsKept, Absent
  <2>3. CASE hostFile = Cut /\ pc' = "down" /\ UNCHANGED <<hostKey, shown>>
    BY <1>1, <2>1, <2>3
  <2>4. CASE hostFile.is = "whole" /\ pc' = "serving" /\ Serve(hostFile.holds)
    BY <2>1, <2>4 DEF Serve, OneHostKey, ShownKeyIsKept
  <2> QED
    BY <1>4, <2>2, <2>3, <2>4 DEF ReadHostKey
<1>5. CASE OpenHostKey
  <2>1. shown = {} /\ hostFile' = Cut /\ pc' = "writeHostKey" /\ UNCHANGED <<shown, hostKey>>
    BY <1>5 DEF OpenHostKey, Goto, ShownKeyIsKept, history
  <2> QED
    BY <2>1 DEF OneHostKey, ShownKeyIsKept, Cut
<1>6. CASE WriteHostKey
  <2>1. /\ shown = {} /\ hostFile' = Whole(keys) /\ pc' = "serving"
        /\ hostKey' = keys /\ shown' = shown \cup {keys}
    BY <1>6 DEF WriteHostKey, Serve, Goto, ShownKeyIsKept
  <2> QED
    BY <2>1 DEF OneHostKey, ShownKeyIsKept, Whole
<1>7. CASE Operator
  BY <1>1, <1>7 DEF Operator, ReadToken, RemoveTokenFile, CreateOther, DeleteAccount,
                    files, history
<1>8. CASE Stop \/ Break
  BY <1>1, <1>8 DEF Stop, Break, Gone, files, history
<1>9. CASE UNCHANGED vars
  BY <1>1, <1>9 DEF vars, files, history
<1> QED
  BY <1>2, <1>3, <1>4, <1>5, <1>6, <1>7, <1>8, <1>9 DEF Next, New, HostKey

\* Every step keeps bootstrap to an empty store.
LEMMA FirstsHold == IInv /\ [Next]_vars => NoSecondAdmin' /\ FirstIsAlone'
<1> SUFFICES ASSUME IInv, [Next]_vars PROVE NoSecondAdmin' /\ FirstIsAlone'
  OBVIOUS
<1> USE DEF IInv
<1>1. ASSUME UNCHANGED <<accounts, firsts, emptied>>,
             pc' \notin {"createUser", "issueToken"} \/ pc' = pc
      PROVE  NoSecondAdmin' /\ FirstIsAlone'
  BY <1>1 DEF NoSecondAdmin, FirstIsAlone
<1>2. CASE Start \/ Migrate
  BY <1>1, <1>2 DEF Start, Migrate, SkipApplied, ApplyMigration, CommitMigration,
                    StoreReady, Goto, database, history
<1>3. CASE CountUsers
  BY <1>3 DEF CountUsers, NoSecondAdmin, FirstIsAlone, database, history
<1>4. CASE CreateUser
  BY <1>4 DEF CreateUser, Goto, NoSecondAdmin, FirstIsAlone, TypeOK
<1>5. CASE IssueFirstToken \/ OpenTokenFile \/ WriteToken
  BY <1>1, <1>5 DEF IssueFirstToken, OpenTokenFile, WriteToken, Goto, database, history
<1>6. CASE HostKey
  BY <1>1, <1>6 DEF HostKey, ReadHostKey, OpenHostKey, WriteHostKey, Goto, database,
                    history
<1>7. CASE ReadToken \/ RemoveTokenFile
  BY <1>1, <1>7 DEF ReadToken, RemoveTokenFile, database, history
<1>8. CASE CreateOther
  BY <1>8 DEF CreateOther, SignedIn, NoSecondAdmin, FirstIsAlone, history
<1>9. ASSUME NEW a \in Account, DeleteAccount(a) PROVE NoSecondAdmin' /\ FirstIsAlone'
  <2>1. pc' = "serving" /\ firsts' = firsts /\ accounts # {}
    BY <1>9 DEF DeleteAccount, SignedIn
  <2>2. CASE accounts' = {}
    BY <1>9, <2>1, <2>2 DEF DeleteAccount, NoSecondAdmin, FirstIsAlone, TypeOK
  <2>3. CASE accounts' # {}
    BY <1>9, <2>1, <2>3 DEF DeleteAccount, NoSecondAdmin, FirstIsAlone
  <2> QED
    BY <2>2, <2>3
<1>10. CASE Stop \/ Break
  BY <1>1, <1>10 DEF Stop, Break, Gone, database, history
<1>11. CASE UNCHANGED vars
  BY <1>1, <1>11 DEF vars, database, history
<1> QED
  BY <1>2, <1>3, <1>4, <1>5, <1>6, <1>7, <1>8, <1>9, <1>10, <1>11
     DEF Next, New, Bootstrap, Operator

-----------------------------------------------------------------------------
(* The theorems.                                                             *)

\* The invariant of a start is inductive, whatever breaks and whenever.
THEOREM Invariance == Spec => []IInv
<1>1. IInv /\ [Next]_vars => IInv'
  BY TypesHold, MigrationsHold, HostKeyHolds, FirstsHold DEF IInv
<1> QED
  BY <1>1, InitHolds, PTL DEF Spec

\* The types of a start: store.Migrate, bootstrap and loadOrCreateHostKey.
THEOREM TypeCorrect == Spec => []TypeOK
<1>1. IInv => TypeOK
  BY DEF IInv
<1> QED
  BY <1>1, Invariance, PTL

\* Whatever breaks a start, the migrations in effect are the recorded ones, and
\* they are the first ones of the list: applyMigration's transaction.
THEOREM MigrationsStayWhole == Spec => []MigrationsAreWhole
<1>1. IInv => MigrationsAreWhole
  BY DEF IInv
<1> QED
  BY <1>1, Invariance, PTL

\* Clients are never shown a second host key: loadOrCreateHostKey.
THEOREM HostKeyIsOne == Spec => []OneHostKey
<1>1. IInv => OneHostKey
  BY DEF IInv
<1> QED
  BY <1>1, Invariance, PTL

\* Restarts mint no second administrator: bootstrap.
THEOREM AdminIsFirst == Spec => []NoSecondAdmin
<1>1. IInv => NoSecondAdmin
  BY DEF IInv
<1> QED
  BY <1>1, Invariance, PTL
=============================================================================
