---------------------------- MODULE TenantBackup ----------------------------
(***************************************************************************)
(* A tenant's backup and its import into another deployment.  Reports ->   *)
(* Backup reads the tenant's tables one after the other while the office   *)
(* works on; older versions wrote every tenant's rows into one file and    *)
(* left some tables out; a raw SQLite file has them all.  The Founder      *)
(* Console proves which rows belong to the chosen tenant, checks that the  *)
(* destination is empty, and then, in one transaction, copies table after  *)
(* table, giving every row a new key and every link the new key of what it *)
(* led to.                                                                 *)
(*                                                                         *)
(* The schema is a parameter: tables, links between them, which links are  *)
(* required and which tables carry the tenant.  Values of columns are left *)
(* out but for the tenant, the links and whether a table has a globally    *)
(* unique value.  The check of a request and its transaction are separate  *)
(* steps, between which others commit; a table is copied in one step.      *)
(***************************************************************************)
EXTENDS Naturals, FiniteSets, Sequences

CONSTANTS
    Tables, Rows, TableOf,  \* every row, and the table it is in
    Links, From, To,        \* foreign keys: the table that has it, where it leads
    Required,               \* links that are not nullable
    Owned,                  \* tables with a business column (users: by membership)
    OwnerLink,              \* of a child table: the parent the backup finds it by
    Singletons,             \* tables with one row per business
    Stamped,                \* tables with a globally unique value
    Named,                  \* tables with a name unique in the business
    MainNamed,              \* locations called Main Store
    Customer, Location, User,
    Naming,                 \* links to customers whose names the row repeats
    Reading,                \* the order in which a backup reads the tables
    Tenant, None,           \* the tenant chosen in the file; no row
    Requests,               \* import requests of the founder
    Accounts,               \* user accounts of the destination
    Target, Desks,          \* the destination; tables its users write meanwhile
    Offices, Scenes,        \* see office and scene below
    MaxWork                 \* bound: what users record and delete meanwhile

\* Keys of the destination: of imported rows, of rows of its own.
Dest == (Requests \X Rows) \cup ({Target} \X Tables)
MainStore == <<Target, Location>>
Goals == Dest \cup Accounts \cup {None}

LinksOf(t) == {k \in Links : From[k] = t}

ASSUME SchemaAssumption ==
    /\ TableOf \in [Rows -> Tables] /\ From \in [Links -> Tables] /\ To \in [Links -> Tables]
    /\ Required \subseteq Links /\ Naming \subseteq Links
    /\ Owned \subseteq Tables /\ Singletons \subseteq Owned
    /\ Stamped \subseteq Tables /\ Named \subseteq Tables
    /\ {Customer, Location, User} \subseteq Owned
    /\ User \in Stamped /\ {Customer, Location} \subseteq Named
    /\ MainNamed \subseteq {x \in Rows : TableOf[x] = Location}
    /\ Cardinality({Customer, Location, User}) = 3
    /\ Singletons \cap {Customer, Location, User} = {}
    /\ \A k \in Naming : To[k] = Customer
    /\ OwnerLink \in [Tables \ Owned -> Links]
    /\ Reading \in Seq(Tables \ {User})
    /\ Desks \subseteq Tables \ {User, Location}
    /\ None \notin Rows \cup Dest \cup Accounts
    /\ Target \notin Requests
    /\ Accounts \cap Dest = {}

\* A row of the source: its tenant, if its table has one, and its links.
RowsOf(S) == [tenant : {Tenant, None}, ref : [Links -> S \cup {None}]]

ASSUME SceneAssumption ==
    /\ MaxWork \in Nat
    /\ \A o \in Offices : DOMAIN o \subseteq Rows /\ \A x \in DOMAIN o : o[x] \in RowsOf(Rows)
    /\ Scenes \subseteq [kind : {"backup", "fixture", "sqlite"}, omitted : SUBSET Tables,
                         quiet : BOOLEAN, solo : BOOLEAN,
                         known : [Rows -> SUBSET Accounts]]

VARIABLES
    scene,    \* the kind of file; tables an old exporter omitted; whether the office
              \* rests during a backup; whether imports come one at a time; accounts
              \* with the username or the email of a user of the file
    office,   \* the source: a record for each existing row
    file,     \* the backup
    unread,   \* tables the backup has still to read
    pc,       \* pc[r]: where the import is
    scope,    \* scope[r]: rows it has proved to be the tenant's
    todo,     \* todo[r]: tables still to copy
    key,      \* key[r]: the new key of a source row
    draft,    \* draft[r]: the links of the rows it has written, not committed
    later,    \* later[r]: links to repair when everything is written
    work,     \* what users of the source and the destination did meanwhile
    live      \* the destination's committed rows with their links

source == <<scene, office, file, unread>>
import == <<pc, scope, todo, key, draft, later>>
vars   == <<source, import, live, work>>

Json == scene.kind # "sqlite"

\* Foreign keys lead to rows, required ones are set.
Intact(o) ==
    \A x \in DOMAIN o : \A k \in LinksOf(TableOf[x]) :
        IF o[x].ref[k] = None THEN k \notin Required
        ELSE o[x].ref[k] \in DOMAIN o /\ TableOf[o[x].ref[k]] = To[k]

TenantIn(o, x) ==
    IF TableOf[x] \in Owned THEN o[x].tenant
    ELSE LET parent == o[x].ref[OwnerLink[TableOf[x]]]
         IN  IF parent \in DOMAIN o THEN o[parent].tenant ELSE None

\* The application links no rows of different tenants.
Separate(o) ==
    \A x \in DOMAIN o : \A k \in LinksOf(TableOf[x]) :
        o[x].ref[k] # None => TenantIn(o, o[x].ref[k]) = TenantIn(o, x)

-----------------------------------------------------------------------------
(* The backup *)

NoLinks == [k \in Links |-> None]
Extend(f, g) == [x \in DOMAIN f \cup DOMAIN g |-> IF x \in DOMAIN g THEN g[x] ELSE f[x]]

\* Mutated form of Exported: child tables are read by a column they do not have.
ExportedByColumn(t) == {x \in DOMAIN office : TableOf[x] = t /\ office[x].tenant = Tenant}

Exported(t) == {x \in DOMAIN office : TableOf[x] = t /\ TenantIn(office, x) = Tenant}

\* serializers.serialize runs the querysets one after the other.
ReadTable ==
    /\ unread # << >>
    /\ file' = Extend(file, [x \in Exported(Head(unread)) |-> office[x]])
    /\ unread' = Tail(unread)
    /\ UNCHANGED <<scene, office, import, live, work>>

\* The office goes on working: it records a row with links to rows that exist.
Record(x) ==
    /\ unread # << >> /\ ~scene.quiet /\ work < MaxWork
    /\ x \notin DOMAIN office
    /\ \E o \in Offices :
        /\ x \in DOMAIN o
        /\ office' = Extend(office, [y \in {x} |-> o[x]])
    /\ Intact(office') /\ Separate(office')
    /\ work' = work + 1
    /\ UNCHANGED <<scene, file, unread, import, live>>

\* Or deletes one that nothing leads to.
Remove(x) ==
    /\ unread # << >> /\ ~scene.quiet /\ work < MaxWork
    /\ x \in DOMAIN office
    /\ \A y \in DOMAIN office, k \in Links : office[y].ref[k] # x
    /\ office' = [y \in DOMAIN office \ {x} |-> office[y]]
    /\ work' = work + 1
    /\ UNCHANGED <<scene, file, unread, import, live>>

-----------------------------------------------------------------------------
(* Which rows are the tenant's *)

\* Their own column says so.
Rooted ==
    {x \in DOMAIN file :
        /\ TableOf[x] \in Owned /\ file[x].tenant = Tenant
        /\ Json => TableOf[x] # User}

\* The rows it leads to, but for users and, in a database, for its own table.
Parents(x) ==
    {file[x].ref[k] : k \in {l \in LinksOf(TableOf[x]) :
        To[l] # User /\ (Json \/ To[l] # TableOf[x])}} \cap DOMAIN file

\* A child is admitted by one parent: so it is from a database.
AnchoredByOne(x, S) == Parents(x) \cap S # {}

\* From a fixture only if it has no parent of another tenant as well.
Anchored(x, S) ==
    /\ AnchoredByOne(x, S)
    /\ Json => Parents(x) \subseteq S

Children == {x \in DOMAIN file : TableOf[x] \notin Owned}

Closed(S) == \A x \in Children : Anchored(x, Rooted \cup S) => x \in S

\* The least set of children closed under Anchored.
Scope == Rooted \cup {x \in Children : \A S \in SUBSET Children : Closed(S) => x \in S}

\* Tables the import copies: those of the fixture, or of the current schema.
Present(S) == {TableOf[x] : x \in S}
Current    == Tables \ {User}
Copied(S)  == IF Json THEN Present(S) ELSE Current

\* Customers an old fixture omitted, rebuilt from the names sales repeat.
Rebuilt(S) ==
    IF ~Json THEN {}
    ELSE (UNION {{file[x].ref[k] : k \in Naming \cap LinksOf(TableOf[x])} : x \in S})
            \ (S \cup {None})

-----------------------------------------------------------------------------
(* What blocks an import *)

TableAt(d) == IF d[1] = Target THEN d[2] ELSE TableOf[d[2]]

\* Mutated form of Conflicts: customers to be rebuilt are not looked for.
ConflictsInFile(S) ==
    {d \in DOMAIN live :
        /\ TableAt(d) \in (Copied(S) \cap Owned) \ Singletons
        /\ Json => TableAt(d) # Location}

\* The destination has operational rows.
Conflicts(S) ==
    {d \in DOMAIN live :
        \/ /\ TableAt(d) \in (Copied(S) \cap Owned) \ Singletons
           /\ Json => TableAt(d) # Location
        \/ TableAt(d) = Customer /\ Rebuilt(S) # {}}

\* A unique value is in use.
Collisions(S) ==
    {x \in S : TableOf[x] \in Stamped /\ \E q \in Requests : <<q, x>> \in DOMAIN live}

\* The analysis repeated before the import, on committed rows and unlocked.
Check(r) ==
    /\ unread = << >>
    /\ pc[r] = "idle"
    /\ scene.solo => \A q \in Requests : pc[q] \notin {"checked", "copying"}
    /\ pc' = [pc EXCEPT ![r] =
            IF Conflicts(Scope) = {} /\ Collisions(Scope) = {} THEN "checked" ELSE "blocked"]
    /\ UNCHANGED <<source, scope, todo, key, draft, later, live, work>>

\* The file is refused for its format, size or values, or the founder did not
\* confirm.
Refuse(r) ==
    /\ pc[r] = "idle" /\ unread = << >>
    /\ pc' = [pc EXCEPT ![r] = "blocked"]
    /\ UNCHANGED <<source, scope, todo, key, draft, later, live, work>>

-----------------------------------------------------------------------------
(* The transaction *)

\* Accounts with the user's name or email, those of earlier imports included.
Matches(u) == scene.known[u] \cup {d \in DOMAIN live : d[1] \in Requests /\ d[2] = u}

Members == IF Json THEN {} ELSE {x \in Scope : TableOf[x] = User}

\* One account at most for each user, and no two users on one account.
Identified ==
    /\ \A u \in Members : Cardinality(Matches(u)) <= 1
    /\ \A u, w \in Members : u # w => Matches(u) \cap Matches(w) = {}

AccountOf(r, u) == IF Matches(u) = {} THEN <<r, u>> ELSE CHOOSE a \in Matches(u) : TRUE

\* New users, the Main Store and rebuilt customers are written first.
Begin(r) ==
    /\ pc[r] = "checked"
    /\ Identified
    /\ pc' = [pc EXCEPT ![r] = "copying"]
    /\ scope' = [scope EXCEPT ![r] = Scope]
    /\ todo' = [todo EXCEPT ![r] = Copied(Scope)]
    /\ key' = [key EXCEPT ![r] =
            [x \in Rows |-> IF x \in Members THEN AccountOf(r, x) ELSE None]]
    /\ draft' = [draft EXCEPT ![r] =
            [d \in {<<r, x>> : x \in Rebuilt(Scope) \cup {u \in Members : Matches(u) = {}}}
                      \cup (IF Json THEN {MainStore} ELSE {})
                |-> NoLinks]]
    /\ UNCHANGED <<source, later, live, work>>

\* A table comes after those its links lead to; itself does not count.
Ready(r, t) ==
    t \in todo[r] /\ \A k \in LinksOf(t) : To[k] \in todo[r] => To[k] = t

\* The table copied next: the order is fixed by the schema, not by the rows.
Upcoming(r) == CHOOSE t \in Tables : Ready(r, t)

\* Links to rebuilt customers, and to locations of which the file has none.
Recovered(r, k, old) ==
    /\ Json /\ old # None
    /\ \/ To[k] = Customer /\ old \in Rebuilt(scope[r])
       \/ To[k] = Location /\ Location \notin Present(scope[r])

\* What a link leads to when the row is written.
NewLink(r, k, old) ==
    CASE old = None           -> None
      [] Recovered(r, k, old) -> IF To[k] = Customer THEN <<r, old>> ELSE MainStore
      [] OTHER                -> key[r][old]

Written(r, t) == {x \in scope[r] : TableOf[x] = t}

\* A required link leads to nothing the import has written: it raises.
Unmappable(r, t) ==
    \E x \in Written(r, t), k \in LinksOf(t) \cap Required :
        NewLink(r, k, file[x].ref[k]) = None

\* The business's one row of a singleton, a location with the name.
Reused(x) ==
    {d \in DOMAIN live \cup {MainStore} :
        \/ TableOf[x] \in Singletons /\ TableAt(d) = TableOf[x]
        \/ Json /\ TableOf[x] = Location /\ (d[2] = x \/ (d = MainStore /\ x \in MainNamed))}

NewKey(r, x) == IF Reused(x) = {} THEN <<r, x>> ELSE CHOOSE d \in Reused(x) : TRUE

\* What is written: all but the locations that were there.
Saved(r, t) ==
    {d \in {NewKey(r, x) : x \in Written(r, t)} : t = Location => d[1] = r}

NewRow(r, x) ==
    [k \in Links |-> IF From[k] = TableOf[x] THEN NewLink(r, k, file[x].ref[k]) ELSE None]

CopyTable(r, t) ==
    /\ pc[r] = "copying" /\ Ready(r, t) /\ t = Upcoming(r)
    /\ ~Unmappable(r, t)
    /\ todo' = [todo EXCEPT ![r] = @ \ {t}]
    /\ key' = [key EXCEPT ![r] =
            [x \in Rows |-> IF x \in Written(r, t) THEN NewKey(r, x) ELSE @[x]]]
    /\ draft' = [draft EXCEPT ![r] =
            Extend([d \in Saved(r, t) |->
                        NewRow(r, CHOOSE x \in Written(r, t) : NewKey(r, x) = d)], @)]
    /\ later' = [later EXCEPT ![r] = @ \cup
            {p \in Written(r, t) \X LinksOf(t) :
                LET k == p[2]  old == file[p[1]].ref[k]
                IN  To[k] # User /\ old # None /\ NewLink(r, k, old) = None}]
    /\ UNCHANGED <<source, pc, scope, live, work>>

\* Mutated form of Repaired: what could not be set at once stays empty.
NotRepaired(r) == draft[r]

\* Links that could not be set when their row was written, above all those of a
\* table to itself.
Repaired(r) ==
    [d \in DOMAIN draft[r] |->
        [k \in Links |->
            IF \E x \in Rows : <<x, k>> \in later[r] /\ key[r][x] = d
            THEN LET x == CHOOSE y \in Rows : <<y, k>> \in later[r] /\ key[r][y] = d
                 IN  key[r][file[x].ref[k]]
            ELSE draft[r][d][k]]]

\* A constraint of the database refuses what others have committed since.
Clash(r) ==
    \E d \in DOMAIN draft[r] \ DOMAIN live :
        \/ /\ TableAt(d) \in Stamped \cup Named
           /\ \E q \in Requests : <<q, d[2]>> \in DOMAIN live
        \/ TableAt(d) \in Singletons /\ \E e \in DOMAIN live : TableAt(e) = TableAt(d)

Forget(r) ==
    /\ scope' = [scope EXCEPT ![r] = {}] /\ todo' = [todo EXCEPT ![r] = {}]
    /\ key' = [key EXCEPT ![r] = [x \in Rows |-> None]]
    /\ draft' = [draft EXCEPT ![r] = << >>] /\ later' = [later EXCEPT ![r] = {}]

\* The repairs, the founder's audit entry, the commit.
Commit(r) ==
    /\ pc[r] = "copying" /\ todo[r] = {}
    /\ ~Clash(r)
    /\ pc' = [pc EXCEPT ![r] = "done"]
    /\ live' = Extend(live, Repaired(r))
    /\ draft' = [draft EXCEPT ![r] = << >>] /\ later' = [later EXCEPT ![r] = {}]
    /\ UNCHANGED <<source, scope, todo, key, work>>

\* LegacyImportError: the whole transaction is rolled back.
Raise(r) ==
    /\ \/ pc[r] = "checked" /\ ~Identified
       \/ pc[r] = "copying" /\ \E t \in Tables : Ready(r, t) /\ t = Upcoming(r) /\ Unmappable(r, t)
    /\ pc' = [pc EXCEPT ![r] = "raised"]
    /\ Forget(r)
    /\ UNCHANGED <<source, live, work>>

\* So it is when the database refuses a row or the request dies.
Abort(r) ==
    /\ pc[r] = "copying"
    /\ pc' = [pc EXCEPT ![r] = "aborted"]
    /\ Forget(r)
    /\ UNCHANGED <<source, live, work>>

\* The destination's users record something, or a page creates a singleton.
WorkInTarget(t) ==
    /\ scene.solo => \A q \in Requests : pc[q] \notin {"checked", "copying"}
    /\ t \in Desks
    /\ t \in Singletons => \A d \in DOMAIN live : TableAt(d) # t
    /\ <<Target, t>> \notin DOMAIN live
    /\ work < MaxWork /\ work' = work + 1
    /\ live' = Extend(live, [d \in {<<Target, t>>} |-> NoLinks])
    /\ UNCHANGED <<source, import>>

-----------------------------------------------------------------------------
\* The rows of an old fixture or a raw database.
Uploaded == [x \in {y \in DOMAIN office : TableOf[y] \notin scene.omitted} |-> office[x]]

Init ==
    /\ scene \in Scenes
    /\ office \in Offices /\ Intact(office)
    /\ scene.kind = "backup" => Separate(office)
    /\ IF scene.kind = "backup" THEN file = << >> /\ unread = Reading
                                ELSE file = Uploaded /\ unread = << >>
    /\ pc = [r \in Requests |-> "idle"]
    /\ scope = [r \in Requests |-> {}] /\ todo = [r \in Requests |-> {}]
    /\ key = [r \in Requests |-> [x \in Rows |-> None]]
    /\ draft = [r \in Requests |-> << >>] /\ later = [r \in Requests |-> {}]
    /\ work = 0
    /\ live \in {<< >>, [d \in {MainStore} |-> NoLinks]}

Import(r) ==
    \/ Check(r) \/ Refuse(r) \/ Begin(r) \/ Commit(r) \/ Raise(r) \/ Abort(r)
    \/ \E t \in Tables : CopyTable(r, t)

Next ==
    \/ ReadTable
    \/ \E x \in Rows : Record(x) \/ Remove(x)
    \/ \E r \in Requests : Import(r)
    \/ \E t \in Desks : WorkInTarget(t)

Spec == Init /\ [][Next]_vars

-----------------------------------------------------------------------------
(* Properties *)

TypeOK ==
    /\ scene \in Scenes
    /\ DOMAIN office \subseteq Rows /\ \A x \in DOMAIN office : office[x] \in RowsOf(Rows)
    /\ DOMAIN file \subseteq Rows /\ \A x \in DOMAIN file : file[x] \in RowsOf(Rows)
    /\ unread \in Seq(Tables)
    /\ pc \in [Requests -> {"idle", "checked", "blocked", "copying", "done", "raised", "aborted"}]
    /\ scope \in [Requests -> SUBSET Rows]
    /\ todo \in [Requests -> SUBSET Tables]
    /\ key \in [Requests -> [Rows -> Goals]]
    /\ DOMAIN draft = Requests
    /\ \A r \in Requests :
        /\ DOMAIN draft[r] \subseteq Dest
        /\ \A d \in DOMAIN draft[r] : draft[r][d] \in [Links -> Goals]
    /\ later \in [Requests -> SUBSET (Rows \X Links)]
    /\ work \in 0 .. MaxWork
    /\ DOMAIN live \subseteq Dest /\ \A d \in DOMAIN live : live[d] \in [Links -> Goals]

\* Where a link of the file must lead after the import r: to the copy of the row
\* it led to, to a customer rebuilt for it or to the Main Store.
Meant(r, k, old) ==
    IF old # None /\ old \in scope[r] THEN key[r][old]
    ELSE IF Recovered(r, k, old)
         THEN IF To[k] = Customer THEN <<r, old>> ELSE MainStore
         ELSE None

\* After an import every row of the tenant is in the destination, and every link
\* of a row it created leads where the file's link led, whatever the order of
\* tables and whatever links only the repair could set.  No link of the
\* destination leads to a row it does not have: import_legacy_sqlite,
\* import_legacy_fixture.
LinksSurvive ==
    /\ \A r \in Requests, x \in Rows :
        (pc[r] = "done" /\ x \in scope[r] /\ (TableOf[x] = User => ~Json)) =>
            /\ key[r][x] \in DOMAIN live \cup Accounts
            /\ (key[r][x] = <<r, x>> /\ TableOf[x] \notin Singletons \cup {User}) =>
                    \A k \in LinksOf(TableOf[x]) :
                        live[<<r, x>>][k] = Meant(r, k, file[x].ref[k])
    /\ \A d \in DOMAIN live, k \in Links :
        live[d][k] \in DOMAIN live \cup Accounts \cup {None}

\* Only rows of the chosen tenant arrive, although the file may hold others: the
\* rows whose column names it, and children of rows that arrived too; of a
\* fixture, no child that also belongs to a row that did not.
OnlyTheTenantArrives ==
    \A r \in Requests, x \in Rows :
        <<r, x>> \in DOMAIN live =>
            \/ x \in Rebuilt(scope[r])
            \/ x \in DOMAIN file /\ TableOf[x] \in Owned /\ file[x].tenant = Tenant
            \/ /\ x \in DOMAIN file /\ TableOf[x] \notin Owned
               /\ \E k \in LinksOf(TableOf[x]) :
                    file[x].ref[k] \in DOMAIN file /\ key[r][file[x].ref[k]] \in DOMAIN live
               /\ Json => \A k \in LinksOf(TableOf[x]) :
                    (file[x].ref[k] \in DOMAIN file /\ To[k] # User) =>
                        key[r][file[x].ref[k]] \in DOMAIN live

\* A backup made while the office rested can be imported: nothing a required
\* link leads to was left out of it, and no row of the tenant.
QuietBackupRestores ==
    (scene.kind = "backup" /\ scene.quiet) =>
        \A r \in Requests :
            /\ pc[r] # "raised"
            /\ pc[r] \in {"copying", "done"} =>
                    {x \in DOMAIN office :
                        /\ \E i \in DOMAIN Reading : Reading[i] = TableOf[x]
                        /\ TenantIn(office, x) = Tenant} \subseteq scope[r]

\* Imports that do not overlap never add to a table that has rows already: a
\* repeated import and one into a business at work are refused.
TablesAreNotMerged ==
    [][\A r \in Requests :
        (pc[r] = "copying" /\ pc'[r] = "done" /\ scene.solo) =>
            \A d \in DOMAIN live, x \in scope[r] \cup Rebuilt(scope[r]) :
                TableAt(d) = TableOf[x] => TableOf[x] \in Singletons \cup {Location, User}]_vars
=============================================================================
