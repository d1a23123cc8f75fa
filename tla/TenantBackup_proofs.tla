------------------------ MODULE TenantBackup_proofs ------------------------
(***************************************************************************)
(* Theorems about TenantBackup, for any schema, source, destination and    *)
(* number of imports: only rows of the chosen tenant arrive, all of them   *)
(* do, their links lead where the file's led, no table in use is added to, *)
(* and a backup made at rest can be imported.                              *)
(***************************************************************************)
EXTENDS TenantBackup, FiniteSetTheorems, TLAPS

-----------------------------------------------------------------------------
(* Which rows are the tenant's *)

\* More rows admitted admit no fewer.
LEMMA AnchoredGrows ==
    ASSUME NEW S, NEW R, S \subseteq R, NEW x, Anchored(x, S)
    PROVE  Anchored(x, R)
  BY DEF Anchored, AnchoredByOne

\* Every row of S is the tenant's by its column or by its parents in S.
Grounded(S) == \A x \in S : x \in Rooted \/ (x \in Children /\ Anchored(x, S))

\* The least set closed under Anchored holds no row without a reason: without
\* such a row it would be closed too.
LEMMA ScopeIsGrounded == Grounded(Scope)
  <1> DEFINE C == {x \in Children : \A S \in SUBSET Children : Closed(S) => x \in S}
  <1>1. Scope = Rooted \cup C
    BY DEF Scope
  <1> SUFFICES ASSUME NEW x \in C, ~Anchored(x, Scope)
               PROVE  FALSE
    BY <1>1 DEF Grounded
  <1> DEFINE S == C \ {x}
  <1>2. S \in SUBSET Children
    OBVIOUS
  <1>3. ASSUME NEW y \in Children, Anchored(y, Rooted \cup S)
        PROVE  y \in S
    <2>1. ASSUME NEW R \in SUBSET Children, Closed(R)
          PROVE  y \in R
      <3>1. Rooted \cup S \subseteq Rooted \cup R
        BY <2>1
      <3>2. Anchored(y, Rooted \cup R)
        BY <1>3, <3>1, AnchoredGrows
      <3> QED  BY <2>1, <3>2 DEF Closed
    <2>2. y \in C
      BY <2>1
    <2>3. y # x
      <3>1. Rooted \cup S \subseteq Scope
        BY <1>1
      <3> QED  BY <3>1, <1>3, AnchoredGrows
    <2> QED  BY <2>2, <2>3
  <1>4. Closed(S)
    BY <1>3 DEF Closed
  <1> HIDE DEF S
  <1>5. x \in S
    BY <1>2, <1>4
  <1> QED  BY <1>5 DEF S

-----------------------------------------------------------------------------
(* Types *)

LEMMA ExtendTyped ==
    ASSUME NEW D, NEW V, NEW f, NEW g,
           DOMAIN f \subseteq D, \A d \in DOMAIN f : f[d] \in V,
           DOMAIN g \subseteq D, \A d \in DOMAIN g : g[d] \in V
    PROVE  /\ DOMAIN Extend(f, g) = DOMAIN f \cup DOMAIN g
           /\ DOMAIN Extend(f, g) \subseteq D
           /\ \A d \in DOMAIN Extend(f, g) : Extend(f, g)[d] \in V
           /\ \A d \in DOMAIN f \cup DOMAIN g :
                Extend(f, g)[d] = IF d \in DOMAIN g THEN g[d] ELSE f[d]
  BY DEF Extend

Statuses == {"idle", "checked", "blocked", "copying", "done", "raised", "aborted"}

\* What a step that leaves imports alone keeps.
LEMMA SourceTyped ==
    ASSUME TypeOK, ReadTable \/ (\E x \in Rows : Record(x) \/ Remove(x))
    PROVE  TypeOK'
  <1>1. CASE ReadTable
    <2>1. DOMAIN file' \subseteq Rows /\ \A x \in DOMAIN file' : file'[x] \in RowsOf(Rows)
      <3> DEFINE g == [x \in Exported(Head(unread)) |-> office[x]]
      <3>1. DOMAIN g \subseteq Rows /\ \A x \in DOMAIN g : g[x] \in RowsOf(Rows)
        BY DEF TypeOK, Exported
      <3>2. file' = Extend(file, g)
        BY <1>1 DEF ReadTable
      <3> HIDE DEF g
      <3>3. DOMAIN file \subseteq Rows /\ \A x \in DOMAIN file : file[x] \in RowsOf(Rows)
        BY DEF TypeOK
      <3> QED  BY <3>1, <3>2, <3>3, ExtendTyped
    <2>2. unread' \in Seq(Tables)
      BY <1>1 DEF ReadTable, TypeOK
    <2> QED  BY <1>1, <2>1, <2>2 DEF ReadTable, TypeOK, import
  <1>2. ASSUME NEW x \in Rows, Record(x)
        PROVE  TypeOK'
    <2>1. PICK o \in Offices : x \in DOMAIN o /\ office' = Extend(office, [y \in {x} |-> o[x]])
      BY <1>2 DEF Record
    <2> DEFINE g == [y \in {x} |-> o[x]]
    <2>2. DOMAIN g \subseteq Rows /\ \A y \in DOMAIN g : g[y] \in RowsOf(Rows)
      BY <2>1, SceneAssumption
    <2> HIDE DEF g
    <2>3. DOMAIN office' \subseteq Rows /\ \A y \in DOMAIN office' : office'[y] \in RowsOf(Rows)
      <3>1. DOMAIN office \subseteq Rows /\ \A y \in DOMAIN office : office[y] \in RowsOf(Rows)
        BY DEF TypeOK
      <3>2. office' = Extend(office, g)
        BY <2>1 DEF g
      <3> QED  BY <2>2, <3>1, <3>2, ExtendTyped
    <2>4. work' \in 0 .. MaxWork
      BY <1>2, SceneAssumption DEF Record, TypeOK
    <2> QED  BY <1>2, <2>3, <2>4 DEF Record, TypeOK, import
  <1>3. ASSUME NEW x \in Rows, Remove(x)
        PROVE  TypeOK'
    <2>1. work' \in 0 .. MaxWork
      BY <1>3, SceneAssumption DEF Remove, TypeOK
    <2> QED  BY <1>3, <2>1 DEF Remove, TypeOK, import
  <1> QED  BY <1>1, <1>2, <1>3

\* Keys and links are of the kinds of the destination.
LEMMA NewKeyTyped ==
    ASSUME TypeOK, NEW r \in Requests, NEW x \in Rows
    PROVE  NewKey(r, x) \in Dest
  <1>1. <<r, x>> \in Dest
    BY DEF Dest
  <1>2. MainStore \in Dest
    BY SchemaAssumption DEF Dest, MainStore
  <1>3. Reused(x) \subseteq Dest
    BY <1>2 DEF Reused, TypeOK
  <1> QED  BY <1>1, <1>3 DEF NewKey

LEMMA AccountTyped ==
    ASSUME TypeOK, NEW r \in Requests, NEW u \in Rows
    PROVE  AccountOf(r, u) \in Dest \cup Accounts
  <1>1. <<r, u>> \in Dest
    BY DEF Dest
  <1>2. Matches(u) \subseteq Dest \cup Accounts
    BY SceneAssumption DEF Matches, TypeOK
  <1> QED  BY <1>1, <1>2 DEF AccountOf

LEMMA NewLinkTyped ==
    ASSUME TypeOK, NEW r \in Requests, NEW k \in Links, NEW old \in Rows \cup {None}
    PROVE  NewLink(r, k, old) \in Goals
  <1>1. MainStore \in Goals
    BY SchemaAssumption DEF Dest, MainStore, Goals
  <1>2. ASSUME old \in Rows
        PROVE  <<r, old>> \in Goals /\ key[r][old] \in Goals
    BY <1>2 DEF Goals, Dest, TypeOK
  <1>3. None \in Goals
    BY DEF Goals
  <1> QED  BY <1>1, <1>2, <1>3 DEF NewLink, Recovered

LEMMA ScopeInFile == Scope \subseteq DOMAIN file
  BY DEF Scope, Rooted, Children

LEMMA RebuiltTyped ==
    ASSUME TypeOK, NEW S, S \subseteq DOMAIN file
    PROVE  Rebuilt(S) \subseteq Rows
  <1>1. ASSUME NEW x \in S, NEW k \in Links
        PROVE  file[x].ref[k] \in Rows \cup {None}
    BY DEF TypeOK, RowsOf
  <1> SUFFICES ASSUME NEW old \in Rebuilt(S)
               PROVE  old \in Rows
    OBVIOUS
  <1>2. old # None /\ \E x \in S : old \in {file[x].ref[k] : k \in Naming \cap LinksOf(TableOf[x])}
    <2> DEFINE R == UNION {{file[x].ref[k] : k \in Naming \cap LinksOf(TableOf[x])} : x \in S}
    <2>1. Rebuilt(S) \subseteq R \ {None}
      BY DEF Rebuilt
    <2> QED  BY <2>1
  <1>3. PICK x \in S, k \in Links : old = file[x].ref[k]
    BY <1>2 DEF LinksOf
  <1> QED  BY <1>1, <1>2, <1>3

LEMMA NewRowTyped ==
    ASSUME TypeOK, NEW r \in Requests, NEW x \in DOMAIN file
    PROVE  NewRow(r, x) \in [Links -> Goals]
  <1>1. ASSUME NEW k \in Links
        PROVE  (IF From[k] = TableOf[x] THEN NewLink(r, k, file[x].ref[k]) ELSE None) \in Goals
    <2>1. file[x].ref[k] \in Rows \cup {None}
      BY DEF TypeOK, RowsOf
    <2>2. NewLink(r, k, file[x].ref[k]) \in Goals
      BY <2>1, NewLinkTyped
    <2> QED  BY <2>2 DEF Goals
  <1> QED  BY <1>1 DEF NewRow

\* The file's links lead to rows of the right table.
Linked(f) ==
    \A x \in DOMAIN f : \A k \in LinksOf(TableOf[x]) :
        f[x].ref[k] # None => TableOf[f[x].ref[k]] = To[k]

\* What a request holds, it holds of the file, which is complete by then.
Holds(r) ==
    /\ pc[r] # "idle" => unread = << >>
    /\ pc[r] = "copying" \/ later[r] = {}
    /\ scope[r] \subseteq DOMAIN file
    /\ \A p \in later[r] :
        /\ p[1] \in scope[r] /\ p[2] \in LinksOf(TableOf[p[1]])
        /\ file[p[1]].ref[p[2]] # None

Base == TypeOK /\ Linked(office) /\ Linked(file) /\ \A r \in Requests : Holds(r)

LEMMA InitBase == ASSUME Init PROVE Base
  <1>1. scene \in Scenes /\ office \in Offices /\ Intact(office)
    BY DEF Init
  <1>2. DOMAIN office \subseteq Rows /\ \A x \in DOMAIN office : office[x] \in RowsOf(Rows)
    BY <1>1, SceneAssumption
  <1>3. Linked(office)
    BY <1>1 DEF Intact, Linked
  <1>4. /\ DOMAIN file \subseteq Rows /\ \A x \in DOMAIN file : file[x] \in RowsOf(Rows)
        /\ Linked(file) /\ unread \in Seq(Tables)
    <2>1. CASE file = << >> /\ unread = Reading
      <3>1. DOMAIN file = {}
        BY <2>1
      <3>2. Reading \in Seq(Tables)
        BY SchemaAssumption
      <3> QED  BY <2>1, <3>1, <3>2 DEF Linked
    <2>2. CASE file = Uploaded /\ unread = << >>
      <3>1. DOMAIN file \subseteq DOMAIN office /\ \A x \in DOMAIN file : file[x] = office[x]
        BY <2>2 DEF Uploaded
      <3>2. unread \in Seq(Tables)
        BY <2>2
      <3> QED  BY <1>2, <1>3, <3>1, <3>2 DEF Linked
    <2> QED  BY <2>1, <2>2 DEF Init
  <1>5. /\ pc \in [Requests -> Statuses]
        /\ scope \in [Requests -> SUBSET Rows] /\ todo \in [Requests -> SUBSET Tables]
        /\ later \in [Requests -> SUBSET (Rows \X Links)]
    BY DEF Init, Statuses
  <1>6. key \in [Requests -> [Rows -> Goals]]
    BY DEF Init, Goals
  <1>7. DOMAIN draft = Requests /\ \A r \in Requests : DOMAIN draft[r] = {}
    BY DEF Init
  <1>8. work \in 0 .. MaxWork
    BY SceneAssumption DEF Init
  <1>9. DOMAIN live \subseteq Dest /\ \A d \in DOMAIN live : live[d] \in [Links -> Goals]
    <2>1. CASE live = << >>
      BY <2>1
    <2>2. CASE live = [d \in {MainStore} |-> NoLinks]
      <3>1. MainStore \in Dest
        BY SchemaAssumption DEF Dest, MainStore
      <3>2. NoLinks \in [Links -> Goals]
        BY DEF NoLinks, Goals
      <3> QED  BY <2>2, <3>1, <3>2
    <2> QED  BY <2>1, <2>2 DEF Init
  <1>10. TypeOK
    BY <1>1, <1>2, <1>4, <1>5, <1>6, <1>7, <1>8, <1>9 DEF TypeOK, Statuses
  <1>11. ASSUME NEW r \in Requests
         PROVE  Holds(r)
    BY DEF Init, Holds
  <1> QED  BY <1>3, <1>4, <1>10, <1>11 DEF Base

LEMMA SourceKeepsBase ==
    ASSUME Base, ReadTable \/ (\E x \in Rows : Record(x) \/ Remove(x))
    PROVE  Base'
  <1> USE DEF Base
  <1>1. TypeOK'
    BY SourceTyped
  <1>2. CASE ReadTable
    <2>1. Linked(file)'
      <3> DEFINE g == [x \in Exported(Head(unread)) |-> office[x]]
      <3>1. file' = Extend(file, g)
        BY <1>2 DEF ReadTable
      <3>2. Linked(g)
        BY DEF Linked, Exported
      <3> HIDE DEF g
      <3>3. /\ DOMAIN file' = DOMAIN file \cup DOMAIN g
            /\ \A x \in DOMAIN file' : file'[x] = IF x \in DOMAIN g THEN g[x] ELSE file[x]
        BY <3>1 DEF Extend
      <3> QED  BY <3>2, <3>3 DEF Linked
    <2>2. ASSUME NEW r \in Requests
          PROVE  Holds(r)'
      <3>1. pc[r] = "idle" /\ later[r] = {}
        BY <1>2 DEF ReadTable, Holds
      <3>2. DOMAIN file \subseteq DOMAIN file'
        BY <1>2 DEF ReadTable, Extend
      <3> QED  BY <1>2, <3>1, <3>2 DEF ReadTable, Holds, import
    <2>3. Linked(office)'
      BY <1>2 DEF ReadTable
    <2> QED  BY <1>1, <2>1, <2>2, <2>3
  <1>3. ASSUME NEW x \in Rows, Record(x) \/ Remove(x)
        PROVE  Base'
    <2>1. Linked(office)'
      <3>1. CASE Record(x)
        BY <3>1 DEF Record, Intact, Linked
      <3>2. CASE Remove(x)
        BY <3>2 DEF Remove, Linked
      <3> QED  BY <1>3, <3>1, <3>2
    <2>2. UNCHANGED <<file, unread, import>>
      BY <1>3 DEF Record, Remove
    <2>3. Linked(file)'
      BY <2>2
    <2>4. ASSUME NEW r \in Requests
          PROVE  Holds(r)'
      BY <2>2 DEF Holds, import
    <2> QED  BY <1>1, <2>1, <2>3, <2>4
  <1> QED  BY <1>2, <1>3

LEMMA CheckKeepsBase ==
    ASSUME Base, NEW r \in Requests, Check(r) \/ Refuse(r)
    PROVE  Base'
  <1> USE DEF Base
  <1>1. pc' \in [Requests -> Statuses] /\ unread = << >> /\ pc[r] = "idle"
    BY DEF Check, Refuse, TypeOK, Statuses
  <1>2. UNCHANGED <<source, scope, todo, key, draft, later, live, work>>
    BY DEF Check, Refuse
  <1>3. TypeOK'
    BY <1>1, <1>2 DEF TypeOK, Statuses, source
  <1>4. Linked(office)' /\ Linked(file)'
    BY <1>2 DEF source
  <1>5. ASSUME NEW q \in Requests
        PROVE  Holds(q)'
    <2>1. CASE q = r
      BY <1>1, <1>2, <2>1 DEF Holds, source
    <2>2. CASE q # r
      <3>1. pc'[q] = pc[q]
        BY <2>2 DEF Check, Refuse, TypeOK
      <3> QED  BY <1>2, <3>1 DEF Holds, source
    <2> QED  BY <2>1, <2>2
  <1> QED  BY <1>3, <1>4, <1>5

\* A step of the import r leaves the others, and what they read, alone.
Alone(r) ==
    /\ UNCHANGED source
    /\ \A q \in Requests \ {r} :
        /\ pc'[q] = pc[q] /\ scope'[q] = scope[q] /\ todo'[q] = todo[q]
        /\ key'[q] = key[q] /\ draft'[q] = draft[q] /\ later'[q] = later[q]

LEMMA OthersHold ==
    ASSUME Base, NEW r \in Requests, Alone(r), NEW q \in Requests, q # r
    PROVE  Holds(q)'
  <1>1. Holds(q)
    BY DEF Base
  <1>2. /\ pc'[q] = pc[q] /\ scope'[q] = scope[q] /\ later'[q] = later[q]
        /\ UNCHANGED source
    BY DEF Alone
  <1> QED  BY <1>1, <1>2 DEF Holds, source

LEMMA ImportsAreAlone ==
    ASSUME TypeOK, NEW r \in Requests, Import(r)
    PROVE  Alone(r)
  <1> USE DEF Alone, TypeOK
  <1>1. CASE Check(r) \/ Refuse(r)
    BY <1>1 DEF Check, Refuse
  <1>2. CASE Begin(r)
    <2>1. ASSUME NEW q \in Requests \ {r}
          PROVE  /\ pc'[q] = pc[q] /\ scope'[q] = scope[q] /\ todo'[q] = todo[q]
                 /\ key'[q] = key[q] /\ draft'[q] = draft[q] /\ later'[q] = later[q]
      BY <1>2 DEF Begin
    <2> QED  BY <1>2, <2>1 DEF Begin
  <1>3. CASE Commit(r)
    BY <1>3 DEF Commit
  <1>4. CASE Raise(r) \/ Abort(r)
    BY <1>4 DEF Raise, Abort, Forget
  <1>5. ASSUME NEW t \in Tables, CopyTable(r, t)
        PROVE  Alone(r)
    BY <1>5 DEF CopyTable
  <1> QED  BY <1>1, <1>2, <1>3, <1>4, <1>5 DEF Import

\* The rows a transaction has written so far.
DraftTyped(f) == DOMAIN f \subseteq Dest /\ \A d \in DOMAIN f : f[d] \in [Links -> Goals]

LEMMA DraftsExtend ==
    ASSUME NEW f, NEW g, DraftTyped(f), DraftTyped(g)
    PROVE  DraftTyped(Extend(f, g))
  BY DEF DraftTyped, Extend

LEMMA BeginKeepsBase ==
    ASSUME Base, NEW r \in Requests, Begin(r)
    PROVE  Base'
  <1> USE DEF Base
  <1>1. /\ pc[r] = "checked" /\ pc' = [pc EXCEPT ![r] = "copying"]
        /\ UNCHANGED <<source, later, live, work>> /\ scope' = [scope EXCEPT ![r] = Scope]
    BY DEF Begin
  <1>2. Scope \subseteq DOMAIN file /\ DOMAIN file \subseteq Rows
    BY ScopeInFile DEF TypeOK
  <1>3. Members \subseteq Rows
    BY <1>2 DEF Members
  <1>4. pc' \in [Requests -> Statuses] /\ scope' \in [Requests -> SUBSET Rows]
    BY <1>1, <1>2 DEF TypeOK, Statuses
  <1>5. todo' \in [Requests -> SUBSET Tables]
    <2>1. Copied(Scope) \subseteq Tables
      BY <1>2, SchemaAssumption DEF Copied, Present, Current
    <2> QED  BY <2>1 DEF Begin, TypeOK
  <1>6. key' \in [Requests -> [Rows -> Goals]]
    <2> DEFINE new == [x \in Rows |-> IF x \in Members THEN AccountOf(r, x) ELSE None]
    <2>1. new \in [Rows -> Goals]
      BY AccountTyped DEF Goals
    <2>2. key' = [key EXCEPT ![r] = new]
      BY DEF Begin
    <2> HIDE DEF new
    <2> QED  BY <2>1, <2>2 DEF TypeOK
  <1>7. DOMAIN draft' = Requests /\ \A q \in Requests : DraftTyped(draft'[q])
    <2> DEFINE D == {<<r, x>> : x \in Rebuilt(Scope) \cup {u \in Members : Matches(u) = {}}}
                      \cup (IF Json THEN {MainStore} ELSE {})
               new == [d \in D |-> NoLinks]
    <2>1. Rebuilt(Scope) \subseteq Rows
      BY <1>2, RebuiltTyped
    <2>2. MainStore \in Dest
      BY SchemaAssumption DEF Dest, MainStore
    <2>3. D \subseteq Dest
      BY <1>3, <2>1, <2>2 DEF Dest
    <2>4. NoLinks \in [Links -> Goals]
      BY DEF NoLinks, Goals
    <2>5. DraftTyped(new)
      BY <2>3, <2>4 DEF DraftTyped
    <2>6. draft' = [draft EXCEPT ![r] = new]
      BY DEF Begin
    <2> HIDE DEF new
    <2> QED  BY <2>5, <2>6 DEF TypeOK, DraftTyped
  <1>8. TypeOK'
    BY <1>1, <1>4, <1>5, <1>6, <1>7 DEF TypeOK, Statuses, DraftTyped, source
  <1>9. Linked(office)' /\ Linked(file)'
    BY <1>1 DEF source
  <1>10. Holds(r)'
    <2>1. scope'[r] = Scope /\ pc'[r] = "copying" /\ later'[r] = {} /\ unread' = << >>
      BY <1>1 DEF TypeOK, Holds, source
    <2> QED  BY <1>1, <1>2, <2>1 DEF Holds, source
  <1>11. Alone(r)
    BY ImportsAreAlone DEF Import
  <1> QED  BY <1>8, <1>9, <1>10, <1>11, OthersHold

LEMMA CopyKeepsBase ==
    ASSUME Base, NEW r \in Requests, NEW t \in Tables, CopyTable(r, t)
    PROVE  Base'
  <1> USE DEF Base
  <1>1. /\ pc[r] = "copying" /\ UNCHANGED <<source, pc, scope, live, work>>
    BY DEF CopyTable
  <1>2. Written(r, t) \subseteq DOMAIN file /\ Written(r, t) \subseteq Rows
    BY DEF Written, Holds, TypeOK
  <1>3. todo' \in [Requests -> SUBSET Tables]
    BY DEF CopyTable, TypeOK
  <1>4. key' \in [Requests -> [Rows -> Goals]]
    <2> DEFINE new == [x \in Rows |-> IF x \in Written(r, t) THEN NewKey(r, x) ELSE key[r][x]]
    <2>1. new \in [Rows -> Goals]
      <3>1. ASSUME NEW x \in Rows
            PROVE  (IF x \in Written(r, t) THEN NewKey(r, x) ELSE key[r][x]) \in Goals
        BY NewKeyTyped DEF TypeOK, Goals
      <3> QED  BY <3>1
    <2>2. key' = [key EXCEPT ![r] = new]
      BY DEF CopyTable
    <2> HIDE DEF new
    <2> QED  BY <2>1, <2>2 DEF TypeOK
  <1>5. DOMAIN draft' = Requests /\ \A q \in Requests : DraftTyped(draft'[q])
    <2> DEFINE new == [d \in Saved(r, t) |->
                          NewRow(r, CHOOSE x \in Written(r, t) : NewKey(r, x) = d)]
    <2>1. ASSUME NEW d \in Saved(r, t)
          PROVE  d \in Dest /\ NewRow(r, CHOOSE x \in Written(r, t) : NewKey(r, x) = d) \in [Links -> Goals]
      <3>1. PICK x \in Written(r, t) : NewKey(r, x) = d
        BY DEF Saved
      <3>2. d \in Dest
        BY <1>2, <3>1, NewKeyTyped
      <3>3. (CHOOSE y \in Written(r, t) : NewKey(r, y) = d) \in Written(r, t)
        BY <3>1
      <3> QED  BY <1>2, <3>2, <3>3, NewRowTyped
    <2>2. DraftTyped(new)
      BY <2>1 DEF DraftTyped
    <2>3. draft' = [draft EXCEPT ![r] = Extend(new, draft[r])]
      BY DEF CopyTable
    <2> HIDE DEF new
    <2>4. DraftTyped(draft[r])
      BY DEF TypeOK, DraftTyped
    <2>5. DraftTyped(Extend(new, draft[r]))
      BY <2>2, <2>4, DraftsExtend
    <2> QED  BY <2>3, <2>5 DEF TypeOK, DraftTyped
  <1>6. /\ later' \in [Requests -> SUBSET (Rows \X Links)]
        /\ \A p \in later'[r] : p[1] \in scope[r] /\ p[2] \in LinksOf(TableOf[p[1]])
                                 /\ file[p[1]].ref[p[2]] # None
    <2> DEFINE new == {p \in Written(r, t) \X LinksOf(t) :
                LET k == p[2]  old == file[p[1]].ref[k]
                IN  To[k] # User /\ old # None /\ NewLink(r, k, old) = None}
    <2>1. later' = [later EXCEPT ![r] = later[r] \cup new]
      BY DEF CopyTable
    <2>2. \A p \in new : /\ p \in Rows \X Links /\ p[1] \in scope[r]
                         /\ p[2] \in LinksOf(TableOf[p[1]]) /\ file[p[1]].ref[p[2]] # None
      BY <1>2 DEF Written, LinksOf
    <2> HIDE DEF new
    <2>3. later'[r] = later[r] \cup new
      BY <2>1 DEF TypeOK
    <2> QED  BY <2>1, <2>2, <2>3 DEF TypeOK, Holds
  <1>7. TypeOK'
    BY <1>1, <1>3, <1>4, <1>5, <1>6 DEF TypeOK, Statuses, DraftTyped, source
  <1>8. Linked(office)' /\ Linked(file)'
    BY <1>1 DEF source
  <1>9. Holds(r)'
    BY <1>1, <1>6 DEF Holds, source
  <1>10. Alone(r)
    BY ImportsAreAlone DEF Import
  <1> QED  BY <1>7, <1>8, <1>9, <1>10, OthersHold

\* What is committed are rows of the destination.
LEMMA RepairedTyped ==
    ASSUME Base, NEW r \in Requests
    PROVE  DraftTyped(Repaired(r))
  <1> USE DEF Base
  <1>1. DOMAIN Repaired(r) = DOMAIN draft[r]
    BY DEF Repaired
  <1>2. ASSUME NEW d \in DOMAIN draft[r], NEW k \in Links
        PROVE  (IF \E x \in Rows : <<x, k>> \in later[r] /\ key[r][x] = d
                THEN LET x == CHOOSE y \in Rows : <<y, k>> \in later[r] /\ key[r][y] = d
                     IN  key[r][file[x].ref[k]]
                ELSE draft[r][d][k]) \in Goals
    <2>1. CASE \E x \in Rows : <<x, k>> \in later[r] /\ key[r][x] = d
      <3> DEFINE x == CHOOSE y \in Rows : <<y, k>> \in later[r] /\ key[r][y] = d
      <3>1. <<x, k>> \in later[r] /\ x \in Rows
        BY <2>1
      <3> HIDE DEF x
      <3>2. x \in DOMAIN file /\ file[x].ref[k] # None
        BY <3>1 DEF Holds
      <3>3. file[x].ref[k] \in Rows
        BY <3>2 DEF TypeOK, RowsOf
      <3>4. key[r][file[x].ref[k]] \in Goals
        BY <3>3 DEF TypeOK
      <3> QED  BY <2>1, <3>4 DEF x
    <2>2. CASE ~\E x \in Rows : <<x, k>> \in later[r] /\ key[r][x] = d
      BY <2>2 DEF TypeOK
    <2> QED  BY <2>1, <2>2
  <1>3. ASSUME NEW d \in DOMAIN draft[r]
        PROVE  Repaired(r)[d] \in [Links -> Goals]
    BY <1>2, <1>3 DEF Repaired
  <1> QED  BY <1>1, <1>3 DEF DraftTyped, TypeOK

LEMMA CommitKeepsBase ==
    ASSUME Base, NEW r \in Requests, Commit(r)
    PROVE  Base'
  <1> USE DEF Base
  <1>1. /\ pc[r] = "copying" /\ pc' = [pc EXCEPT ![r] = "done"]
        /\ later' = [later EXCEPT ![r] = {}] /\ draft' = [draft EXCEPT ![r] = << >>]
        /\ UNCHANGED <<source, scope, todo, key, work>>
    BY DEF Commit
  <1>2. DraftTyped(live')
    <2>1. live' = Extend(live, Repaired(r))
      BY DEF Commit
    <2>2. DraftTyped(live)
      BY DEF TypeOK, DraftTyped
    <2> QED  BY <2>1, <2>2, RepairedTyped, DraftsExtend
  <1>3. pc' \in [Requests -> Statuses] /\ later' \in [Requests -> SUBSET (Rows \X Links)]
    BY <1>1 DEF TypeOK, Statuses
  <1>4. DOMAIN draft' = Requests /\ \A q \in Requests : DraftTyped(draft'[q])
    BY <1>1 DEF TypeOK, DraftTyped
  <1>5. TypeOK'
    BY <1>1, <1>2, <1>3, <1>4 DEF TypeOK, Statuses, DraftTyped, source
  <1>6. Linked(office)' /\ Linked(file)'
    BY <1>1 DEF source
  <1>7. Holds(r)'
    <2>1. later'[r] = {}
      BY <1>1 DEF TypeOK
    <2> QED  BY <1>1, <2>1 DEF Holds, source
  <1>8. Alone(r)
    BY ImportsAreAlone DEF Import
  <1> QED  BY <1>5, <1>6, <1>7, <1>8, OthersHold

LEMMA FailureKeepsBase ==
    ASSUME Base, NEW r \in Requests, Raise(r) \/ Abort(r)
    PROVE  Base'
  <1> USE DEF Base
  <1>1. /\ pc[r] # "idle" /\ Forget(r) /\ UNCHANGED <<source, live, work>>
        /\ pc' = [pc EXCEPT ![r] = "raised"] \/ pc' = [pc EXCEPT ![r] = "aborted"]
    BY DEF Raise, Abort
  <1>2. pc' \in [Requests -> Statuses]
    BY <1>1 DEF TypeOK, Statuses
  <1>3. /\ scope' \in [Requests -> SUBSET Rows] /\ todo' \in [Requests -> SUBSET Tables]
        /\ later' \in [Requests -> SUBSET (Rows \X Links)] /\ scope'[r] = {} /\ later'[r] = {}
    BY <1>1 DEF TypeOK, Forget
  <1>4. key' \in [Requests -> [Rows -> Goals]]
    <2>1. [x \in Rows |-> None] \in [Rows -> Goals]
      BY DEF Goals
    <2> QED  BY <1>1, <2>1 DEF TypeOK, Forget
  <1>5. DOMAIN draft' = Requests /\ \A q \in Requests : DraftTyped(draft'[q])
    BY <1>1 DEF TypeOK, DraftTyped, Forget
  <1>6. TypeOK'
    BY <1>1, <1>2, <1>3, <1>4, <1>5 DEF TypeOK, Statuses, DraftTyped, source
  <1>7. Linked(office)' /\ Linked(file)'
    BY <1>1 DEF source
  <1>8. Holds(r)'
    BY <1>1, <1>3 DEF Holds, source
  <1>9. Alone(r)
    BY ImportsAreAlone DEF Import
  <1> QED  BY <1>6, <1>7, <1>8, <1>9, OthersHold

LEMMA WorkKeepsBase ==
    ASSUME Base, NEW t \in Desks, WorkInTarget(t)
    PROVE  Base'
  <1> USE DEF Base
  <1>1. UNCHANGED <<source, import>>
    BY DEF WorkInTarget
  <1>2. work' \in 0 .. MaxWork
    BY SceneAssumption DEF WorkInTarget, TypeOK
  <1>3. DraftTyped(live')
    <2> DEFINE g == [d \in {<<Target, t>>} |-> NoLinks]
    <2>1. live' = Extend(live, g)
      BY DEF WorkInTarget
    <2>2. DraftTyped(g)
      <3>1. <<Target, t>> \in Dest
        BY SchemaAssumption DEF Dest
      <3>2. NoLinks \in [Links -> Goals]
        BY DEF NoLinks, Goals
      <3> QED  BY <3>1, <3>2 DEF DraftTyped
    <2> HIDE DEF g
    <2>3. DraftTyped(live)
      BY DEF TypeOK, DraftTyped
    <2> QED  BY <2>1, <2>2, <2>3, DraftsExtend
  <1>4. TypeOK'
    BY <1>1, <1>2, <1>3 DEF TypeOK, DraftTyped, source, import
  <1> QED  BY <1>1, <1>4 DEF source, import, Holds

LEMMA BaseIsKept == Base /\ [Next]_vars => Base'
  <1> SUFFICES ASSUME Base, [Next]_vars
               PROVE  Base'
    OBVIOUS
  <1>1. ASSUME NEW r \in Requests, Import(r)
        PROVE  Base'
    <2>1. CASE \E t \in Tables : CopyTable(r, t)
      BY <2>1, CopyKeepsBase
    <2> QED  BY <1>1, <2>1, CheckKeepsBase, BeginKeepsBase, CommitKeepsBase, FailureKeepsBase
             DEF Import
  <1>2. CASE UNCHANGED vars
    BY <1>2 DEF Base, TypeOK, Holds, vars, source, import
  <1> QED  BY <1>1, <1>2, SourceKeepsBase, WorkKeepsBase DEF Next

\* The tables, keys, drafts and rows of the destination keep their types,
\* whatever schema is imported: TypeOK.
THEOREM BackupTypeCorrect == Spec => []TypeOK
  <1>1. Base => TypeOK
    BY DEF Base
  <1> QED  BY <1>1, InitBase, BaseIsKept, PTL DEF Spec

-----------------------------------------------------------------------------
(* Only the tenant's rows arrive *)

\* The keys an import may give to rows of its own.
Mine(r) == {<<r, x>> : x \in scope[r] \cup Rebuilt(scope[r])}

\* A row has its key when its table is copied; users have theirs before.
Keyed(r, D) == \A x \in scope[r] : TableOf[x] # User => TableOf[x] \in todo[r] \/ key[r][x] \in D

\* The strengthening: what is written is in scope, every row in scope is
\* accounted for by a parent in scope, and every row in scope is written.
Arrivals(r) ==
    /\ \A x \in Rows : <<r, x>> \in DOMAIN live => pc[r] = "done" /\ <<r, x>> \in Mine(r)
    /\ pc[r] \in {"copying", "done"} => Grounded(scope[r])
    /\ pc[r] = "copying" =>
        /\ DOMAIN draft[r] \subseteq Mine(r) \cup {MainStore} \cup DOMAIN live
        /\ Json => MainStore \in DOMAIN draft[r]
        /\ Keyed(r, DOMAIN draft[r] \cup DOMAIN live)
    /\ pc[r] = "done" => todo[r] = {} /\ Keyed(r, DOMAIN live)

\* What is proved about rows depends on the file and its kind alone.
LEMMA FileDecides ==
    ASSUME UNCHANGED <<file, scene>>
    PROVE  /\ \A S : (Grounded(S) <=> Grounded(S)') /\ Rebuilt(S)' = Rebuilt(S)
           /\ Scope' = Scope
  <1>1. Json' = Json /\ Rooted' = Rooted /\ Children' = Children
    BY DEF Json, Rooted, Children
  <1>2. \A x : Parents(x)' = Parents(x)
    BY <1>1 DEF Parents
  <1>3. \A x, S : Anchored(x, S)' <=> Anchored(x, S)
    BY <1>1, <1>2 DEF Anchored, AnchoredByOne
  <1>4. \A S : Closed(S)' <=> Closed(S)
    BY <1>1, <1>3 DEF Closed
  <1>5. Scope' = Scope
    BY <1>1, <1>4 DEF Scope
  <1>6. \A S : Rebuilt(S)' = Rebuilt(S)
    BY <1>1 DEF Rebuilt
  <1>7. \A S : Grounded(S) <=> Grounded(S)'
    BY <1>1, <1>3 DEF Grounded
  <1> QED  BY <1>5, <1>6, <1>7

\* Another's step adds rows to the destination, but none of r's.
LEMMA OthersKeepArrivals ==
    ASSUME NEW r \in Requests, Arrivals(r),
           UNCHANGED <<pc[r], scope[r], todo[r], key[r], draft[r]>>,
           pc[r] \in {"copying", "done"} => UNCHANGED <<file, scene>>,
           DOMAIN live \subseteq DOMAIN live',
           \A x \in Rows : <<r, x>> \in DOMAIN live' => <<r, x>> \in DOMAIN live
    PROVE  Arrivals(r)'
  <1>1. CASE pc[r] \in {"copying", "done"}
    <2>1. Mine(r)' = Mine(r) /\ (Grounded(scope[r])' <=> Grounded(scope[r]))
      BY <1>1, FileDecides DEF Mine
    <2>2. Json' <=> Json
      BY <1>1 DEF Json
    <2> QED  BY <1>1, <2>1, <2>2 DEF Arrivals, Keyed
  <1>2. CASE pc[r] \notin {"copying", "done"}
    BY <1>2 DEF Arrivals
  <1> QED  BY <1>1, <1>2

AllArrivals == \A r \in Requests : Arrivals(r)

LEMMA InitArrivals == ASSUME Init PROVE AllArrivals
  <1>1. ASSUME NEW r \in Requests, NEW x \in Rows
        PROVE  <<r, x>> \notin DOMAIN live
    <2>1. MainStore # <<r, x>>
      BY SchemaAssumption DEF MainStore
    <2> QED  BY <2>1 DEF Init
  <1> QED  BY <1>1 DEF Init, AllArrivals, Arrivals

LEMMA BeginArrives ==
    ASSUME Base, NEW r \in Requests, Begin(r), Arrivals(r)
    PROVE  Arrivals(r)'
  <1>1. /\ pc[r] = "checked" /\ pc'[r] = "copying" /\ scope'[r] = Scope
        /\ todo'[r] = Copied(Scope) /\ UNCHANGED <<file, scene, live>>
    BY DEF Begin, Base, TypeOK, source
  <1>2. Grounded(scope[r])' /\ (Rebuilt(scope[r]))' = Rebuilt(Scope)
    BY <1>1, FileDecides, ScopeIsGrounded
  <1>3. DOMAIN draft'[r] \subseteq Mine(r)' \cup {MainStore} /\ (Json => MainStore \in DOMAIN draft'[r])
    <2> DEFINE D == {<<r, x>> : x \in Rebuilt(Scope) \cup {u \in Members : Matches(u) = {}}}
                      \cup (IF Json THEN {MainStore} ELSE {})
    <2>1. draft' = [draft EXCEPT ![r] = [d \in D |-> NoLinks]]
      BY DEF Begin
    <2> HIDE DEF D
    <2>2. DOMAIN draft'[r] = D
      BY <2>1 DEF Base, TypeOK
    <2>3. Members \subseteq Scope
      BY DEF Members
    <2>4. Mine(r)' = {<<r, x>> : x \in Scope \cup Rebuilt(Scope)}
      BY <1>1, <1>2 DEF Mine
    <2> QED  BY <2>2, <2>3, <2>4 DEF D
  <1>4. \A x \in Scope : TableOf[x] # User => TableOf[x] \in Copied(Scope)
    BY ScopeInFile, SchemaAssumption DEF Copied, Present, Current, Base, TypeOK
  <1>5. Json' <=> Json
    BY <1>1 DEF Json
  <1> QED  BY <1>1, <1>2, <1>3, <1>4, <1>5 DEF Arrivals, Keyed

LEMMA CopyArrives ==
    ASSUME Base, NEW r \in Requests, NEW t \in Tables, CopyTable(r, t), Arrivals(r)
    PROVE  Arrivals(r)'
  <1>1. /\ pc[r] = "copying" /\ pc'[r] = pc[r] /\ scope'[r] = scope[r]
        /\ UNCHANGED <<file, scene, live>>
    BY DEF CopyTable, source
  <1>2. Grounded(scope[r])' /\ Mine(r)' = Mine(r)
    BY <1>1, FileDecides DEF Arrivals, Mine
  <1>3. DOMAIN draft'[r] = Saved(r, t) \cup DOMAIN draft[r]
    BY DEF CopyTable, Extend, Base, TypeOK
  <1>4. Written(r, t) \subseteq scope[r] /\ Written(r, t) \subseteq Rows
    BY DEF Written, Base, TypeOK
  <1>5. \A x \in Written(r, t) : NewKey(r, x) \in Mine(r) \cup {MainStore} \cup DOMAIN live
    <2>1. ASSUME NEW x \in Written(r, t)
          PROVE  <<r, x>> \in Mine(r)
      BY <1>4 DEF Mine
    <2>2. ASSUME NEW x \in Written(r, t)
          PROVE  Reused(x) \subseteq {MainStore} \cup DOMAIN live
      BY DEF Reused
    <2> QED  BY <2>1, <2>2 DEF NewKey
  <1>6. DOMAIN draft'[r] \subseteq Mine(r) \cup {MainStore} \cup DOMAIN live
    BY <1>1, <1>3, <1>5 DEF Arrivals, Saved
  <1>7. ASSUME NEW x \in Written(r, t)
        PROVE  NewKey(r, x) \in DOMAIN draft'[r] \cup DOMAIN live
    <2>1. CASE NewKey(r, x) \in Saved(r, t)
      BY <1>3, <2>1
    <2>2. CASE NewKey(r, x) \notin Saved(r, t)
      <3>1. t = Location /\ NewKey(r, x)[1] # r
        BY <2>2 DEF Saved
      <3>2. NewKey(r, x) \in {MainStore} \cup DOMAIN live
        BY <1>5, <3>1 DEF Mine
      <3>3. CASE NewKey(r, x) = MainStore
        <4>1. MainStore # <<r, x>>
          BY SchemaAssumption DEF MainStore
        <4>2. MainStore \in Reused(x)
          BY <3>3, <4>1 DEF NewKey
        <4>3. TableOf[x] = Location /\ Location \notin Singletons
          BY <3>1, SchemaAssumption DEF Written
        <4>4. Json
          BY <4>2, <4>3 DEF Reused
        <4> QED  BY <1>1, <1>3, <3>3, <4>4 DEF Arrivals
      <3> QED  BY <3>2, <3>3
    <2> QED  BY <2>1, <2>2
  <1>8. ASSUME NEW x \in scope[r], TableOf[x] # User
        PROVE  TableOf[x] \in todo'[r] \/ key'[r][x] \in DOMAIN draft'[r] \cup DOMAIN live
    <2>1. x \in Rows
      BY DEF Base, TypeOK
    <2>2. CASE TableOf[x] = t
      <3>1. x \in Written(r, t)
        BY <2>2 DEF Written
      <3>2. key'[r][x] = NewKey(r, x)
        BY <2>1, <3>1 DEF CopyTable, Base, TypeOK
      <3> QED  BY <3>1, <3>2, <1>7
    <2>3. CASE TableOf[x] # t
      <3>1. x \notin Written(r, t)
        BY <2>3 DEF Written
      <3>2. key'[r][x] = key[r][x]
        BY <2>1, <3>1 DEF CopyTable, Base, TypeOK
      <3>3. todo'[r] = todo[r] \ {t}
        BY DEF CopyTable, Base, TypeOK
      <3> QED  BY <1>1, <1>3, <1>8, <2>3, <3>2, <3>3 DEF Arrivals, Keyed
    <2> QED  BY <2>2, <2>3
  <1>9. (Json' <=> Json) /\ (Json => MainStore \in DOMAIN draft'[r])
    BY <1>1, <1>3 DEF Json, Arrivals
  <1> QED  BY <1>1, <1>2, <1>6, <1>8, <1>9 DEF Arrivals, Keyed

LEMMA CommitArrives ==
    ASSUME Base, NEW r \in Requests, Commit(r), Arrivals(r)
    PROVE  Arrivals(r)'
  <1>1. /\ pc[r] = "copying" /\ pc'[r] = "done" /\ todo[r] = {}
        /\ scope'[r] = scope[r] /\ todo'[r] = todo[r] /\ key'[r] = key[r]
        /\ UNCHANGED <<file, scene>>
    BY DEF Commit, Base, TypeOK, source
  <1>2. Grounded(scope[r])' /\ Mine(r)' = Mine(r)
    BY <1>1, FileDecides DEF Arrivals, Mine
  <1>3. DOMAIN live' = DOMAIN live \cup DOMAIN draft[r]
    BY DEF Commit, Extend, Repaired
  <1>4. ASSUME NEW x \in Rows, <<r, x>> \in DOMAIN live'
        PROVE  <<r, x>> \in Mine(r)
    <2>1. <<r, x>> # MainStore
      BY SchemaAssumption DEF MainStore
    <2> QED  BY <1>1, <1>3, <1>4, <2>1 DEF Arrivals
  <1> QED  BY <1>1, <1>2, <1>3, <1>4 DEF Arrivals, Keyed

\* What r commits is its own, or was there.
LEMMA CommitAddsItsOwn ==
    ASSUME Base, NEW r \in Requests, Commit(r), Arrivals(r),
           NEW q \in Requests, q # r, NEW x \in Rows, <<q, x>> \in DOMAIN live'
    PROVE  <<q, x>> \in DOMAIN live
  <1>1. DOMAIN live' = DOMAIN live \cup DOMAIN draft[r]
    BY DEF Commit, Extend, Repaired
  <1>2. DOMAIN draft[r] \subseteq Mine(r) \cup {MainStore} \cup DOMAIN live
    BY DEF Commit, Arrivals
  <1>3. <<q, x>> # MainStore /\ <<q, x>> \notin Mine(r)
    BY SchemaAssumption DEF MainStore, Mine
  <1> QED  BY <1>1, <1>2, <1>3

LEMMA ImportKeepsArrivals ==
    ASSUME Base, AllArrivals, NEW r \in Requests, Import(r)
    PROVE  AllArrivals'
  <1>1. Alone(r)
    BY ImportsAreAlone DEF Base
  <1>2. ASSUME NEW q \in Requests, q # r
        PROVE  Arrivals(q)'
    <2>1. /\ Arrivals(q) /\ UNCHANGED <<pc[q], scope[q], todo[q], key[q], draft[q]>>
          /\ UNCHANGED <<file, scene>>
      BY <1>1, <1>2 DEF AllArrivals, Alone, source
    <2>2. CASE Commit(r)
      <3>1. DOMAIN live \subseteq DOMAIN live'
        BY <2>2 DEF Commit, Extend
      <3> QED  BY <1>2, <2>1, <2>2, <3>1, CommitAddsItsOwn, OthersKeepArrivals DEF AllArrivals
    <2>3. CASE UNCHANGED live
      BY <2>1, <2>3, OthersKeepArrivals
    <2> QED  BY <2>2, <2>3 DEF Import, Check, Refuse, Begin, Raise, Abort, CopyTable
  <1>3. Arrivals(r)'
    <2>1. Arrivals(r)
      BY DEF AllArrivals
    <2>2. CASE Check(r) \/ Refuse(r) \/ Raise(r) \/ Abort(r)
      <3>1. /\ UNCHANGED live /\ pc'[r] \notin {"copying", "done"} /\ pc[r] # "done"
        BY <2>2 DEF Check, Refuse, Raise, Abort, Base, TypeOK
      <3> QED  BY <2>1, <3>1 DEF Arrivals
    <2> QED  BY <2>1, <2>2, BeginArrives, CopyArrives, CommitArrives DEF Import
  <1> QED  BY <1>2, <1>3 DEF AllArrivals

LEMMA ArrivalsAreKept ==
    ASSUME Base, AllArrivals, [Next]_vars
    PROVE  AllArrivals'
  <1>1. CASE ReadTable \/ (\E x \in Rows : Record(x) \/ Remove(x))
    <2>1. UNCHANGED <<import, live, scene>> /\ (UNCHANGED file \/ unread # << >>)
      BY <1>1 DEF ReadTable, Record, Remove
    <2>2. ASSUME NEW r \in Requests
          PROVE  Arrivals(r)'
      <3>1. pc[r] \in {"copying", "done"} => UNCHANGED <<file, scene>>
        BY <2>1 DEF Base, Holds
      <3> QED  BY <2>1, <3>1, OthersKeepArrivals DEF AllArrivals, import
    <2> QED  BY <2>2 DEF AllArrivals
  <1>2. ASSUME NEW t \in Desks, WorkInTarget(t)
        PROVE  AllArrivals'
    <2>1. UNCHANGED <<source, import>> /\ DOMAIN live' = DOMAIN live \cup {<<Target, t>>}
      BY <1>2 DEF WorkInTarget, Extend
    <2>2. ASSUME NEW r \in Requests
          PROVE  Arrivals(r)'
      <3>1. \A x \in Rows : <<r, x>> # <<Target, t>>
        BY SchemaAssumption
      <3>2. Arrivals(r) /\ UNCHANGED <<pc[r], scope[r], todo[r], key[r], draft[r], file, scene>>
        BY <2>1 DEF AllArrivals, source, import
      <3> QED  BY <2>1, <3>1, <3>2, OthersKeepArrivals
    <2> QED  BY <2>2 DEF AllArrivals
  <1>3. CASE UNCHANGED vars
    <2>1. ASSUME NEW r \in Requests
          PROVE  Arrivals(r)'
      <3>1. Arrivals(r) /\ UNCHANGED <<pc[r], scope[r], todo[r], key[r], draft[r], file, scene, live>>
        BY <1>3 DEF AllArrivals, vars, source, import
      <3> QED  BY <3>1, OthersKeepArrivals
    <2> QED  BY <2>1 DEF AllArrivals
  <1> QED  BY <1>1, <1>2, <1>3, ImportKeepsArrivals DEF Next

LEMMA ArrivalsSuffice ==
    ASSUME Base, AllArrivals
    PROVE  OnlyTheTenantArrives
  <1> SUFFICES ASSUME NEW r \in Requests, NEW x \in Rows, <<r, x>> \in DOMAIN live,
                      x \notin Rebuilt(scope[r])
               PROVE  \/ x \in DOMAIN file /\ TableOf[x] \in Owned /\ file[x].tenant = Tenant
                      \/ /\ x \in DOMAIN file /\ TableOf[x] \notin Owned
                         /\ \E k \in LinksOf(TableOf[x]) :
                              file[x].ref[k] \in DOMAIN file /\ key[r][file[x].ref[k]] \in DOMAIN live
                         /\ Json => \A k \in LinksOf(TableOf[x]) :
                              (file[x].ref[k] \in DOMAIN file /\ To[k] # User) =>
                                  key[r][file[x].ref[k]] \in DOMAIN live
    BY DEF OnlyTheTenantArrives
  <1>1. /\ x \in scope[r] /\ Grounded(scope[r])
        /\ \A y \in scope[r] : TableOf[y] # User => key[r][y] \in DOMAIN live
    BY DEF AllArrivals, Arrivals, Mine, Keyed
  <1>2. CASE x \in Rooted
    BY <1>2 DEF Rooted
  <1>3. CASE x \in Children /\ Anchored(x, scope[r])
    <2>1. x \in DOMAIN file /\ TableOf[x] \notin Owned
      BY <1>3 DEF Children
    <2>2. ASSUME NEW k \in LinksOf(TableOf[x]), To[k] # User,
                 file[x].ref[k] \in DOMAIN file, file[x].ref[k] \in scope[r]
          PROVE  key[r][file[x].ref[k]] \in DOMAIN live
      <3>1. file[x].ref[k] # None
        BY <2>2, SchemaAssumption DEF Base, TypeOK
      <3>2. TableOf[file[x].ref[k]] # User
        BY <2>1, <2>2, <3>1 DEF Base, Linked
      <3> QED  BY <1>1, <2>2, <3>2
    <2>3. PICK k \in LinksOf(TableOf[x]) :
             To[k] # User /\ file[x].ref[k] \in DOMAIN file /\ file[x].ref[k] \in scope[r]
      BY <1>3 DEF Anchored, AnchoredByOne, Parents
    <2>4. ASSUME Json, NEW l \in LinksOf(TableOf[x]), file[x].ref[l] \in DOMAIN file, To[l] # User
          PROVE  file[x].ref[l] \in scope[r]
      BY <1>3, <2>4 DEF Anchored, Parents
    <2> QED  BY <2>1, <2>2, <2>3, <2>4
  <1> QED  BY <1>1, <1>2, <1>3 DEF Grounded

\* Whatever the schema, the file and the imports under way, the rows that arrive
\* are the chosen tenant's, by their column or by a parent that arrived too:
\* _fixture_scope and _build_source_infos, with the copy table by table.
THEOREM OnlyTheTenantTheorem == Spec => []OnlyTheTenantArrives
  <1>1. Init => Base /\ AllArrivals
    BY InitBase, InitArrivals
  <1>2. Base /\ AllArrivals /\ [Next]_vars => (Base /\ AllArrivals)'
    BY BaseIsKept, ArrivalsAreKept
  <1>3. Base /\ AllArrivals => OnlyTheTenantArrives
    BY ArrivalsSuffice
  <1> QED  BY <1>1, <1>2, <1>3, PTL DEF Spec

-----------------------------------------------------------------------------
(* Links survive the new keys *)

LEMMA NoUsersInFixtures == Json => \A x \in Scope : TableOf[x] # User
  BY SchemaAssumption DEF Scope, Rooted, Children

Goal(D) == D \cup Accounts \cup {None}

\* Keys are given to rows in scope, never the same new key twice; users have
\* theirs first, the rows of a table when it is copied.
Keys(r) ==
    /\ \A x \in Rows : key[r][x] # None => x \in scope[r]
    /\ \A x, y \in Rows : key[r][x] = <<r, y>> => y = x
    /\ Json => \A x \in scope[r] : TableOf[x] # User
    /\ \A x \in scope[r] : TableOf[x] = User => key[r][x] # None
    /\ \A x \in scope[r] : TableOf[x] \in todo[r] => key[r][x] = None
    /\ User \notin todo[r]

\* A link of a written row is set for good or will be repaired.
SetOrLater(r, x, k) ==
    <<x, k>> \notin later[r] =>
        /\ draft[r][<<r, x>>][k] = Meant(r, k, file[x].ref[k])
        /\ file[x].ref[k] \in scope[r] => key[r][file[x].ref[k]] # None

Plain(x) == TableOf[x] \notin Singletons \cup {User}

Drafted(r) ==
    /\ \A d \in DOMAIN draft[r] :
        d \in Mine(r) \cup {MainStore} \/ (d \in DOMAIN live /\ TableAt(d) \in Singletons)
    /\ \A x \in scope[r] :
        <<r, x>> \in DOMAIN draft[r] => TableOf[x] = User \/ TableOf[x] \notin todo[r]
    /\ \A x \in Rebuilt(scope[r]) : <<r, x>> \in DOMAIN draft[r]
    /\ \A d \in DOMAIN draft[r], k \in Links :
        draft[r][d][k] \in Goal(DOMAIN draft[r] \cup DOMAIN live)
    /\ \A x \in scope[r] :
        (Plain(x) /\ TableOf[x] \notin todo[r] /\ key[r][x] = <<r, x>>) =>
            /\ <<r, x>> \in DOMAIN draft[r]
            /\ \A k \in LinksOf(TableOf[x]) : SetOrLater(r, x, k)
    /\ \A p \in later[r] : ~Recovered(r, p[2], file[p[1]].ref[p[2]])

\* The rows of a finished import.
Settled(r) ==
    \A x \in scope[r] :
        (Plain(x) /\ key[r][x] = <<r, x>>) =>
            \A k \in LinksOf(TableOf[x]) : live[<<r, x>>][k] = Meant(r, k, file[x].ref[k])

Linking(r) ==
    /\ pc[r] \in {"copying", "done"} => Keys(r)
    /\ pc[r] = "copying" =>
        /\ \A x \in Rows : key[r][x] \in Goal(DOMAIN draft[r] \cup DOMAIN live)
        /\ Drafted(r)
    /\ pc[r] = "done" =>
        /\ \A x \in Rows : key[r][x] \in Goal(DOMAIN live)
        /\ Settled(r)

AllLinked ==
    /\ \A r \in Requests : Linking(r)
    /\ \A d \in DOMAIN live, k \in Links : live[d][k] \in Goal(DOMAIN live)

LEMMA InitLinked == ASSUME Init PROVE AllLinked
  <1>1. \A r \in Requests : Linking(r)
    BY DEF Init, Linking
  <1>2. ASSUME NEW d \in DOMAIN live, NEW k \in Links
        PROVE  live[d][k] = None
    BY DEF Init, NoLinks
  <1> QED  BY <1>1, <1>2 DEF AllLinked, Goal

\* A row that is recovered is not one of the file's.
LEMMA RecoveredIsAbsent ==
    ASSUME Base, NEW r \in Requests, NEW x \in DOMAIN file, NEW k \in LinksOf(TableOf[x]),
           Recovered(r, k, file[x].ref[k])
    PROVE  file[x].ref[k] \notin scope[r] /\ file[x].ref[k] \in Rows /\ Json
  <1>1. file[x].ref[k] # None /\ k \in Links /\ Json
    BY DEF Recovered, LinksOf
  <1>2. file[x].ref[k] \in Rows
    BY <1>1 DEF Base, TypeOK, RowsOf
  <1>3. TableOf[file[x].ref[k]] = To[k]
    BY <1>1 DEF Base, Linked
  <1>4. CASE file[x].ref[k] \in Rebuilt(scope[r])
    BY <1>1, <1>2, <1>4 DEF Rebuilt
  <1>5. CASE To[k] = Location /\ Location \notin Present(scope[r])
    BY <1>1, <1>2, <1>3, <1>5 DEF Present
  <1> QED  BY <1>1, <1>2, <1>4, <1>5 DEF Recovered

\* What others do to the destination leaves the links of r alone.
LEMMA OthersKeepLinks ==
    ASSUME NEW r \in Requests, Arrivals(r), Linking(r),
           UNCHANGED <<pc[r], scope[r], todo[r], key[r], draft[r], later[r]>>,
           pc[r] \in {"copying", "done"} => UNCHANGED <<file, scene>>,
           DOMAIN live \subseteq DOMAIN live',
           \A x \in Rows : (<<r, x>> \in DOMAIN live /\ Plain(x)) => live'[<<r, x>>] = live[<<r, x>>],
           scope[r] \subseteq Rows
    PROVE  Linking(r)'
  <1>1. CASE pc[r] \in {"copying", "done"}
    <2>1. UNCHANGED <<file, scene>> /\ Mine(r)' = Mine(r) /\ (Json' <=> Json)
          /\ (Rebuilt(scope[r]))' = Rebuilt(scope[r])
      BY <1>1, FileDecides DEF Mine, Json
    <2>2. \A k, old : (Recovered(r, k, old)' <=> Recovered(r, k, old))
      BY <2>1 DEF Recovered, Present
    <2>3. \A k, old : Meant(r, k, old)' = Meant(r, k, old)
      BY <2>2 DEF Meant
    <2>4. Keys(r)'
      BY <1>1, <2>1 DEF Keys, Linking
    <2>5. CASE pc[r] = "copying"
      <3>1. Goal(DOMAIN draft[r] \cup DOMAIN live) \subseteq Goal(DOMAIN draft[r] \cup DOMAIN live')
        BY DEF Goal
      <3>2. Drafted(r)
        BY <2>5 DEF Linking
      <3>3. \A x \in scope[r], k \in Links : SetOrLater(r, x, k) => SetOrLater(r, x, k)'
        BY <2>1, <2>3 DEF SetOrLater
      <3>4. Drafted(r)'
        <4>1. \A d \in DOMAIN draft'[r] :
                 d \in Mine(r)' \cup {MainStore} \/ (d \in DOMAIN live' /\ TableAt(d) \in Singletons)
          BY <2>1, <3>2 DEF Drafted
        <4>2. \A d \in DOMAIN draft'[r], k \in Links :
                 draft'[r][d][k] \in Goal(DOMAIN draft'[r] \cup DOMAIN live')
          BY <3>1, <3>2 DEF Drafted
        <4>3. \A x \in scope'[r] :
                 (Plain(x) /\ TableOf[x] \notin todo'[r] /\ key'[r][x] = <<r, x>>) =>
                    /\ <<r, x>> \in DOMAIN draft'[r]
                    /\ \A k \in LinksOf(TableOf[x]) : SetOrLater(r, x, k)'
          BY <3>2, <3>3 DEF Drafted, LinksOf
        <4>4. (\A p \in later[r] : ~Recovered(r, p[2], file[p[1]].ref[p[2]]))'
          BY <2>1, <2>2, <3>2 DEF Drafted
        <4> QED  BY <2>1, <3>2, <4>1, <4>2, <4>3, <4>4 DEF Drafted
      <3> QED  BY <2>4, <2>5, <3>1, <3>4 DEF Linking
    <2>6. CASE pc[r] = "done"
      <3>1. Settled(r) /\ todo[r] = {} /\ Keyed(r, DOMAIN live)
        BY <2>6 DEF Linking, Arrivals
      <3>2. \A x \in scope[r] : (Plain(x) /\ key[r][x] = <<r, x>>) =>
               live'[<<r, x>>] = live[<<r, x>>]
        BY <3>1 DEF Keyed, Plain
      <3>3. Settled(r)'
        BY <2>1, <2>3, <3>1, <3>2 DEF Settled
      <3>4. \A x \in Rows : key'[r][x] \in Goal(DOMAIN live')
        BY <2>6 DEF Linking, Goal
      <3> QED  BY <2>4, <2>6, <3>3, <3>4 DEF Linking
    <2> QED  BY <1>1, <2>5, <2>6
  <1>2. CASE pc[r] \notin {"copying", "done"}
    BY <1>2 DEF Linking
  <1> QED  BY <1>1, <1>2

LEMMA BeginLinks ==
    ASSUME Base, NEW r \in Requests, Begin(r), Arrivals(r)
    PROVE  Linking(r)'
  <1>1. /\ pc[r] = "checked" /\ pc'[r] = "copying" /\ scope'[r] = Scope
        /\ todo'[r] = Copied(Scope) /\ UNCHANGED <<file, scene, live>> /\ later'[r] = {}
    BY DEF Begin, Base, TypeOK, Holds, source
  <1>2. key'[r] = [x \in Rows |-> IF x \in Members THEN AccountOf(r, x) ELSE None]
    BY DEF Begin, Base, TypeOK
  <1>3. Scope \subseteq Rows /\ Members \subseteq Scope
    BY ScopeInFile DEF Base, TypeOK, Members
  <1>4. \A y \in Rows : <<r, y>> \notin DOMAIN live /\ <<r, y>> \notin Accounts
    BY <1>1, SchemaAssumption DEF Arrivals, Dest
  <1>5. ASSUME NEW u \in Members
        PROVE  \/ (AccountOf(r, u) = <<r, u>> /\ Matches(u) = {})
               \/ (AccountOf(r, u) \in DOMAIN live \cup Accounts /\ Matches(u) # {})
    <2>1. u \in Rows
      BY <1>3
    <2>2. Matches(u) \subseteq DOMAIN live \cup Accounts
      BY SceneAssumption, <2>1 DEF Matches, Base, TypeOK
    <2> QED  BY <2>2 DEF AccountOf
  <1>6. \A x \in Scope : TableOf[x] # User => TableOf[x] \in Copied(Scope)
    BY <1>3, SchemaAssumption DEF Copied, Present, Current
  <1>7. Rebuilt(Scope) \cap Scope = {} /\ (Rebuilt(scope[r]))' = Rebuilt(Scope)
    BY <1>1, FileDecides DEF Rebuilt
  <1>8. Keys(r)'
    <2>1. \A x \in Rows : key'[r][x] # None => x \in scope'[r]
      BY <1>1, <1>2, <1>3
    <2>2. ASSUME NEW x \in Rows, NEW y \in Rows, key'[r][x] = <<r, y>>
          PROVE  y = x
      <3>1. <<r, y>> # None
        BY SchemaAssumption DEF Dest
      <3>2. x \in Members /\ AccountOf(r, x) = <<r, y>>
        BY <1>2, <2>2, <3>1
      <3> QED  BY <1>4, <1>5, <3>2
    <2>3. Json' => \A x \in scope'[r] : TableOf[x] # User
      BY <1>1, NoUsersInFixtures DEF Json
    <2>4. ASSUME NEW x \in Scope, TableOf[x] = User
          PROVE  key'[r][x] # None
      <3>1. x \in Members
        BY <2>4, NoUsersInFixtures DEF Members
      <3>2. AccountOf(r, x) \in Dest \cup Accounts
        BY <1>3, AccountTyped DEF Base
      <3> QED  BY <1>2, <1>3, <3>1, <3>2, SchemaAssumption
    <2>5. User \notin Copied(Scope)
      BY NoUsersInFixtures DEF Copied, Present, Current
    <2>6. \A x \in Scope : TableOf[x] \in Copied(Scope) => key'[r][x] = None
      BY <1>2, <1>3, <2>5 DEF Members
    <2> QED  BY <1>1, <2>1, <2>2, <2>3, <2>4, <2>5, <2>6 DEF Keys
  <1> DEFINE D == {<<r, x>> : x \in Rebuilt(Scope) \cup {u \in Members : Matches(u) = {}}}
                      \cup (IF Json THEN {MainStore} ELSE {})
  <1>9. draft'[r] = [d \in D |-> NoLinks]
    BY DEF Begin, Base, TypeOK
  <1>10. \A x \in Rows : key'[r][x] \in Goal(DOMAIN draft'[r] \cup DOMAIN live')
    <2>1. ASSUME NEW x \in Members
          PROVE  AccountOf(r, x) \in Goal(D \cup DOMAIN live)
      BY <1>5 DEF Goal
    <2> HIDE DEF D
    <2>2. DOMAIN draft'[r] = D /\ DOMAIN live' = DOMAIN live
      BY <1>1, <1>9
    <2> QED  BY <1>2, <2>1, <2>2 DEF Goal
  <1>11. Drafted(r)'
    <2>1. /\ D \subseteq {<<r, x>> : x \in Scope \cup Rebuilt(Scope)} \cup {MainStore}
          /\ \A x \in Scope : <<r, x>> \in D => TableOf[x] = User
          /\ \A x \in Rebuilt(Scope) : <<r, x>> \in D
      <3>1. \A x : <<r, x>> # MainStore
        BY SchemaAssumption DEF MainStore
      <3> QED  BY <1>3, <1>7, <3>1 DEF Members
    <2> HIDE DEF D
    <2>2. DOMAIN draft'[r] = D /\ \A d \in D, k \in Links : draft'[r][d][k] = None
      BY <1>9 DEF NoLinks
    <2>3. Mine(r)' = {<<r, x>> : x \in Scope \cup Rebuilt(Scope)}
      BY <1>1, <1>7 DEF Mine
    <2>4. \A x \in Scope : Plain(x) => TableOf[x] \in todo'[r]
      BY <1>1, <1>6 DEF Plain
    <2> QED  BY <1>1, <1>7, <2>1, <2>2, <2>3, <2>4 DEF Drafted, Goal
  <1> QED  BY <1>1, <1>8, <1>10, <1>11 DEF Linking

\* A reused key was there: it is none of r's own.
LEMMA NewKeysAreOwn ==
    ASSUME Base, NEW r \in Requests, Arrivals(r), pc[r] = "copying",
           NEW x \in Rows, NEW y \in Rows, NewKey(r, x) = <<r, y>>
    PROVE  y = x
  <1>1. <<r, y>> \notin DOMAIN live /\ <<r, y>> # MainStore
    BY SchemaAssumption DEF Arrivals, MainStore
  <1>2. <<r, y>> \notin Reused(x)
    BY <1>1 DEF Reused
  <1> QED  BY <1>2 DEF NewKey

LEMMA CopyKeys ==
    ASSUME Base, NEW r \in Requests, NEW t \in Tables, CopyTable(r, t), Arrivals(r), Linking(r)
    PROVE  /\ Keys(r)' /\ Keys(r)
           /\ \A x \in Rows : key'[r][x] = IF x \in Written(r, t) THEN NewKey(r, x) ELSE key[r][x]
           /\ \A x \in Written(r, t) : key[r][x] = None /\ TableOf[x] = t /\ x \in scope[r] /\ t # User
           /\ todo'[r] = todo[r] \ {t} /\ t \in todo[r]
  <1>1. Keys(r) /\ pc[r] = "copying" /\ t \in todo[r]
    BY DEF CopyTable, Linking, Ready
  <1>2. /\ \A x \in Rows : key'[r][x] = IF x \in Written(r, t) THEN NewKey(r, x) ELSE key[r][x]
        /\ todo'[r] = todo[r] \ {t} /\ scope'[r] = scope[r] /\ (Json' <=> Json)
    BY DEF CopyTable, Base, TypeOK, Json, source
  <1>3. Written(r, t) \subseteq Rows /\ scope[r] \subseteq Rows
    BY DEF Written, Base, TypeOK
  <1>4. \A x \in Written(r, t) : key[r][x] = None /\ TableOf[x] = t /\ x \in scope[r] /\ t # User
    BY <1>1 DEF Keys, Written
  <1>5. \A x \in scope[r] : x \notin Written(r, t) => TableOf[x] # t
    BY DEF Written
  <1>6. ASSUME NEW x \in Rows, NEW y \in Rows, key'[r][x] = <<r, y>>
        PROVE  y = x
    BY <1>1, <1>2, <1>6, NewKeysAreOwn DEF Keys
  <1>7. Keys(r)'
    BY <1>1, <1>2, <1>3, <1>4, <1>5, <1>6 DEF Keys
  <1> QED  BY <1>1, <1>2, <1>4, <1>7

\* A link is written to what it is meant to lead to, or noted for repair.
LEMMA LinkIsWritten ==
    ASSUME Base, NEW r \in Requests, NEW t \in Tables, CopyTable(r, t), Arrivals(r), Linking(r),
           NEW x \in Written(r, t), NEW k \in LinksOf(t), <<x, k>> \notin later'[r]
    PROVE  /\ NewLink(r, k, file[x].ref[k]) = Meant(r, k, file[x].ref[k])'
           /\ file[x].ref[k] \in scope[r] => key'[r][file[x].ref[k]] # None
  <1> DEFINE old == file[x].ref[k]
  <1>1. /\ TableOf[x] = t /\ x \in scope[r] /\ x \in DOMAIN file /\ k \in Links
        /\ k \in LinksOf(TableOf[x])
    BY DEF Written, Base, Holds, LinksOf
  <1>2. old \in Rows \cup {None}
    BY <1>1 DEF Base, TypeOK, RowsOf
  <1>3. Keys(r) /\ t # User
    BY CopyKeys
  <1>4. UNCHANGED <<file, scene>> /\ scope'[r] = scope[r]
    BY DEF CopyTable, source
  <1>5. Recovered(r, k, old)' <=> Recovered(r, k, old)
    <2>1. (Rebuilt(scope[r]))' = Rebuilt(scope[r]) /\ (Json' <=> Json)
      BY <1>4, FileDecides DEF Json
    <2> QED  BY <1>4, <2>1 DEF Recovered, Present
  <1>6. \/ To[k] = User \/ old = None \/ NewLink(r, k, old) # None
    <2>1. later'[r] = later[r] \cup {p \in Written(r, t) \X LinksOf(t) :
                LET l == p[2]  former == file[p[1]].ref[l]
                IN  To[l] # User /\ former # None /\ NewLink(r, l, former) = None}
      BY DEF CopyTable, Base, TypeOK
    <2> QED  BY <2>1
  <1>7. CASE old = None
    <2>1. old \notin scope[r] /\ ~Recovered(r, k, old)
      BY <1>7, SchemaAssumption DEF Base, TypeOK, Recovered
    <2> QED  BY <1>4, <1>5, <1>7, <2>1 DEF NewLink, Meant
  <1>8. CASE Recovered(r, k, old)
    <2>1. old \notin scope[r] /\ old # None
      BY <1>1, <1>8, RecoveredIsAbsent DEF Recovered
    <2> QED  BY <1>4, <1>5, <1>8, <2>1 DEF NewLink, Meant
  <1>9. CASE old # None /\ ~Recovered(r, k, old)
    <2>1. NewLink(r, k, old) = key[r][old] /\ old \in Rows
      BY <1>2, <1>9 DEF NewLink
    <2>2. CASE key[r][old] # None
      <3>1. old \in scope[r] /\ old \notin Written(r, t)
        BY <1>3, <2>1, <2>2, CopyKeys DEF Keys
      <3>2. key'[r][old] = key[r][old]
        BY <2>1, <3>1, CopyKeys
      <3> QED  BY <1>4, <1>9, <2>1, <2>2, <3>1, <3>2 DEF Meant
    <2>3. CASE key[r][old] = None
      <3>1. To[k] = User
        BY <1>6, <1>9, <2>1, <2>3
      <3>2. TableOf[old] = User
        BY <1>1, <1>9, <3>1 DEF Base, Linked
      <3>3. old \notin scope[r]
        BY <1>3, <2>3, <3>2 DEF Keys
      <3> QED  BY <1>4, <1>5, <1>9, <2>1, <2>3, <3>3 DEF Meant
    <2> QED  BY <2>2, <2>3
  <1> QED  BY <1>7, <1>8, <1>9

LEMMA SpecialTablesDiffer == Customer # Location
  <1> SUFFICES ASSUME Customer = Location
               PROVE  FALSE
    OBVIOUS
  <1>1. Cardinality({Customer, User}) = 3
    BY SchemaAssumption
  <1>2. Cardinality({User}) = 1 /\ IsFiniteSet({User})
    BY FS_Singleton
  <1>3. Cardinality({User} \cup {Customer}) \in {1, 2}
    BY <1>2, FS_AddElement
  <1> QED  BY <1>1, <1>3

LEMMA CopyLinks ==
    ASSUME Base, NEW r \in Requests, NEW t \in Tables, CopyTable(r, t),
           Arrivals(r), Arrivals(r)', Linking(r)
    PROVE  Linking(r)'
  <1>1. /\ pc[r] = "copying" /\ pc'[r] = "copying" /\ scope'[r] = scope[r]
        /\ UNCHANGED <<file, scene, live>>
    BY DEF CopyTable, source
  <1>2. Mine(r)' = Mine(r) /\ (Json' <=> Json) /\ (Rebuilt(scope[r]))' = Rebuilt(scope[r])
    BY <1>1, FileDecides DEF Mine, Json
  <1>3. \A k, old : Recovered(r, k, old)' <=> Recovered(r, k, old)
    BY <1>1, <1>2 DEF Recovered, Present
  <1>4. Drafted(r) /\ Keys(r) /\ scope[r] \subseteq Rows
    BY <1>1 DEF Linking, Base, TypeOK
  <1>5. /\ \A x \in Rows : key'[r][x] = IF x \in Written(r, t) THEN NewKey(r, x) ELSE key[r][x]
        /\ \A x \in Written(r, t) : key[r][x] = None /\ TableOf[x] = t /\ x \in scope[r] /\ t # User
        /\ todo'[r] = todo[r] \ {t} /\ t \in todo[r]
    BY CopyKeys
  <1>6. \A x \in scope[r] : TableOf[x] = t => x \in Written(r, t)
    BY DEF Written
  <1> DEFINE new == [d \in Saved(r, t) |->
                        NewRow(r, CHOOSE x \in Written(r, t) : NewKey(r, x) = d)]
  <1>7. draft'[r] = Extend(new, draft[r])
    BY DEF CopyTable, Base, TypeOK
  <1> HIDE DEF new
  <1>8. /\ DOMAIN draft'[r] = Saved(r, t) \cup DOMAIN draft[r]
        /\ \A d \in DOMAIN draft[r] : draft'[r][d] = draft[r][d]
        /\ \A d \in Saved(r, t) \ DOMAIN draft[r] : draft'[r][d] = new[d]
    BY <1>7 DEF Extend, new
  <1> DEFINE D == DOMAIN draft[r] \cup DOMAIN live
             E == DOMAIN draft'[r] \cup DOMAIN live'
  <1>9. Goal(D) \subseteq Goal(E)
    BY <1>1, <1>8 DEF Goal
  <1>10. \A x \in Rows : key[r][x] \in Goal(D)
    BY <1>1 DEF Linking
  <1>11. \A x \in Rows : key'[r][x] \in Goal(E)
    <2>1. ASSUME NEW x \in Written(r, t)
          PROVE  key'[r][x] \in E
      BY <1>1, <1>5, <2>1 DEF Arrivals, Keyed
    <2> QED  BY <1>5, <1>9, <1>10, <2>1 DEF Goal
  <1>12. \A d \in Saved(r, t) : d \in Mine(r) \/ (d \in DOMAIN live /\ TableAt(d) \in Singletons)
    <2>1. ASSUME NEW x \in Written(r, t), NewKey(r, x) \in Saved(r, t)
          PROVE  NewKey(r, x) = <<r, x>> \/ (NewKey(r, x) \in DOMAIN live /\ TableAt(NewKey(r, x)) \in Singletons)
      <3>1. t = Location => NewKey(r, x)[1] = r
        BY <2>1 DEF Saved
      <3>2. NewKey(r, x) = <<r, x>> \/ NewKey(r, x) \in Reused(x)
        BY DEF NewKey
      <3>3. Reused(x) \subseteq DOMAIN live \cup {MainStore}
        BY DEF Reused
      <3>4. TableAt(MainStore) = Location /\ MainStore[1] # r /\ Location \notin Singletons
        BY SchemaAssumption DEF TableAt, MainStore
      <3>5. ASSUME NEW d \in Reused(x), t # Location
            PROVE  d \in DOMAIN live /\ TableAt(d) \in Singletons
        BY <1>5, <3>3, <3>4, <3>5 DEF Reused
      <3>6. ASSUME NEW d \in Reused(x), t = Location, d[1] = r
            PROVE  FALSE
        <4>1. d \in DOMAIN live /\ d \in Dest
          BY <3>3, <3>4, <3>6 DEF Base, TypeOK
        <4>2. PICK y \in Rows : d = <<r, y>>
          BY <3>6, <4>1, SchemaAssumption DEF Dest
        <4> QED  BY <1>1, <4>1, <4>2 DEF Arrivals
      <3> QED  BY <3>1, <3>2, <3>5, <3>6
    <2>2. \A x \in Written(r, t) : <<r, x>> \in Mine(r)
      BY <1>5 DEF Mine
    <2> QED  BY <2>1, <2>2 DEF Saved
  <1>13. ASSUME NEW x \in Rows, <<r, x>> \in Saved(r, t)
         PROVE  x \in Written(r, t)
    <2>1. PICK y \in Written(r, t) : NewKey(r, y) = <<r, x>>
      BY <1>13 DEF Saved
    <2> QED  BY <1>1, <1>4, <1>5, <2>1, NewKeysAreOwn
  <1>14. ASSUME NEW x \in Written(r, t), NewKey(r, x) = <<r, x>>
         PROVE  /\ <<r, x>> \in Saved(r, t) \ DOMAIN draft[r]
                /\ new[<<r, x>>] = NewRow(r, x)
    <2>1. <<r, x>> \in Saved(r, t)
      BY <1>14 DEF Saved
    <2>2. <<r, x>> \notin DOMAIN draft[r]
      BY <1>4, <1>5 DEF Drafted
    <2>3. \A y \in Written(r, t) : NewKey(r, y) = <<r, x>> => y = x
      BY <1>1, <1>4, <1>5, NewKeysAreOwn
    <2>4. (CHOOSE y \in Written(r, t) : NewKey(r, y) = <<r, x>>) = x
      BY <1>14, <2>3
    <2> QED  BY <2>1, <2>2, <2>4 DEF new
  <1>15. \A d \in DOMAIN draft'[r], k \in Links : draft'[r][d][k] \in Goal(E)
    <2>1. ASSUME NEW x \in Written(r, t), NEW k \in Links
          PROVE  NewRow(r, x)[k] \in Goal(E)
      <3>1. CASE From[k] = TableOf[x]
        <4> DEFINE old == file[x].ref[k]
        <4>1. NewRow(r, x)[k] = NewLink(r, k, old)
          BY <3>1 DEF NewRow
        <4>2. x \in DOMAIN file /\ old \in Rows \cup {None}
          BY <1>5 DEF Base, Holds, TypeOK, RowsOf
        <4>3. CASE Recovered(r, k, old)
          <5>1. To[k] = Customer => old \in Rebuilt(scope[r])
            <6>1. Customer # Location
              BY SchemaAssumption, SpecialTablesDiffer
            <6> QED  BY <4>3, <6>1 DEF Recovered
          <5>2. To[k] = Customer => <<r, old>> \in DOMAIN draft[r]
            BY <1>4, <5>1 DEF Drafted
          <5>3. MainStore \in DOMAIN draft[r]
            BY <1>1, <4>3 DEF Recovered, Arrivals
          <5> QED  BY <1>9, <4>1, <4>3, <5>2, <5>3 DEF NewLink, Goal, Recovered
        <4>4. CASE ~Recovered(r, k, old) /\ old # None
          BY <1>9, <1>10, <4>1, <4>2, <4>4 DEF NewLink
        <4>5. CASE old = None
          BY <4>1, <4>5 DEF NewLink, Goal, Recovered
        <4> QED  BY <4>3, <4>4, <4>5
      <3>2. CASE From[k] # TableOf[x]
        BY <3>2 DEF NewRow, Goal
      <3> QED  BY <3>1, <3>2
    <2>2. ASSUME NEW d \in Saved(r, t) \ DOMAIN draft[r], NEW k \in Links
          PROVE  draft'[r][d][k] \in Goal(E)
      <3>1. PICK x \in Written(r, t) : NewKey(r, x) = d
        BY DEF Saved
      <3>2. (CHOOSE y \in Written(r, t) : NewKey(r, y) = d) \in Written(r, t)
        BY <3>1
      <3> QED  BY <1>8, <2>1, <3>2 DEF new
    <2>3. ASSUME NEW d \in DOMAIN draft[r], NEW k \in Links
          PROVE  draft'[r][d][k] \in Goal(E)
      BY <1>4, <1>8, <1>9 DEF Drafted
    <2> QED  BY <1>8, <2>2, <2>3
  <1>16. ASSUME NEW x \in scope[r], Plain(x), TableOf[x] \notin todo'[r], key'[r][x] = <<r, x>>
         PROVE  /\ <<r, x>> \in DOMAIN draft'[r]
                /\ \A k \in LinksOf(TableOf[x]) : SetOrLater(r, x, k)'
    <2>1. CASE x \in Written(r, t)
      <3>1. NewKey(r, x) = <<r, x>>
        BY <1>4, <1>5, <1>16, <2>1
      <3>2. draft'[r][<<r, x>>] = NewRow(r, x) /\ <<r, x>> \in DOMAIN draft'[r]
        BY <1>8, <1>14, <2>1, <3>1
      <3>3. ASSUME NEW k \in LinksOf(TableOf[x])
            PROVE  SetOrLater(r, x, k)'
        <4>1. k \in LinksOf(t) /\ NewRow(r, x)[k] = NewLink(r, k, file[x].ref[k])
          BY <1>5, <2>1 DEF NewRow, LinksOf
        <4> QED  BY <1>1, <2>1, <3>2, <4>1, LinkIsWritten DEF SetOrLater
      <3> QED  BY <3>2, <3>3
    <2>2. CASE x \notin Written(r, t)
      <3>1. TableOf[x] \notin todo[r] /\ key[r][x] = <<r, x>>
        BY <1>4, <1>5, <1>6, <1>16, <2>2
      <3>2. <<r, x>> \in DOMAIN draft[r] /\ \A k \in LinksOf(TableOf[x]) : SetOrLater(r, x, k)
        BY <1>4, <1>16, <3>1 DEF Drafted
      <3>3. ASSUME NEW k \in LinksOf(TableOf[x]), <<x, k>> \notin later'[r]
            PROVE  /\ draft'[r][<<r, x>>][k] = Meant(r, k, file[x].ref[k])'
                   /\ file[x].ref[k] \in scope[r] => key'[r][file[x].ref[k]] # None
        <4>1. <<x, k>> \notin later[r]
          BY <3>3 DEF CopyTable, Base, TypeOK
        <4>2. /\ draft[r][<<r, x>>][k] = Meant(r, k, file[x].ref[k])
              /\ file[x].ref[k] \in scope[r] => key[r][file[x].ref[k]] # None
          BY <3>2, <4>1 DEF SetOrLater
        <4>3. file[x].ref[k] \in scope[r] => key'[r][file[x].ref[k]] = key[r][file[x].ref[k]]
          BY <1>4, <1>5, <4>2
        <4>4. Meant(r, k, file[x].ref[k])' = Meant(r, k, file[x].ref[k])
          BY <1>1, <1>3, <4>3 DEF Meant
        <4> QED  BY <1>8, <3>2, <4>2, <4>3, <4>4
      <3> QED  BY <1>1, <1>8, <3>2, <3>3 DEF SetOrLater
    <2> QED  BY <2>1, <2>2
  <1>17. \A p \in later'[r] : ~Recovered(r, p[2], file[p[1]].ref[p[2]])
    <2> DEFINE added == {p \in Written(r, t) \X LinksOf(t) :
                LET k == p[2]  old == file[p[1]].ref[k]
                IN  To[k] # User /\ old # None /\ NewLink(r, k, old) = None}
    <2>1. later'[r] = later[r] \cup added
      BY DEF CopyTable, Base, TypeOK
    <2>2. ASSUME NEW p \in added, Recovered(r, p[2], file[p[1]].ref[p[2]])
          PROVE  FALSE
      <3>1. /\ p[1] \in Written(r, t) /\ p[2] \in LinksOf(TableOf[p[1]])
            /\ NewLink(r, p[2], file[p[1]].ref[p[2]]) = None
        BY <1>5, <2>2
      <3>2. p[1] \in DOMAIN file
        BY <1>5, <3>1 DEF Base, Holds
      <3>3. file[p[1]].ref[p[2]] \in Rows
        BY <2>2, <3>1, <3>2, RecoveredIsAbsent
      <3>4. <<r, file[p[1]].ref[p[2]]>> # None /\ MainStore # None
        BY <3>3, SchemaAssumption DEF Dest, MainStore
      <3> QED  BY <2>2, <3>1, <3>4 DEF NewLink, Recovered
    <2> HIDE DEF added
    <2> QED  BY <1>4, <2>1, <2>2 DEF Drafted
  <1>18. Drafted(r)'
    <2>1. \A d \in DOMAIN draft'[r] :
             d \in Mine(r)' \cup {MainStore} \/ (d \in DOMAIN live' /\ TableAt(d) \in Singletons)
      BY <1>1, <1>2, <1>4, <1>8, <1>12 DEF Drafted
    <2>2. \A x \in scope[r] :
             <<r, x>> \in DOMAIN draft'[r] => TableOf[x] = User \/ TableOf[x] \notin todo'[r]
      BY <1>4, <1>5, <1>8, <1>13 DEF Drafted
    <2>3. \A x \in Rebuilt(scope[r]) : <<r, x>> \in DOMAIN draft'[r]
      BY <1>4, <1>8 DEF Drafted
    <2>4. (\A p \in later[r] : ~Recovered(r, p[2], file[p[1]].ref[p[2]]))'
      BY <1>1, <1>3, <1>17
    <2> QED  BY <1>1, <1>2, <1>15, <1>16, <2>1, <2>2, <2>3, <2>4 DEF Drafted
  <1>19. Keys(r)'
    BY CopyKeys
  <1> QED  BY <1>1, <1>11, <1>18, <1>19 DEF Linking

\* The repairs set what was noted; nothing else changes when it is committed.
LEMMA CommitLinks ==
    ASSUME Base, NEW r \in Requests, Commit(r), Arrivals(r), Linking(r)
    PROVE  Linking(r)'
  <1>1. /\ pc[r] = "copying" /\ pc'[r] = "done" /\ todo[r] = {}
        /\ scope'[r] = scope[r] /\ todo'[r] = todo[r] /\ key'[r] = key[r]
        /\ UNCHANGED <<file, scene>>
    BY DEF Commit, Base, TypeOK, source
  <1>2. /\ DOMAIN live' = DOMAIN live \cup DOMAIN draft[r]
        /\ \A d \in DOMAIN draft[r] : live'[d] = Repaired(r)[d]
    BY DEF Commit, Extend, Repaired
  <1>3. Keys(r) /\ Drafted(r) /\ scope[r] \subseteq Rows
    BY <1>1 DEF Linking, Base, TypeOK
  <1>4. (Json' <=> Json) /\ (Rebuilt(scope[r]))' = Rebuilt(scope[r])
    BY <1>1, FileDecides DEF Json
  <1>5. Keys(r)'
    BY <1>1, <1>3, <1>4 DEF Keys
  <1>6. \A x \in Rows : key'[r][x] \in Goal(DOMAIN live')
    <2>1. \A x \in Rows : key[r][x] \in Goal(DOMAIN draft[r] \cup DOMAIN live)
      BY <1>1 DEF Linking
    <2> QED  BY <1>1, <1>2, <2>1 DEF Goal
  <1>7. ASSUME NEW x \in scope[r], Plain(x), key[r][x] = <<r, x>>, NEW k \in LinksOf(TableOf[x])
        PROVE  live'[<<r, x>>][k] = Meant(r, k, file[x].ref[k])'
    <2> DEFINE old == file[x].ref[k]
    <2>1. /\ <<r, x>> \in DOMAIN draft[r] /\ SetOrLater(r, x, k) /\ k \in Links
      BY <1>1, <1>3, <1>7 DEF Drafted, LinksOf
    <2>2. Meant(r, k, old)' = Meant(r, k, old)
      BY <1>1, <1>4 DEF Meant, Recovered, Present
    <2>3. live'[<<r, x>>][k] =
             IF \E y \in Rows : <<y, k>> \in later[r] /\ key[r][y] = <<r, x>>
             THEN LET y == CHOOSE z \in Rows : <<z, k>> \in later[r] /\ key[r][z] = <<r, x>>
                  IN  key[r][file[y].ref[k]]
             ELSE draft[r][<<r, x>>][k]
      BY <1>2, <2>1 DEF Repaired
    <2>4. \A y \in Rows : key[r][y] = <<r, x>> => y = x
      BY <1>3 DEF Keys
    <2>5. CASE <<x, k>> \in later[r]
      <3>1. live'[<<r, x>>][k] = key[r][old]
        BY <1>3, <1>7, <2>3, <2>4, <2>5
      <3>2. ~Recovered(r, k, old)
        BY <1>3, <2>5 DEF Drafted
      <3>3. x \in DOMAIN file /\ old \in Rows \cup {None}
        BY <1>1, <1>7, <2>1 DEF Base, Holds, TypeOK, RowsOf
      <3>4. old # None
        BY <1>1, <2>5 DEF Base, Holds
      <3>5. old \notin scope[r] => key[r][old] = None
        BY <1>3, <3>3, <3>4 DEF Keys
      <3> QED  BY <2>2, <3>1, <3>2, <3>4, <3>5 DEF Meant
    <2>6. CASE <<x, k>> \notin later[r]
      <3>1. live'[<<r, x>>][k] = draft[r][<<r, x>>][k]
        BY <2>3, <2>4, <2>6
      <3> QED  BY <2>1, <2>2, <2>6, <3>1 DEF SetOrLater
    <2> QED  BY <2>5, <2>6
  <1>8. Settled(r)'
    BY <1>1, <1>7 DEF Settled
  <1> QED  BY <1>1, <1>5, <1>6, <1>8 DEF Linking

\* Links of the destination lead to rows it has, after a commit as before.
LEMMA CommitLeadsSomewhere ==
    ASSUME Base, NEW r \in Requests, Commit(r), Linking(r),
           \A d \in DOMAIN live, k \in Links : live[d][k] \in Goal(DOMAIN live)
    PROVE  \A d \in DOMAIN live', k \in Links : live'[d][k] \in Goal(DOMAIN live')
  <1>1. /\ pc[r] = "copying" /\ Drafted(r)
        /\ \A x \in Rows : key[r][x] \in Goal(DOMAIN draft[r] \cup DOMAIN live)
    BY DEF Commit, Linking
  <1>2. /\ DOMAIN live' = DOMAIN live \cup DOMAIN draft[r]
        /\ \A d \in DOMAIN draft[r] : live'[d] = Repaired(r)[d]
        /\ \A d \in DOMAIN live \ DOMAIN draft[r] : live'[d] = live[d]
    BY DEF Commit, Extend, Repaired
  <1>3. ASSUME NEW d \in DOMAIN draft[r], NEW k \in Links
        PROVE  Repaired(r)[d][k] \in Goal(DOMAIN live')
    <2> DEFINE noted == \E x \in Rows : <<x, k>> \in later[r] /\ key[r][x] = d
               y == CHOOSE x \in Rows : <<x, k>> \in later[r] /\ key[r][x] = d
    <2>1. Repaired(r)[d][k] = IF noted THEN key[r][file[y].ref[k]] ELSE draft[r][d][k]
      BY DEF Repaired
    <2>2. CASE noted
      <3>1. y \in Rows /\ <<y, k>> \in later[r]
        BY <2>2
      <3> HIDE DEF y, noted
      <3>2. y \in DOMAIN file /\ file[y].ref[k] # None
        BY <1>1, <3>1 DEF Base, Holds
      <3>3. file[y].ref[k] \in Rows
        BY <3>2 DEF Base, TypeOK, RowsOf
      <3> QED  BY <1>1, <1>2, <2>1, <2>2, <3>3 DEF Goal
    <2>3. CASE ~noted
      <3>1. draft[r][d][k] \in Goal(DOMAIN draft[r] \cup DOMAIN live)
        BY <1>1 DEF Drafted
      <3> QED  BY <1>2, <2>1, <2>3, <3>1 DEF Goal
    <2> QED  BY <2>2, <2>3
  <1>4. ASSUME NEW d \in DOMAIN live, NEW k \in Links
        PROVE  live[d][k] \in Goal(DOMAIN live')
    BY <1>2 DEF Goal
  <1> QED  BY <1>2, <1>3, <1>4

\* Nor does a commit touch a row of another import but a singleton.
LEMMA CommitSparesOthers ==
    ASSUME Base, NEW r \in Requests, Commit(r), Linking(r),
           NEW q \in Requests, q # r, NEW x \in Rows, <<q, x>> \in DOMAIN live, Plain(x)
    PROVE  live'[<<q, x>>] = live[<<q, x>>]
  <1>1. Drafted(r)
    BY DEF Commit, Linking
  <1>2. <<q, x>> # MainStore /\ <<q, x>> \notin Mine(r)
    BY SchemaAssumption DEF MainStore, Mine
  <1>3. TableAt(<<q, x>>) = TableOf[x]
    BY SchemaAssumption DEF TableAt
  <1>4. <<q, x>> \notin DOMAIN draft[r]
    BY <1>1, <1>2, <1>3 DEF Drafted, Plain
  <1> QED  BY <1>4 DEF Commit, Extend, Repaired

LEMMA ImportKeepsLinks ==
    ASSUME Base, AllArrivals, AllArrivals', AllLinked, NEW r \in Requests, Import(r)
    PROVE  AllLinked'
  <1>1. Alone(r)
    BY ImportsAreAlone DEF Base
  <1>2. Arrivals(r) /\ Arrivals(r)' /\ Linking(r)
    BY DEF AllArrivals, AllLinked
  <1>3. ASSUME NEW q \in Requests, q # r
        PROVE  Linking(q)'
    <2>1. /\ Arrivals(q) /\ Linking(q) /\ scope[q] \subseteq Rows
          /\ UNCHANGED <<pc[q], scope[q], todo[q], key[q], draft[q], later[q]>>
          /\ UNCHANGED <<file, scene>>
      BY <1>1, <1>3 DEF AllArrivals, AllLinked, Alone, source, Base, TypeOK
    <2>2. CASE Commit(r)
      <3>1. DOMAIN live \subseteq DOMAIN live'
        BY <2>2 DEF Commit, Extend
      <3> QED  BY <1>2, <1>3, <2>1, <2>2, <3>1, CommitSparesOthers, OthersKeepLinks
    <2>3. CASE UNCHANGED live
      BY <2>1, <2>3, OthersKeepLinks
    <2> QED  BY <2>2, <2>3 DEF Import, Check, Refuse, Begin, Raise, Abort, CopyTable
  <1>4. Linking(r)'
    <2>1. CASE Check(r) \/ Refuse(r) \/ Raise(r) \/ Abort(r)
      <3>1. pc'[r] \notin {"copying", "done"}
        BY <2>1 DEF Check, Refuse, Raise, Abort, Base, TypeOK
      <3> QED  BY <3>1 DEF Linking
    <2> QED  BY <1>2, <2>1, BeginLinks, CopyLinks, CommitLinks DEF Import
  <1>5. (\A d \in DOMAIN live, k \in Links : live[d][k] \in Goal(DOMAIN live))'
    <2>1. CASE Commit(r)
      BY <1>2, <2>1, CommitLeadsSomewhere DEF AllLinked
    <2>2. CASE UNCHANGED live
      BY <2>2 DEF AllLinked, Goal
    <2> QED  BY <2>1, <2>2 DEF Import, Check, Refuse, Begin, Raise, Abort, CopyTable
  <1> QED  BY <1>3, <1>4, <1>5 DEF AllLinked

LEMMA LinksAreKept ==
    ASSUME Base, AllArrivals, AllArrivals', AllLinked, [Next]_vars
    PROVE  AllLinked'
  <1>1. CASE ReadTable \/ (\E x \in Rows : Record(x) \/ Remove(x))
    <2>1. UNCHANGED <<import, live, scene>> /\ (UNCHANGED file \/ unread # << >>)
      BY <1>1 DEF ReadTable, Record, Remove
    <2>2. ASSUME NEW r \in Requests
          PROVE  Linking(r)'
      <3>1. pc[r] \in {"copying", "done"} => UNCHANGED <<file, scene>>
        BY <2>1 DEF Base, Holds
      <3>2. Arrivals(r) /\ Linking(r) /\ scope[r] \subseteq Rows
        BY DEF AllArrivals, AllLinked, Base, TypeOK
      <3> QED  BY <2>1, <3>1, <3>2, OthersKeepLinks DEF import
    <2> QED  BY <2>1, <2>2 DEF AllLinked, Goal
  <1>2. ASSUME NEW t \in Desks, WorkInTarget(t)
        PROVE  AllLinked'
    <2>1. /\ UNCHANGED <<source, import>> /\ DOMAIN live' = DOMAIN live \cup {<<Target, t>>}
          /\ <<Target, t>> \notin DOMAIN live
          /\ \A d \in DOMAIN live : live'[d] = live[d]
          /\ live'[<<Target, t>>] = NoLinks
      BY <1>2 DEF WorkInTarget, Extend
    <2>2. ASSUME NEW r \in Requests
          PROVE  Linking(r)'
      <3>1. /\ Arrivals(r) /\ Linking(r) /\ scope[r] \subseteq Rows
            /\ UNCHANGED <<pc[r], scope[r], todo[r], key[r], draft[r], later[r], file, scene>>
        BY <2>1 DEF AllArrivals, AllLinked, source, import, Base, TypeOK
      <3> QED  BY <2>1, <3>1, OthersKeepLinks
    <2>3. \A d \in DOMAIN live', k \in Links : live'[d][k] \in Goal(DOMAIN live')
      BY <2>1 DEF AllLinked, Goal, NoLinks
    <2> QED  BY <2>2, <2>3 DEF AllLinked
  <1>3. CASE UNCHANGED vars
    <2>1. ASSUME NEW r \in Requests
          PROVE  Linking(r)'
      <3>1. /\ Arrivals(r) /\ Linking(r) /\ scope[r] \subseteq Rows
            /\ UNCHANGED <<pc[r], scope[r], todo[r], key[r], draft[r], later[r], file, scene, live>>
        BY <1>3 DEF AllArrivals, AllLinked, vars, source, import, Base, TypeOK
      <3> QED  BY <3>1, OthersKeepLinks
    <2> QED  BY <1>3, <2>1 DEF AllLinked, Goal, vars
  <1> QED  BY <1>1, <1>2, <1>3, ImportKeepsLinks DEF Next

LEMMA LinksSuffice ==
    ASSUME Base, AllArrivals, AllLinked
    PROVE  LinksSurvive
  <1>1. ASSUME NEW r \in Requests, NEW x \in Rows, pc[r] = "done", x \in scope[r]
        PROVE  key[r][x] \in DOMAIN live \cup Accounts
    <2>1. Keys(r) /\ key[r][x] \in Goal(DOMAIN live)
      BY <1>1 DEF AllLinked, Linking
    <2>2. todo[r] = {} /\ Keyed(r, DOMAIN live)
      BY <1>1 DEF AllArrivals, Arrivals
    <2>3. CASE TableOf[x] = User
      BY <1>1, <2>1, <2>3 DEF Keys, Goal
    <2>4. CASE TableOf[x] # User
      BY <1>1, <2>2, <2>4 DEF Keyed
    <2> QED  BY <2>3, <2>4
  <1>2. ASSUME NEW r \in Requests, pc[r] = "done"
        PROVE  Settled(r)
    BY <1>2 DEF AllLinked, Linking
  <1>3. \A d \in DOMAIN live, k \in Links : live[d][k] \in DOMAIN live \cup Accounts \cup {None}
    BY DEF AllLinked, Goal
  <1> QED  BY <1>1, <1>2, <1>3 DEF LinksSurvive, Settled, Plain

\* Whatever the schema, the order of its tables and the imports under way, every
\* row of the tenant is in the destination after an import and its links lead
\* where the file's links led: import_legacy_sqlite and import_legacy_fixture
\* with their deferred repairs.
THEOREM LinksSurviveTheorem == Spec => []LinksSurvive
  <1>1. Init => Base /\ AllArrivals /\ AllLinked
    BY InitBase, InitArrivals, InitLinked
  <1>2. Base /\ AllArrivals /\ AllLinked /\ [Next]_vars => (Base /\ AllArrivals /\ AllLinked)'
    BY BaseIsKept, ArrivalsAreKept, LinksAreKept
  <1>3. Base /\ AllArrivals /\ AllLinked => LinksSurvive
    BY LinksSuffice
  <1> QED  BY <1>1, <1>2, <1>3, PTL DEF Spec

-----------------------------------------------------------------------------
(* Nothing is added to tables in use *)

\* Tables an import must find empty.
Operational == Owned \ (Singletons \cup {Location, User})

\* Rows of a child table hang from records, not from locations or settings: so
\* it is in every table without a business column.
ChildrenOfRecords == \A k \in Links : From[k] \notin Owned => To[k] \notin Singletons \cup {Location}

\* A child is admitted by a chain of parents that ends in an operational row;
\* without one the empty set would be closed.
LEMMA ChildrenHaveRecords ==
    ASSUME Base, ChildrenOfRecords, NEW x \in Scope, TableOf[x] \notin Owned
    PROVE  \E y \in Rooted : TableOf[y] \in Operational
  <1> SUFFICES ASSUME \A y \in Rooted : TableOf[y] \notin Operational
               PROVE  FALSE
    OBVIOUS
  <1>1. ASSUME NEW z \in Children, NEW y \in Parents(z) \cap Rooted
        PROVE  FALSE
    <2>1. PICK k \in LinksOf(TableOf[z]) : To[k] # User /\ file[z].ref[k] = y
      BY <1>1 DEF Parents
    <2>2. y \in DOMAIN file /\ TableOf[y] \in Owned /\ z \in DOMAIN file /\ TableOf[z] \notin Owned
      BY <1>1 DEF Rooted, Children
    <2>3. y # None
      BY <2>2, SchemaAssumption DEF Base, TypeOK
    <2>4. TableOf[y] = To[k]
      BY <2>1, <2>2, <2>3 DEF Base, Linked
    <2>5. k \in Links /\ From[k] \notin Owned
      BY <2>1, <2>2 DEF LinksOf
    <2>6. TableOf[y] \in Operational
      BY <2>1, <2>2, <2>4, <2>5 DEF ChildrenOfRecords, Operational
    <2> QED  BY <1>1, <2>6
  <1>2. Closed({})
    <2>1. ASSUME NEW z \in Children, Anchored(z, Rooted \cup {})
          PROVE  FALSE
      BY <1>1, <2>1 DEF Anchored, AnchoredByOne
    <2> QED  BY <2>1 DEF Closed
  <1>3. x \notin Rooted
    BY DEF Rooted
  <1>4. {} \in SUBSET Children
    OBVIOUS
  <1>5. \A S \in SUBSET Children : Closed(S) => x \in S
    BY <1>3 DEF Scope
  <1> QED  BY <1>2, <1>4, <1>5

LEMMA RebuiltAreCustomers ==
    ASSUME Base, NEW S, S \subseteq DOMAIN file, NEW x \in Rebuilt(S)
    PROVE  TableOf[x] = Customer
  <1>1. x # None /\ \E y \in S : x \in {file[y].ref[k] : k \in Naming \cap LinksOf(TableOf[y])}
    <2> DEFINE R == UNION {{file[y].ref[k] : k \in Naming \cap LinksOf(TableOf[y])} : y \in S}
    <2>1. Rebuilt(S) \subseteq R \ {None}
      BY DEF Rebuilt
    <2> QED  BY <2>1
  <1>2. PICK y \in S : x \in {file[y].ref[k] : k \in Naming \cap LinksOf(TableOf[y])}
    BY <1>1
  <1>3. PICK k \in Naming \cap LinksOf(TableOf[y]) : x = file[y].ref[k]
    BY <1>2
  <1>4. TableOf[x] = To[k]
    BY <1>1, <1>3 DEF Base, Linked
  <1> QED  BY <1>3, <1>4, SchemaAssumption

\* What an import has checked stays true until it commits, if no other works on
\* the destination meanwhile; what it copies of operational tables is new.
Uncontested(r) ==
    /\ pc[r] \in {"copying", "done"} =>
        /\ scope[r] = Scope
        /\ \A x \in Scope :
            TableOf[x] \notin Singletons \cup {Location, User} =>
                TableOf[x] \in todo[r] \/ key[r][x] = <<r, x>>
    /\ (scene.solo /\ pc[r] \in {"checked", "copying"}) =>
        /\ Conflicts(Scope) = {}
        /\ \A q \in Requests \ {r} : pc[q] \notin {"checked", "copying"}

\* Rows that users of the destination recorded are in tables they write.
OwnRecords == \A t \in Tables : <<Target, t>> \in DOMAIN live => t \in Desks \cup {Location}

Apart == OwnRecords /\ \A r \in Requests : Uncontested(r)

LEMMA InitApart == ASSUME Init PROVE Apart
  <1>1. ASSUME NEW t \in Tables, <<Target, t>> \in DOMAIN live
        PROVE  t \in Desks \cup {Location}
    <2>1. <<Target, t>> = MainStore
      BY <1>1 DEF Init
    <2> QED  BY <2>1, SchemaAssumption DEF MainStore
  <1> QED  BY <1>1 DEF Init, Apart, OwnRecords, Uncontested

\* The conflicts depend on the file and on the rows of the destination.
LEMMA SameConflicts ==
    ASSUME UNCHANGED <<file, scene, live>>
    PROVE  Conflicts(Scope)' = Conflicts(Scope)
  <1>1. Scope' = Scope /\ (Rebuilt(Scope))' = Rebuilt(Scope) /\ Json' = Json
    BY FileDecides DEF Json
  <1>2. Copied(Scope)' = Copied(Scope)
    BY <1>1 DEF Copied, Present
  <1> QED  BY <1>1, <1>2 DEF Conflicts

LEMMA OthersStayUncontested ==
    ASSUME NEW r \in Requests, Uncontested(r),
           UNCHANGED <<pc[r], scope[r], todo[r], key[r]>>,
           pc[r] # "idle" => UNCHANGED <<file, scene>>,
           (scene.solo /\ pc[r] \in {"checked", "copying"}) =>
                /\ UNCHANGED live
                /\ \A q \in Requests \ {r} : pc'[q] \notin {"checked", "copying"}
    PROVE  Uncontested(r)'
  <1>1. CASE pc[r] = "idle"
    BY <1>1 DEF Uncontested
  <1>2. CASE pc[r] # "idle"
    <2>1. Scope' = Scope
      BY <1>2, FileDecides
    <2>2. (scene.solo /\ pc[r] \in {"checked", "copying"}) =>
                 Conflicts(Scope)' = Conflicts(Scope)
      BY <1>2, SameConflicts
    <2>3. (pc[r] \in {"copying", "done"})' =>
        /\ scope'[r] = Scope'
        /\ \A x \in Scope' :
            TableOf[x] \notin Singletons \cup {Location, User} =>
                TableOf[x] \in todo'[r] \/ key'[r][x] = <<r, x>>
      BY <2>1 DEF Uncontested
    <2>4. (scene.solo /\ pc[r] \in {"checked", "copying"})' =>
        /\ Conflicts(Scope)' = {}
        /\ \A q \in Requests \ {r} : pc'[q] \notin {"checked", "copying"}
      BY <1>2, <2>2 DEF Uncontested
    <2> QED  BY <2>3, <2>4 DEF Uncontested
  <1> QED  BY <1>1, <1>2

LEMMA ImportKeepsApart ==
    ASSUME Base, AllArrivals, Apart, NEW r \in Requests, Import(r)
    PROVE  Apart'
  <1>1. Alone(r)
    BY ImportsAreAlone DEF Base
  <1>2. Uncontested(r) /\ UNCHANGED <<file, scene>>
    BY <1>1 DEF Apart, Alone, source
  <1>3. Scope' = Scope
    BY <1>2, FileDecides
  <1>4. pc[r] \in Statuses /\ pc' \in [Requests -> Statuses]
    BY BaseIsKept DEF Base, TypeOK, Statuses, Next
  <1>5. CASE Check(r)
    <2>1. UNCHANGED <<live, scope, todo, key>> /\ pc[r] = "idle" /\ pc'[r] \in {"checked", "blocked"}
          /\ (pc'[r] = "checked" => Conflicts(Scope) = {})
          /\ (scene.solo => \A q \in Requests : pc[q] \notin {"checked", "copying"})
      BY <1>5 DEF Check, Base, TypeOK
    <2>2. Conflicts(Scope)' = Conflicts(Scope)
      BY <1>2, <2>1, SameConflicts
    <2>3. \A q \in Requests \ {r} : pc'[q] = pc[q]
      BY <1>1 DEF Alone
    <2>4. Uncontested(r)'
      <3>1. ~(pc[r] \in {"copying", "done"})'
        BY <2>1
      <3>2. (scene.solo /\ pc[r] \in {"checked", "copying"})' =>
              /\ Conflicts(Scope)' = {}
              /\ \A q \in Requests \ {r} : pc'[q] \notin {"checked", "copying"}
        BY <1>2, <2>1, <2>2, <2>3
      <3> QED  BY <3>1, <3>2 DEF Uncontested
    <2>5. ASSUME NEW q \in Requests, q # r
          PROVE  Uncontested(q)'
      BY <1>2, <2>1, <2>3, <2>5, OthersStayUncontested DEF Apart
    <2> QED  BY <2>1, <2>4, <2>5 DEF Apart, OwnRecords
  <1>6. CASE ~Check(r)
    <2>1. pc'[r] \in {"checked", "copying"} => pc[r] \in {"checked", "copying"}
      BY <1>6 DEF Import, Refuse, Begin, Commit, Raise, Abort, CopyTable, Base, TypeOK
    <2>2. DOMAIN live' = DOMAIN live \/ (Commit(r) /\ DOMAIN live' = DOMAIN live \cup DOMAIN draft[r])
      BY <1>6 DEF Import, Refuse, Begin, Commit, Raise, Abort, CopyTable, Extend, Repaired
    <2>3. UNCHANGED live \/ Commit(r)
      BY <1>6 DEF Import, Refuse, Begin, Raise, Abort, CopyTable
    <2>4. Commit(r) => pc[r] = "copying" /\ pc'[r] = "done"
      BY DEF Commit, Base, TypeOK
    <2>5. OwnRecords'
      <3>1. CASE Commit(r)
        <4>1. DOMAIN draft[r] \subseteq Mine(r) \cup {MainStore} \cup DOMAIN live
          BY <2>4, <3>1 DEF AllArrivals, Arrivals
        <4>2. ASSUME NEW t \in Tables, <<Target, t>> \in DOMAIN draft[r]
              PROVE  t \in Desks \cup {Location}
          <5>1. <<Target, t>> \notin Mine(r)
            BY SchemaAssumption DEF Mine
          <5>2. MainStore = <<Target, t>> => t = Location
            BY SchemaAssumption DEF MainStore
          <5> QED  BY <4>1, <4>2, <5>1, <5>2 DEF Apart, OwnRecords
        <4> QED  BY <2>2, <4>2 DEF Apart, OwnRecords
      <3>2. CASE UNCHANGED live
        BY <3>2 DEF Apart, OwnRecords
      <3> QED  BY <2>3, <3>1, <3>2
    <2>6. ASSUME NEW q \in Requests, q # r
          PROVE  Uncontested(q)'
      <3>1. Uncontested(q) /\ UNCHANGED <<pc[q], scope[q], todo[q], key[q]>>
        BY <1>1, <2>6 DEF Apart, Alone
      <3>2. ASSUME scene.solo, pc[q] \in {"checked", "copying"}
            PROVE  /\ UNCHANGED live
                   /\ \A p \in Requests \ {q} : pc'[p] \notin {"checked", "copying"}
        <4>1. \A p \in Requests \ {q} : pc[p] \notin {"checked", "copying"}
          BY <3>1, <3>2 DEF Uncontested
        <4>2. pc[r] \notin {"checked", "copying"}
          BY <2>6, <4>1
        <4>3. UNCHANGED live /\ pc'[r] \notin {"checked", "copying"}
          BY <2>1, <2>3, <2>4, <4>2
        <4>4. ASSUME NEW p \in Requests \ {q}
              PROVE  pc'[p] \notin {"checked", "copying"}
          BY <1>1, <4>1, <4>3 DEF Alone
        <4> QED  BY <4>3, <4>4
      <3> QED  BY <1>2, <3>1, <3>2, OthersStayUncontested
    <2>7. ASSUME (scene.solo /\ pc[r] \in {"checked", "copying"})'
          PROVE  /\ Conflicts(Scope)' = {}
                 /\ \A q \in Requests \ {r} : pc'[q] \notin {"checked", "copying"}
      <3>1. scene.solo /\ pc[r] \in {"checked", "copying"}
        BY <1>2, <2>1, <2>7
      <3>2. UNCHANGED live
        BY <2>3, <2>4, <2>7
      <3>3. Conflicts(Scope)' = Conflicts(Scope)
        BY <1>2, <3>2, SameConflicts
      <3>4. \A q \in Requests \ {r} : pc'[q] = pc[q]
        BY <1>1 DEF Alone
      <3> QED  BY <1>2, <3>1, <3>3, <3>4 DEF Uncontested
    <2>8. ASSUME (pc[r] \in {"copying", "done"})'
          PROVE  /\ scope'[r] = Scope
                 /\ \A x \in Scope :
                        TableOf[x] \notin Singletons \cup {Location, User} =>
                            TableOf[x] \in todo'[r] \/ key'[r][x] = <<r, x>>
      <3>1. CASE Begin(r)
        <4>1. scope'[r] = Scope /\ todo'[r] = Copied(Scope)
          BY <3>1 DEF Begin, Base, TypeOK
        <4>2. \A x \in Scope : TableOf[x] # User => TableOf[x] \in Copied(Scope)
          BY ScopeInFile, SchemaAssumption DEF Copied, Present, Current, Base, TypeOK
        <4> QED  BY <4>1, <4>2
      <3>2. CASE Commit(r)
        BY <1>2, <2>4, <3>2 DEF Commit, Uncontested
      <3>3. ASSUME NEW t \in Tables, CopyTable(r, t)
            PROVE  /\ scope'[r] = Scope
                   /\ \A x \in Scope :
                        TableOf[x] \notin Singletons \cup {Location, User} =>
                            TableOf[x] \in todo'[r] \/ key'[r][x] = <<r, x>>
        <4>1. /\ pc[r] = "copying" /\ scope'[r] = scope[r] /\ todo'[r] = todo[r] \ {t}
              /\ key'[r] = [x \in Rows |-> IF x \in Written(r, t) THEN NewKey(r, x) ELSE key[r][x]]
          BY <3>3 DEF CopyTable, Base, TypeOK
        <4>2. scope[r] = Scope
          BY <1>2, <4>1 DEF Uncontested
        <4>3. ASSUME NEW x \in Scope, TableOf[x] \notin Singletons \cup {Location, User}
              PROVE  TableOf[x] \in todo'[r] \/ key'[r][x] = <<r, x>>
          <5>1. x \in Rows
            BY ScopeInFile DEF Base, TypeOK
          <5>2. CASE TableOf[x] = t
            <6>1. x \in Written(r, t)
              BY <4>2, <5>2 DEF Written
            <6>2. Reused(x) = {}
              BY <4>3 DEF Reused
            <6> QED  BY <4>1, <5>1, <6>1, <6>2 DEF NewKey
          <5>3. CASE TableOf[x] # t
            <6>1. x \notin Written(r, t)
              BY <5>3 DEF Written
            <6>2. TableOf[x] \in todo[r] \/ key[r][x] = <<r, x>>
              BY <1>2, <4>1, <4>3 DEF Uncontested
            <6> QED  BY <4>1, <5>1, <5>3, <6>1, <6>2
          <5> QED  BY <5>2, <5>3
        <4> QED  BY <4>1, <4>2, <4>3
      <3>4. CASE Refuse(r) \/ Raise(r) \/ Abort(r)
        BY <2>8, <3>4 DEF Refuse, Raise, Abort, Base, TypeOK
      <3> QED  BY <1>6, <3>1, <3>2, <3>3, <3>4 DEF Import
    <2>9. Uncontested(r)'
      BY <1>3, <2>7, <2>8 DEF Uncontested
    <2> QED  BY <2>5, <2>6, <2>9 DEF Apart
  <1> QED  BY <1>5, <1>6

LEMMA ApartIsKept ==
    ASSUME Base, AllArrivals, Apart, [Next]_vars
    PROVE  Apart'
  <1>1. ASSUME UNCHANGED <<import, live, scene>>, UNCHANGED file \/ unread # << >>
        PROVE  Apart'
    <2>1. ASSUME NEW r \in Requests
          PROVE  Uncontested(r)'
      <3>1. Uncontested(r) /\ UNCHANGED <<pc[r], scope[r], todo[r], key[r]>>
        BY <1>1 DEF Apart, import
      <3>2. pc[r] # "idle" => UNCHANGED <<file, scene>>
        BY <1>1 DEF Base, Holds
      <3>3. (scene.solo /\ pc[r] \in {"checked", "copying"}) =>
                \A q \in Requests \ {r} : pc'[q] \notin {"checked", "copying"}
        BY <1>1, <3>1 DEF Uncontested, import
      <3> QED  BY <1>1, <3>1, <3>2, <3>3, OthersStayUncontested
    <2> QED  BY <1>1, <2>1 DEF Apart, OwnRecords
  <1>2. CASE ReadTable \/ (\E x \in Rows : Record(x) \/ Remove(x))
    <2>1. UNCHANGED <<import, live, scene>> /\ (UNCHANGED file \/ unread # << >>)
      BY <1>2 DEF ReadTable, Record, Remove
    <2> QED  BY <1>1, <2>1
  <1>3. ASSUME NEW t \in Desks, WorkInTarget(t)
        PROVE  Apart'
    <2>1. /\ UNCHANGED <<source, import>> /\ DOMAIN live' = DOMAIN live \cup {<<Target, t>>}
          /\ scene.solo => \A q \in Requests : pc[q] \notin {"checked", "copying"}
      BY <1>3 DEF WorkInTarget, Extend
    <2>2. OwnRecords'
      BY <2>1 DEF Apart, OwnRecords
    <2>3. ASSUME NEW r \in Requests
          PROVE  Uncontested(r)'
      <3>1. Uncontested(r) /\ UNCHANGED <<pc[r], scope[r], todo[r], key[r], file, scene>>
        BY <2>1 DEF Apart, source, import
      <3> QED  BY <2>1, <3>1, OthersStayUncontested
    <2> QED  BY <2>2, <2>3 DEF Apart
  <1>4. CASE UNCHANGED vars
    BY <1>1, <1>4 DEF vars, source
  <1> QED  BY <1>2, <1>3, <1>4, ImportKeepsApart DEF Next

\* A table of the destination with rows in a child table has rows in an
\* operational one that the import copies too.
LEMMA ChildrenConflict ==
    ASSUME Base, AllArrivals, Apart, Desks \subseteq Owned, ChildrenOfRecords,
           NEW d \in DOMAIN live, TableAt(d) \notin Owned,
           NEW x \in Scope, TableOf[x] = TableAt(d)
    PROVE  Conflicts(Scope) # {}
  <1>1. d \in Dest
    BY DEF Base, TypeOK
  <1>2. ASSUME NEW t \in Tables, d = <<Target, t>>
        PROVE  FALSE
    BY <1>2, SchemaAssumption DEF Apart, OwnRecords, TableAt
  <1>3. PICK q \in Requests, y \in Rows : d = <<q, y>>
    BY <1>1, <1>2 DEF Dest
  <1>4. pc[q] = "done"
    BY <1>3 DEF AllArrivals, Arrivals
  <1>5. scope[q] = Scope /\ todo[q] = {}
    BY <1>4 DEF Apart, Uncontested, AllArrivals, Arrivals
  <1>6. PICK z \in Rooted : TableOf[z] \in Operational
    BY ChildrenHaveRecords
  <1>7. z \in Scope
    BY DEF Scope
  <1>8. key[q][z] = <<q, z>> /\ key[q][z] \in DOMAIN live
    <2>1. TableOf[z] \notin Singletons \cup {Location, User}
      BY <1>6 DEF Operational
    <2>2. key[q][z] = <<q, z>>
      BY <1>4, <1>5, <1>7, <2>1 DEF Apart, Uncontested
    <2>3. key[q][z] \in DOMAIN live
      BY <1>4, <1>5, <1>7, <2>1 DEF AllArrivals, Arrivals, Keyed
    <2> QED  BY <2>2, <2>3
  <1>9. TableAt(<<q, z>>) = TableOf[z]
    BY SchemaAssumption DEF TableAt
  <1>10. TableOf[z] \in Copied(Scope)
    BY <1>6, <1>7, ScopeInFile, SchemaAssumption
    DEF Copied, Present, Current, Operational, Base, TypeOK
  <1>11. <<q, z>> \in Conflicts(Scope)
    BY <1>6, <1>8, <1>9, <1>10 DEF Conflicts, Operational
  <1> QED  BY <1>11

\* What a step never does: TablesAreNotMerged without the temporal operator.
MergesNothing ==
    \A r \in Requests :
        (pc[r] = "copying" /\ pc'[r] = "done" /\ scene.solo) =>
            \A d \in DOMAIN live, x \in scope[r] \cup Rebuilt(scope[r]) :
                TableAt(d) = TableOf[x] => TableOf[x] \in Singletons \cup {Location, User}

LEMMA CommitsAreApart ==
    ASSUME Base, AllArrivals, Apart, Desks \subseteq Owned, ChildrenOfRecords
    PROVE  MergesNothing
  <1> SUFFICES ASSUME NEW r \in Requests, pc[r] = "copying", scene.solo,
                      NEW d \in DOMAIN live, NEW x \in scope[r] \cup Rebuilt(scope[r]),
                      TableAt(d) = TableOf[x], TableOf[x] \notin Singletons \cup {Location, User}
               PROVE  FALSE
    BY DEF MergesNothing
  <1>1. scope[r] = Scope /\ Conflicts(Scope) = {}
    BY DEF Apart, Uncontested
  <1>2. CASE x \in Rebuilt(Scope)
    <2>1. TableOf[x] = Customer
      BY <1>2, ScopeInFile, RebuiltAreCustomers
    <2> QED  BY <1>1, <1>2, <2>1 DEF Conflicts
  <1>3. CASE x \in Scope /\ TableOf[x] \in Owned
    <2>1. TableOf[x] \in Copied(Scope)
      BY <1>3, ScopeInFile, SchemaAssumption DEF Copied, Present, Current, Base, TypeOK
    <2> QED  BY <1>1, <1>3, <2>1 DEF Conflicts
  <1>4. CASE x \in Scope /\ TableOf[x] \notin Owned
    BY <1>1, <1>4, ChildrenConflict
  <1> QED  BY <1>1, <1>2, <1>3, <1>4

\* Imports that do not overlap leave tables with rows alone, children's tables
\* included although _target_conflicts never looks at them: a child was admitted
\* by an operational row, which the earlier import left in the destination too.
\* Users of the destination record children only under rows of their own, and
\* children hang from operational rows, as in the schema of the application.
THEOREM TablesStayApart ==
    ASSUME Desks \subseteq Owned, ChildrenOfRecords
    PROVE  Spec => TablesAreNotMerged
  <1>1. Init => Base /\ AllArrivals /\ Apart
    BY InitBase, InitArrivals, InitApart
  <1>2. Base /\ AllArrivals /\ Apart /\ [Next]_vars => (Base /\ AllArrivals /\ Apart)'
    BY BaseIsKept, ArrivalsAreKept, ApartIsKept
  <1>3. Base /\ AllArrivals /\ Apart => MergesNothing
    BY CommitsAreApart
  <1>4. TablesAreNotMerged <=> [][MergesNothing]_vars
    BY DEF TablesAreNotMerged, MergesNothing
  <1> QED  BY <1>1, <1>2, <1>3, <1>4, PTL DEF Spec

-----------------------------------------------------------------------------
(* A backup made at rest can be imported *)

\* The tables a backup reads.
ReadTables == {Reading[i] : i \in DOMAIN Reading}

\* The querysets of a backup hold together, as those of the application do: a
\* table read has required links only to other tables that are read, and one
\* without a business column is read by a link of its own to one that has it
\* and is linked to no other kind.
CompleteReading ==
    /\ Tenant # None
    /\ \A k \in Required : From[k] \in ReadTables => To[k] \in ReadTables /\ To[k] # From[k]
    /\ \A t \in ReadTables \ Owned :
        /\ From[OwnerLink[t]] = t /\ To[OwnerLink[t]] \in ReadTables
        /\ \A k \in LinksOf(t) : To[k] \in Owned

Resting == scene.kind = "backup" /\ scene.quiet

\* What the backup has read is what the office has, and all of it; what it has
\* not read yet it will.
Faithful ==
    /\ Intact(office) /\ Separate(office)
    /\ unread \in Seq(ReadTables)
    /\ \A x \in DOMAIN file :
        /\ x \in DOMAIN office /\ file[x] = office[x]
        /\ TenantIn(office, x) = Tenant /\ TableOf[x] \in ReadTables
    /\ \A x \in DOMAIN office :
        (TenantIn(office, x) = Tenant /\ TableOf[x] \in ReadTables) =>
            x \in DOMAIN file \/ \E i \in DOMAIN unread : unread[i] = TableOf[x]

Restored == Resting => Faithful /\ \A r \in Requests : pc[r] # "raised"

LEMMA InitRestored == ASSUME Init PROVE Restored
  <1> SUFFICES ASSUME Resting
               PROVE  Faithful /\ \A r \in Requests : pc[r] # "raised"
    BY DEF Restored
  <1>1. /\ Intact(office) /\ Separate(office) /\ file = << >> /\ unread = Reading
        /\ \A r \in Requests : pc[r] # "raised"
    BY DEF Init, Resting
  <1>2. DOMAIN file = {}
    BY <1>1
  <1>3. unread \in Seq(ReadTables)
    BY <1>1, SchemaAssumption DEF ReadTables
  <1>4. \A x \in DOMAIN office :
           TableOf[x] \in ReadTables => \E i \in DOMAIN unread : unread[i] = TableOf[x]
    BY <1>1 DEF ReadTables
  <1> QED  BY <1>1, <1>2, <1>3, <1>4 DEF Faithful

LEMMA ReadingIsFaithful ==
    ASSUME Base, Faithful, ReadTable
    PROVE  Faithful'
  <1> DEFINE t == Head(unread)
             g == [x \in Exported(t) |-> office[x]]
  <1>1. /\ unread # << >> /\ unread' = Tail(unread) /\ UNCHANGED office
        /\ file' = Extend(file, g)
    BY DEF ReadTable
  <1>2. unread \in Seq(ReadTables) /\ t \in ReadTables /\ unread' \in Seq(ReadTables)
    BY <1>1 DEF Faithful
  <1>3. DOMAIN g = {x \in DOMAIN office : TableOf[x] = t /\ TenantIn(office, x) = Tenant}
        /\ \A x \in DOMAIN g : g[x] = office[x]
    BY DEF Exported
  <1>4. /\ DOMAIN file' = DOMAIN file \cup DOMAIN g
        /\ \A x \in DOMAIN file' : file'[x] = IF x \in DOMAIN g THEN g[x] ELSE file[x]
    BY <1>1 DEF Extend
  <1> HIDE DEF g
  <1>5. \A x \in DOMAIN file' :
           /\ x \in DOMAIN office /\ file'[x] = office[x]
           /\ TenantIn(office, x) = Tenant /\ TableOf[x] \in ReadTables
    BY <1>2, <1>3, <1>4 DEF Faithful
  <1>6. ASSUME NEW x \in DOMAIN office, TenantIn(office, x) = Tenant, TableOf[x] \in ReadTables,
               x \notin DOMAIN file'
        PROVE  \E i \in DOMAIN unread' : unread'[i] = TableOf[x]
    <2>1. x \notin DOMAIN file /\ TableOf[x] # t
      BY <1>3, <1>4, <1>6
    <2>2. PICK i \in DOMAIN unread : unread[i] = TableOf[x]
      BY <1>6, <2>1 DEF Faithful
    <2>3. i \in 1 .. Len(unread) /\ i # 1
      BY <1>2, <2>1, <2>2
    <2>4. /\ i - 1 \in 1 .. Len(unread')
          /\ unread'[i - 1] = unread[i]
      BY <1>1, <1>2, <2>3
    <2>5. i - 1 \in DOMAIN unread'
      BY <1>2, <2>4
    <2> QED  BY <2>2, <2>4, <2>5
  <1>7. Intact(office') /\ Separate(office')
    BY <1>1 DEF Faithful
  <1>8. \A x : TenantIn(office, x)' = TenantIn(office, x)
    BY <1>1 DEF TenantIn
  <1> HIDE DEF t
  <1> QED  BY <1>1, <1>2, <1>5, <1>6, <1>7, <1>8 DEF Faithful

\* A row without a business column has all its parents among the tenant's rows,
\* and one at least: of a quiet backup everything is in scope.
LEMMA QuietScope ==
    ASSUME Base, Faithful, CompleteReading, Json, unread = << >>,
           NEW x \in DOMAIN office, TenantIn(office, x) = Tenant, TableOf[x] \in ReadTables
    PROVE  x \in Scope
  <1>1. \A y \in DOMAIN office :
           (TenantIn(office, y) = Tenant /\ TableOf[y] \in ReadTables) => y \in DOMAIN file
    BY DEF Faithful
  <1>2. \A y \in DOMAIN office :
           (TenantIn(office, y) = Tenant /\ TableOf[y] \in ReadTables /\ TableOf[y] \in Owned) =>
                y \in Rooted
    <2>1. User \notin ReadTables
      BY SchemaAssumption DEF ReadTables
    <2> QED  BY <1>1, <2>1 DEF Rooted, TenantIn, Faithful
  <1>3. CASE TableOf[x] \in Owned
    BY <1>2, <1>3 DEF Scope
  <1>4. CASE TableOf[x] \notin Owned
    <2>1. x \in DOMAIN file /\ file[x] = office[x] /\ x \in Children
      BY <1>1, <1>4 DEF Children, Faithful
    <2>2. ASSUME NEW y \in Parents(x)
          PROVE  y \in Rooted
      <3>1. PICK k \in LinksOf(TableOf[x]) : file[x].ref[k] = y
        BY DEF Parents
      <3>2. y \in DOMAIN file
        BY DEF Parents
      <3>3. y # None
        BY <3>2, SchemaAssumption DEF Base, TypeOK
      <3>4. TableOf[y] \in Owned
        BY <1>4, <2>1, <3>1, <3>3 DEF CompleteReading, Base, Linked
      <3> QED  BY <1>2, <3>2, <3>4 DEF Faithful
    <2>3. Parents(x) # {}
      <3> DEFINE k == OwnerLink[TableOf[x]]
                 p == office[x].ref[k]
      <3>1. TableOf[x] \in Tables \ Owned
        BY <1>4, SchemaAssumption DEF Base, TypeOK
      <3>2. k \in LinksOf(TableOf[x]) /\ To[k] \in ReadTables /\ To[k] \in Owned
        BY <1>4, <3>1, SchemaAssumption DEF CompleteReading, LinksOf
      <3>3. p \in DOMAIN office /\ office[p].tenant = Tenant
        BY <1>4 DEF TenantIn, CompleteReading
      <3>4. p # None
        BY <3>3, SchemaAssumption DEF Base, TypeOK
      <3>5. TableOf[p] = To[k]
        BY <3>2, <3>4 DEF Base, Linked
      <3>6. TenantIn(office, p) = Tenant
        BY <3>2, <3>3, <3>5 DEF TenantIn
      <3>7. p \in DOMAIN file
        BY <1>1, <3>2, <3>3, <3>5, <3>6
      <3>8. To[k] # User
        BY <3>2, SchemaAssumption DEF ReadTables
      <3> QED  BY <2>1, <3>2, <3>7, <3>8 DEF Parents
    <2>4. \A S : Anchored(x, Rooted \cup S)
      BY <2>2, <2>3 DEF Anchored, AnchoredByOne
    <2> QED  BY <2>1, <2>4 DEF Scope, Closed
  <1> QED  BY <1>3, <1>4

\* A required link leads to a row that has been written before.
LEMMA QuietIsMappable ==
    ASSUME Base, AllArrivals, Apart, Faithful, CompleteReading, Json,
           NEW r \in Requests, pc[r] = "copying", NEW t \in Tables, Ready(r, t)
    PROVE  ~Unmappable(r, t)
  <1> SUFFICES ASSUME NEW x \in Written(r, t), NEW k \in LinksOf(t) \cap Required,
                      NewLink(r, k, file[x].ref[k]) = None
               PROVE  FALSE
    BY DEF Unmappable
  <1> DEFINE old == file[x].ref[k]
  <1>1. scope[r] = Scope /\ unread = << >>
    BY DEF Apart, Uncontested, Base, Holds
  <1>2. x \in scope[r] /\ TableOf[x] = t /\ x \in DOMAIN file
    BY DEF Written, Base, Holds
  <1>3. x \in DOMAIN office /\ file[x] = office[x] /\ TenantIn(office, x) = Tenant /\ t \in ReadTables
    BY <1>2 DEF Faithful
  <1>4. old # None /\ old \in DOMAIN office /\ TableOf[old] = To[k]
    BY <1>2, <1>3 DEF Faithful, Intact
  <1>5. TenantIn(office, old) = Tenant
    BY <1>2, <1>3, <1>4 DEF Faithful, Separate
  <1>6. From[k] = t /\ k \in Links /\ To[k] \in ReadTables /\ To[k] # t
    BY <1>3 DEF LinksOf, CompleteReading
  <1>7. old \in scope[r]
    BY <1>1, <1>4, <1>5, <1>6, QuietScope
  <1>8. ~Recovered(r, k, old)
    BY <1>2, <1>7, RecoveredIsAbsent
  <1>9. To[k] \notin todo[r]
    BY <1>6 DEF Ready
  <1>10. To[k] # User
    BY <1>6, SchemaAssumption DEF ReadTables
  <1>11. key[r][old] \in DOMAIN draft[r] \cup DOMAIN live
    BY <1>4, <1>7, <1>9, <1>10 DEF AllArrivals, Arrivals, Keyed
  <1>12. key[r][old] # None
    BY <1>11, SchemaAssumption DEF Base, TypeOK
  <1> QED  BY <1>4, <1>8, <1>12 DEF NewLink

LEMMA RestoredIsKept ==
    ASSUME Base, AllArrivals, Apart, Restored, CompleteReading, [Next]_vars
    PROVE  Restored'
  <1> SUFFICES ASSUME Resting'
               PROVE  Faithful' /\ \A r \in Requests : pc'[r] # "raised"
    BY DEF Restored
  <1>1. UNCHANGED scene
    BY DEF Next, ReadTable, Record, Remove, Import, Check, Refuse, Begin, Commit, Raise, Abort,
           CopyTable, WorkInTarget, vars, source
  <1>2. Resting /\ Faithful /\ \A r \in Requests : pc[r] # "raised"
    BY <1>1 DEF Resting, Restored
  <1>3. ASSUME UNCHANGED <<office, file, unread>>
        PROVE  Faithful'
    <2>1. \A x : TenantIn(office, x)' = TenantIn(office, x)
      BY <1>3 DEF TenantIn
    <2>2. Intact(office') /\ Separate(office')
      BY <1>2, <1>3 DEF Faithful
    <2> QED  BY <1>2, <1>3, <2>1, <2>2 DEF Faithful
  <1>4. CASE ReadTable
    BY <1>2, <1>4, ReadingIsFaithful DEF ReadTable, import
  <1>5. ASSUME NEW x \in Rows, Record(x) \/ Remove(x)
        PROVE  FALSE
    BY <1>2, <1>5 DEF Record, Remove, Resting
  <1>6. ASSUME NEW r \in Requests, Import(r)
        PROVE  Faithful' /\ \A q \in Requests : pc'[q] # "raised"
    <2>1. Alone(r)
      BY <1>6, ImportsAreAlone DEF Base
    <2>2. Json
      BY <1>2 DEF Json, Resting
    <2>3. ~Raise(r)
      <3>1. Identified
        BY <2>2 DEF Identified, Members
      <3>2. ASSUME pc[r] = "copying", NEW t \in Tables, Ready(r, t)
            PROVE  ~Unmappable(r, t)
        BY <1>2, <2>2, <3>2, QuietIsMappable
      <3> QED  BY <3>1, <3>2 DEF Raise
    <2>4. pc'[r] # "raised"
      BY <1>2, <1>6, <2>3
      DEF Import, Check, Refuse, Begin, Commit, Abort, CopyTable, Base, TypeOK
    <2>5. \A q \in Requests : pc'[q] # "raised"
      BY <1>2, <2>1, <2>4 DEF Alone
    <2>6. UNCHANGED <<office, file, unread>>
      BY <2>1 DEF Alone, source
    <2> QED  BY <1>3, <2>5, <2>6
  <1>7. ASSUME NEW t \in Desks, WorkInTarget(t)
        PROVE  Faithful' /\ \A q \in Requests : pc'[q] # "raised"
    BY <1>2, <1>3, <1>7 DEF WorkInTarget, source, import
  <1>8. CASE UNCHANGED vars
    BY <1>2, <1>3, <1>8 DEF vars, source, import
  <1> QED  BY <1>4, <1>5, <1>6, <1>7, <1>8 DEF Next

LEMMA RestoredSuffices ==
    ASSUME Base, Apart, Restored, CompleteReading
    PROVE  QuietBackupRestores
  <1> SUFFICES ASSUME scene.kind = "backup", scene.quiet, NEW r \in Requests
               PROVE  /\ pc[r] # "raised"
                      /\ pc[r] \in {"copying", "done"} =>
                            {x \in DOMAIN office :
                                /\ \E i \in DOMAIN Reading : Reading[i] = TableOf[x]
                                /\ TenantIn(office, x) = Tenant} \subseteq scope[r]
    BY DEF QuietBackupRestores
  <1>1. Faithful /\ pc[r] # "raised" /\ Json
    BY DEF Restored, Resting, Json
  <1>2. ASSUME pc[r] \in {"copying", "done"}, NEW x \in DOMAIN office,
               TenantIn(office, x) = Tenant, NEW i \in DOMAIN Reading, Reading[i] = TableOf[x]
        PROVE  x \in scope[r]
    <2>1. scope[r] = Scope /\ unread = << >>
      BY <1>2 DEF Apart, Uncontested, Base, Holds
    <2>2. TableOf[x] \in ReadTables
      BY <1>2 DEF ReadTables
    <2> QED  BY <1>1, <1>2, <2>1, <2>2, QuietScope
  <1> QED  BY <1>1, <1>2

\* A backup of any office at rest can be imported by any number of requests, and
\* every row of the tenant in a table it reads is in it: tenant_backup_querysets
\* reads enough tables, each by the right column, and the import copies them in
\* an order in which no required link finds nothing.  The querysets must hold
\* together as CompleteReading says.
THEOREM QuietBackupTheorem ==
    ASSUME CompleteReading
    PROVE  Spec => []QuietBackupRestores
  <1> DEFINE Inv == Base /\ AllArrivals /\ Apart /\ Restored
  <1>1. Init => Inv
    BY InitBase, InitArrivals, InitApart, InitRestored
  <1>2. Inv /\ [Next]_vars => Inv'
    BY BaseIsKept, ArrivalsAreKept, ApartIsKept, RestoredIsKept
  <1>3. Inv => QuietBackupRestores
    BY RestoredSuffices
  <1> QED  BY <1>1, <1>2, <1>3, PTL DEF Spec
=============================================================================
