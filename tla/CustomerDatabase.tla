--------------------------- MODULE CustomerDatabase --------------------------
(***************************************************************************)
(* A customer's database and the three who meet in it: the introspector of *)
(* one session after the other, which reads the schema table by table;     *)
(* the customer, who runs the delivered scripts, statement by statement    *)
(* with psql or in one transaction with Alembic; and other people.         *)
(*                                                                         *)
(* The session between the schema and the script is AnalysisWorkflow's     *)
(* matter: here an answer of the agents is any of the models.              *)
(***************************************************************************)
EXTENDS SqlGenerator, PostgresCatalog

CONSTANTS
  Models,       \* the relational models the agents may answer with
  Before,       \* the catalog to begin with
  Others,       \* the statements other people may run
  MaxSessions,
  MaxChanges,   \* by other people
  None

ASSUME ModelsAssumption == \A m \in Models : IsRelationalModel(m)
ASSUME BeforeAssumption == IsCatalog(Before)
ASSUME OthersAssumption == \A s \in Others : s.operation \in Creates \cup Drops
ASSUME BoundsAssumption == MaxSessions \in Nat /\ MaxChanges \in Nat

VARIABLES
  db,         \* the customer's catalog
  reading,    \* the introspection of the current session
  sessions,   \* how many sessions have begun
  delivered,  \* the approved models with the schema they were made for
  applied,    \* the revisions that Alembic's version table holds
  running,    \* the customer's psql
  result,     \* history: the last script that ended
  changes     \* how many changes other people have made

vars ==
  <<db, reading, sessions, delivered, applied, running, result, changes>>

-----------------------------------------------------------------------------
(* The introspector.                                                       *)

(* The reads of one table, in order; CHECK constraints are left out. *)
Parts == <<"columns", "keys", "foreign_keys", "indexes", "unique">>

PartNames == {Parts[p] : p \in DOMAIN Parts}

(* Mutant: is_unique from the unique indexes.                              *)
FactsOfIndexes(part, t, d) ==
  CASE part = "columns" -> {<<t.name, c, c \in t.required>> : c \in t.columns}
    [] part = "keys"    -> {<<t.name, c>> : c \in t.key}
    [] part = "foreign_keys" ->
         {<<t.name, f.columns, f.references, f.keys>> :
            f \in {g \in d.foreign_keys : g.table = t.name}}
    [] part = "indexes" ->
         {<<t.name, x.columns, x.is_unique>> :
            x \in {y \in d.indexes : y.table = t.name}}
         \cup {<<t.name, u, TRUE>> : u \in t.unique}
    [] part = "unique" ->
         {<<t.name, c>> : c \in {k \in t.columns :
            \E x \in d.indexes : x.is_unique /\ x.columns = {k}}}

(* What one read of a table adds to the schema.  PostgreSQL lists the      *)
(* index behind a UNIQUE constraint among the indexes; a column is unique  *)
(* if a UNIQUE constraint has no other column.                             *)
Facts(part, t, d) ==
  CASE part = "columns" -> {<<t.name, c, c \in t.required>> : c \in t.columns}
    [] part = "keys"    -> {<<t.name, c>> : c \in t.key}
    [] part = "foreign_keys" ->
         {<<t.name, f.columns, f.references, f.keys>> :
            f \in {g \in d.foreign_keys : g.table = t.name}}
    [] part = "indexes" ->
         {<<t.name, x.columns, x.is_unique>> :
            x \in {y \in d.indexes : y.table = t.name}}
         \cup {<<t.name, u, TRUE>> : u \in t.unique}
    [] part = "unique" ->
         {<<t.name, c>> : c \in {k \in t.columns : {k} \in t.unique}}

(* The answer of one read, about the table of a name. *)
Told(part, n, d) ==
  UNION {Facts(part, t, d) : t \in {u \in d.tables : u.name = n}}

(* The schema of a catalog that holds still. *)
Schema(d) ==
  [part \in PartNames \cup {"tables"} |->
    IF part = "tables" THEN TableNames(d)
    ELSE UNION {Facts(part, t, d) : t \in d.tables}]

Within(s1, s2) == \A part \in DOMAIN s1 : s1[part] \subseteq s2[part]

NotReading ==
  [phase |-> "idle", left |-> {}, table |-> None, part |-> 1,
   seen |-> Schema(EmptyCatalog), since |-> Schema(EmptyCatalog),
   lost |-> FALSE]

(* A short-lived engine, and one connection of it. *)
Connect ==
  /\ reading.phase = "idle" /\ sessions < MaxSessions
  /\ sessions' = sessions + 1
  /\ reading' = [NotReading EXCEPT !.phase = "listing", !.since = Schema(db)]
  /\ UNCHANGED <<db, delivered, applied, running, result, changes>>

(* get_table_names *)
ListTables ==
  /\ reading.phase = "listing"
  /\ reading' = [reading EXCEPT
       !.phase = IF db.tables = {} THEN "read" ELSE "reading",
       !.left = TableNames(db), !.seen["tables"] = TableNames(db)]
  /\ UNCHANGED <<db, sessions, delivered, applied, running, result, changes>>

(* Mutant: the reading ends with a table left.                             *)
ReadButOne(n) ==
  /\ reading.phase = "reading"
  /\ n \in reading.left /\ (reading.part > 1 => n = reading.table)
  /\ LET part == Parts[reading.part]
         over == reading.part = Len(Parts)
         left == IF over THEN reading.left \ {n} ELSE reading.left IN
     IF n \notin TableNames(db)
     THEN reading' = [reading EXCEPT !.phase = "failed"]
     ELSE reading' = [reading EXCEPT
            !.seen[part] = @ \cup Told(part, n, db),
            !.left = left,
            !.phase = IF Cardinality(left) <= 1 THEN "read" ELSE "reading",
            !.table = IF over THEN None ELSE n,
            !.part = IF over THEN 1 ELSE @ + 1]
  /\ UNCHANGED <<db, sessions, delivered, applied, running, result, changes>>

(* Mutant: the reads of the next table go on counting.                     *)
ReadOn(n) ==
  /\ reading.phase = "reading"
  /\ n \in reading.left /\ (reading.part > 1 => n = reading.table)
  /\ LET part == Parts[((reading.part - 1) % Len(Parts)) + 1]
         over == reading.part >= Len(Parts)
         left == IF over THEN reading.left \ {n} ELSE reading.left IN
     IF n \notin TableNames(db)
     THEN reading' = [reading EXCEPT !.phase = "failed"]
     ELSE reading' = [reading EXCEPT
            !.seen[part] = @ \cup Told(part, n, db),
            !.left = left,
            !.phase = IF left = {} THEN "read" ELSE "reading",
            !.table = IF over THEN None ELSE n,
            !.part = @ + 1]
  /\ UNCHANGED <<db, sessions, delivered, applied, running, result, changes>>

(* One read of table n.  Each sees what is committed at that moment; a     *)
(* table that is gone ends the introspection.                              *)
ReadPart(n) ==
  /\ reading.phase = "reading"
  /\ n \in reading.left /\ (reading.part > 1 => n = reading.table)
  /\ LET part == Parts[reading.part]
         over == reading.part = Len(Parts)
         left == IF over THEN reading.left \ {n} ELSE reading.left IN
     IF n \notin TableNames(db)
     THEN reading' = [reading EXCEPT !.phase = "failed"]
     ELSE reading' = [reading EXCEPT
            !.seen[part] = @ \cup Told(part, n, db),
            !.left = left,
            !.phase = IF left = {} THEN "read" ELSE "reading",
            !.table = IF over THEN None ELSE n,
            !.part = IF over THEN 1 ELSE @ + 1]
  /\ UNCHANGED <<db, sessions, delivered, applied, running, result, changes>>

(* SchemaIntrospectionError: no table of a broken reading is used. *)
GiveUp ==
  /\ reading.phase = "failed"
  /\ reading' = NotReading
  /\ UNCHANGED <<db, sessions, delivered, applied, running, result, changes>>

(* The compact schema in the prompt of the next analysis. *)
CompactTags(schema, n) ==
  {[column |-> f[2], pk |-> <<n, f[2]>> \in schema["keys"],
    unique |-> <<n, f[2]>> \in schema["unique"], not_null |-> f[3]]
     : f \in {g \in schema["columns"] : g[1] = n}}

(* The agents answer; the script of an approved model is delivered, that   *)
(* of a model the generator refuses is not.                                *)
Propose(m) ==
  /\ reading.phase = "read"
  /\ reading' = NotReading
  /\ delivered' = IF Raises(m) THEN delivered
                  ELSE Append(delivered, [model |-> m, schema |-> reading.seen])
  /\ UNCHANGED <<db, sessions, applied, running, result, changes>>

-----------------------------------------------------------------------------
(* Changes to the catalog.                                                 *)

(* Whatever is done to the database is done under the eyes of a reading:   *)
(* did it lose anything?                                                   *)
Watched ==
  reading' = [reading EXCEPT
    !.lost = @ \/ (/\ reading.phase # "idle"
                   /\ ~Within(Schema(db), Schema(db')))]

NotRunning ==
  [phase |-> "idle", of |-> 0, at |-> 1, before |-> EmptyCatalog,
   alone |-> TRUE]

(* psql -v ON_ERROR_STOP=1 -f migration.sql *)
StartScript(i) ==
  /\ running.phase = "idle"
  /\ running' = [NotRunning EXCEPT !.phase = "script", !.of = i, !.before = db]
  /\ UNCHANGED <<db, reading, sessions, delivered, applied, result, changes>>

(* The next statement, committed at once.  An error ends the script. *)
Statement ==
  /\ running.phase = "script"
  /\ LET plan == Plan(delivered[running.of].model)
         s == plan[running.at]
         ok == Runs(s, db) IN
     /\ db' = IF ok THEN Effect(s, db) ELSE db
     /\ IF ok /\ running.at < Len(plan)
        THEN /\ running' = [running EXCEPT !.at = @ + 1]
             /\ UNCHANGED result
        ELSE /\ running' = NotRunning
             /\ result' = [kind |-> "script", of |-> running.of, ok |-> ok,
                           before |-> running.before, after |-> db',
                           alone |-> running.alone]
  /\ Watched
  /\ UNCHANGED <<sessions, delivered, applied, changes>>

(* alembic upgrade and downgrade: one transaction. *)
Revise(i, kind, statements) ==
  LET outcome == Transaction(statements, db) IN
  /\ running.phase = "idle"
  /\ db' = outcome.db
  /\ applied' = IF ~outcome.ok THEN applied
                ELSE IF kind = "upgrade" THEN applied \cup {i}
                ELSE applied \ {i}
  /\ result' = [kind |-> kind, of |-> i, ok |-> outcome.ok, before |-> db,
                after |-> db', alone |-> TRUE]
  /\ Watched
  /\ UNCHANGED <<sessions, delivered, running, changes>>

AlembicUpgrade(i) ==
  i \notin applied /\ Revise(i, "upgrade", Upgrade(delivered[i].model))

AlembicDowngrade(i) ==
  i \in applied /\ Revise(i, "downgrade", Downgrade(delivered[i].model))

(* Somebody else changes the database. *)
Other(s) ==
  /\ changes < MaxChanges /\ Runs(s, db)
  /\ changes' = changes + 1
  /\ db' = Effect(s, db)
  /\ running' = [running EXCEPT !.alone = running.phase = "idle"]
  /\ Watched
  /\ UNCHANGED <<sessions, delivered, applied, result>>

-----------------------------------------------------------------------------
Init ==
  /\ db = Before
  /\ reading = NotReading
  /\ sessions = 0
  /\ delivered = <<>>
  /\ applied = {}
  /\ running = NotRunning
  /\ result = [kind |-> "none", of |-> 0, ok |-> TRUE, before |-> Before,
               after |-> Before, alone |-> TRUE]
  /\ changes = 0

(* Every session is over, and there is no script to run. *)
Finished ==
  /\ sessions = MaxSessions /\ reading.phase = "idle" /\ delivered = <<>>
  /\ UNCHANGED vars

Next ==
  \/ Connect
  \/ ListTables
  \/ \E n \in reading.left : ReadPart(n)
  \/ GiveUp
  \/ \E m \in Models : Propose(m)
  \/ \E i \in DOMAIN delivered : StartScript(i)
  \/ Statement
  \/ \E i \in DOMAIN delivered : AlembicUpgrade(i)
  \/ \E i \in DOMAIN delivered : AlembicDowngrade(i)
  \/ \E s \in Others : Other(s)
  \/ Finished

Spec == Init /\ [][Next]_vars

-----------------------------------------------------------------------------
(* Properties.                                                             *)

(* Type invariant: the introspection and the customer's script are where   *)
(* their code can be, and an unfinished table is the one being read.       *)
TypeOK ==
  /\ reading.phase \in {"idle", "listing", "reading", "read", "failed"}
  /\ reading.part \in DOMAIN Parts
  /\ reading.part > 1 => reading.table \in reading.left
  /\ reading.phase = "reading" => reading.left # {}
  /\ applied \subseteq DOMAIN delivered
  /\ running.phase = "script" =>
       /\ running.of \in DOMAIN delivered
       /\ running.at \in 1..Len(Plan(delivered[running.of].model))

(* What the modeling agent is told to answer: the parts fit together, and  *)
(* every name is given once.                                               *)
Names(m) ==
  {m.tables[i].name : i \in DOMAIN m.tables} \cup
  UNION {{x.name : x \in ToSet(m.tables[i].indexes)} : i \in DOMAIN m.tables}

WellFormed(m) ==
  LET Named(n) == {t \in ToSet(m.tables) : t.name = n}
      points(r) ==
        /\ Len(r.source_columns) = Len(r.target_columns)
        /\ \E t \in Named(r.source_table) : ToSet(r.source_columns) \subseteq t.columns
        /\ \E t \in Named(r.target_table) :
             \/ ToSet(r.target_columns) = PrimaryKey(t)
             \/ \E c \in t.unique : ToSet(r.target_columns) = {c}
             \/ \E x \in ToSet(t.indexes) :
                  x.unique /\ x.columns = ToSet(r.target_columns)
      relations == [i \in DOMAIN m.tables |->
        <<m.tables[i].name>> \o
        [k \in DOMAIN m.tables[i].indexes |-> m.tables[i].indexes[k].name]]
  IN /\ ~Raises(m)
     /\ IsInjective(FlattenSeq(relations))
     /\ \A t \in ToSet(m.tables) :
          /\ PrimaryKey(t) \subseteq t.columns
          /\ \A x \in ToSet(t.indexes) : x.columns \subseteq t.columns
     /\ \A r \in ToSet(m.relationships) : points(r)
     /\ IsInjective([k \in DOMAIN m.relationships |->
          <<m.relationships[k].source_table, m.relationships[k].name>>])

(* The catalog with a model in it, whatever the order it was made in. *)
With(m, d) ==
  [tables |-> d.tables \cup
     {[name |-> t.name, columns |-> t.columns, key |-> PrimaryKey(t),
       required |-> t.required \cup PrimaryKey(t),
       unique |-> {{c} : c \in t.unique}] : t \in ToSet(m.tables)},
   indexes |-> d.indexes \cup UNION
     {{[name |-> x.name, table |-> t.name, columns |-> x.columns,
        is_unique |-> x.unique] : x \in ToSet(t.indexes)} : t \in ToSet(m.tables)},
   foreign_keys |-> d.foreign_keys \cup
     {[name |-> r.name, table |-> r.source_table, columns |-> r.source_columns,
       references |-> r.target_table, keys |-> r.target_columns]
        : r \in ToSet(m.relationships)}]

(* The plan puts its statements in an order that PostgreSQL can execute:   *)
(* run by itself where its names are free, the script of a model whose     *)
(* parts fit together never fails, also with tables that refer to each     *)
(* other, and builds that model and nothing else.                          *)
ScriptBuildsTheModel ==
  result.kind \in {"script", "upgrade"} /\ result.alone =>
    LET m == delivered[result.of].model IN
    WellFormed(m) /\ Names(m) \cap Relations(result.before) = {} =>
      result.ok /\ result.after = With(m, result.before)

(* A downgrade right after its upgrade succeeds and leaves the catalog     *)
(* exactly as the upgrade found it, also when the model's foreign keys     *)
(* reach tables of the customer.                                           *)
DowngradeRestores ==
  [][ /\ result'.kind = "downgrade" /\ result.kind = "upgrade" /\ result.ok
      /\ result'.of = result.of /\ result.after = db
      => result'.ok /\ db' = result.before ]_vars

(* An introspection takes many reads, and the database changes meanwhile.  *)
(* It fails only if something was dropped, and if nothing was, its schema  *)
(* is bounded by two real ones: it misses nothing that was there when the  *)
(* reading began and holds nothing that is not there when it ends.         *)
SchemaInTime ==
  ~reading.lost =>
    /\ reading.phase # "failed"
    /\ reading.phase = "read" =>
         Within(reading.since, reading.seen) /\ Within(reading.seen, Schema(db))

(* Generator, database and introspector together: a session that reads the *)
(* schema after a script was run is told of each of its tables what the    *)
(* diagram's prompt said of it for the reviewer who approved it, if the    *)
(* agent's two notations of the primary key agree; otherwise, the list.    *)
(* Nobody may have replaced a table while the script ran.                  *)
ShownAsBuilt ==
  /\ reading.phase = "read" /\ ~reading.lost
  /\ reading.since = Schema(db)
  /\ result.kind \in {"script", "upgrade"} /\ result.alone
  /\ result.ok /\ result.after = db
  => \A t \in ToSet(delivered[result.of].model.tables) :
       LET told == CompactTags(reading.seen, t.name)
           key == PrimaryKey(t)
       IN IF t.flagged = key /\ key \subseteq t.required
          THEN told = DiagramTags(t)
          ELSE {c.column : c \in {d \in told : d.pk}} = key

(* README.md:162 and :149: migration.sql is the script with the changes.   *)
(* A model lists the existing tables that it changes or refers to, and the *)
(* generator creates every table it lists: the script for a schema fails   *)
(* on that very schema.                                                    *)
ScriptHasTheChanges ==
  /\ result.kind = "script" /\ result.alone
  /\ WellFormed(delivered[result.of].model)
  /\ delivered[result.of].schema = Schema(result.before)
  => result.ok
=============================================================================
