--------------------------- MODULE PostgresCatalog ---------------------------
(***************************************************************************)
(* PostgreSQL, as far as the generated statements need it: a catalog of    *)
(* tables, indexes and foreign keys, when a statement fails, and what it   *)
(* changes.  Tables and indexes share one namespace.                       *)
(***************************************************************************)
EXTENDS Naturals, SequencesExt

Creates == {"create_table", "create_index", "add_foreign_key"}

Drops == {"drop_constraint", "drop_table"}

EmptyCatalog == [tables |-> {}, indexes |-> {}, foreign_keys |-> {}]

TableNames(db) == {t.name : t \in db.tables}

Relations(db) == TableNames(db) \cup {x.name : x \in db.indexes}

(* There is no index and no foreign key without its tables. *)
IsCatalog(db) ==
  /\ db = [tables |-> db.tables, indexes |-> db.indexes,
           foreign_keys |-> db.foreign_keys]
  /\ \A x \in db.indexes : x.table \in TableNames(db)
  /\ \A f \in db.foreign_keys : {f.table, f.references} \subseteq TableNames(db)

(* A foreign key may point to a primary key, to the columns of a UNIQUE    *)
(* constraint and to those of a unique index.                              *)
IsKey(columns, t, db) ==
  \/ columns = t.key
  \/ columns \in t.unique
  \/ \E x \in db.indexes :
       x.table = t.name /\ x.is_unique /\ x.columns = columns

(* Whether a statement succeeds. *)
Runs(s, db) ==
  CASE s.operation = "create_table" ->
         s.target \notin Relations(db) /\ s.key \subseteq s.columns
    [] s.operation = "create_index" ->
         /\ s.name \notin Relations(db)
         /\ \E t \in db.tables :
              t.name = s.target /\ s.columns \subseteq t.columns
    [] s.operation = "add_foreign_key" ->
         /\ Len(s.source_columns) = Len(s.target_columns)
         /\ \E t \in db.tables :
              t.name = s.target /\ ToSet(s.source_columns) \subseteq t.columns
         /\ \E t \in db.tables :
              t.name = s.references /\ IsKey(ToSet(s.target_columns), t, db)
         /\ \A f \in db.foreign_keys : <<f.table, f.name>> # <<s.target, s.name>>
    [] s.operation = "drop_constraint" -> s.target \in TableNames(db)
    [] s.operation = "drop_table" ->  \* IF EXISTS, but not an index
         \A x \in db.indexes : x.name # s.target

(* What a statement that succeeds makes of the catalog.  The columns of a  *)
(* primary key become NOT NULL; DROP TABLE CASCADE takes the indexes of    *)
(* the table and every foreign key from it and to it along.                *)
Effect(s, db) ==
  CASE s.operation = "create_table" ->
         [db EXCEPT !.tables = @ \cup
           {[name |-> s.target, columns |-> s.columns, key |-> s.key,
             required |-> s.required \cup s.key, unique |-> s.unique]}]
    [] s.operation = "create_index" ->
         [db EXCEPT !.indexes = @ \cup
           {[name |-> s.name, table |-> s.target, columns |-> s.columns,
             is_unique |-> s.is_unique]}]
    [] s.operation = "add_foreign_key" ->
         [db EXCEPT !.foreign_keys = @ \cup
           {[name |-> s.name, table |-> s.target, references |-> s.references,
             columns |-> s.source_columns, keys |-> s.target_columns]}]
    [] s.operation = "drop_constraint" ->
         [db EXCEPT !.foreign_keys =
           {f \in @ : <<f.table, f.name>> # <<s.target, s.name>>}]
    [] s.operation = "drop_table" ->
         [tables |-> {t \in db.tables : t.name # s.target},
          indexes |-> {x \in db.indexes : x.table # s.target},
          foreign_keys |-> {f \in db.foreign_keys :
                              s.target \notin {f.table, f.references}}]

(* A transaction: all of the statements, or none.  Its state after the     *)
(* first k of them.                                                        *)
Transaction(statements, db) ==
  LET after[k \in 0..Len(statements)] ==
        IF k = 0 THEN [ok |-> TRUE, db |-> db]
        ELSE LET before == after[k - 1]
                 s == statements[k]
             IN IF before.ok /\ Runs(s, before.db)
                THEN [ok |-> TRUE, db |-> Effect(s, before.db)]
                ELSE [ok |-> FALSE, db |-> db]
  IN after[Len(statements)]
=============================================================================
