---------------------------- MODULE SqlGenerator -----------------------------
(***************************************************************************)
(* What the deterministic generator makes of a relational model: the plan  *)
(* of CREATE statements, which the .sql script and the Alembic upgrade     *)
(* both spell out, and the Alembic downgrade.                              *)
(*                                                                         *)
(* A model is [tables, relationships], both sequences, as the agent        *)
(* answered it: nothing checks that the parts fit together.  A table keeps *)
(* both notations of a primary key, the list primary_key and the columns   *)
(* whose is_primary_key is set, flagged; required are the columns that are *)
(* not nullable, unique the ones whose is_unique is set.  Types, defaults, *)
(* comments and the referential actions have no part in what follows.      *)
(***************************************************************************)
EXTENDS Naturals, SequencesExt

(* The answer's schema: three lists, flags belong to columns, anything     *)
(* else is a name that need not mean anything.                             *)
IsRelationalModel(m) ==
  /\ DOMAIN m = {"tables", "relationships"}
  /\ m.tables \in Seq(ToSet(m.tables))
  /\ m.relationships \in Seq(ToSet(m.relationships))
  /\ \A t \in ToSet(m.tables) :
       /\ t.flagged \cup t.unique \cup t.required \subseteq t.columns
       /\ t.indexes \in Seq(ToSet(t.indexes))

(* SqlGenerationError *)
Raises(m) ==
  \/ m.tables = <<>>
  \/ \E i \in DOMAIN m.tables : m.tables[i].columns = {}

(* The list wins, if it has any columns. *)
PrimaryKey(t) == IF t.primary_key # {} THEN t.primary_key ELSE t.flagged

CreateTable(t) ==
  [operation |-> "create_table", target |-> t.name,
   columns |-> t.columns, required |-> t.required,
   unique |-> {{c} : c \in t.unique}, key |-> PrimaryKey(t)]

CreateIndexes(t) ==
  [i \in DOMAIN t.indexes |->
    [operation |-> "create_index", target |-> t.name,
     name |-> t.indexes[i].name, columns |-> t.indexes[i].columns,
     is_unique |-> t.indexes[i].unique]]

AddForeignKey(r) ==
  [operation |-> "add_foreign_key", target |-> r.source_table,
   name |-> r.name, source_columns |-> r.source_columns,
   references |-> r.target_table, target_columns |-> r.target_columns]

(* Mutant: each table with its foreign keys, in one go.                    *)
PlanTableByTable(m) ==
  FlattenSeq([i \in DOMAIN m.tables |->
    LET t == m.tables[i]
        ForeignKeyOf(r) == r.source_table = t.name
        own == SelectSeq(m.relationships, ForeignKeyOf)
    IN <<CreateTable(t)>> \o CreateIndexes(t)
       \o [k \in DOMAIN own |-> AddForeignKey(own[k])]])

(* The steps, in the order of MigrationStep.order: each table with its     *)
(* indexes, then every foreign key.                                        *)
Plan(m) ==
  FlattenSeq([i \in DOMAIN m.tables |->
    <<CreateTable(m.tables[i])>> \o CreateIndexes(m.tables[i])])
  \o [k \in DOMAIN m.relationships |-> AddForeignKey(m.relationships[k])]

(* upgrade() of the Alembic revision repeats the loops of generate(). *)
Upgrade(m) == Plan(m)

DropConstraint(r) ==
  [operation |-> "drop_constraint", target |-> r.source_table, name |-> r.name]

DropTable(t) == [operation |-> "drop_table", target |-> t.name]

(* Mutant: the tables go first.                                            *)
DowngradeTablesFirst(m) ==
  LET back == Reverse(m.relationships)
      tables == Reverse(m.tables)
  IN [i \in DOMAIN tables |-> DropTable(tables[i])]
     \o [k \in DOMAIN back |-> DropConstraint(back[k])]

(* downgrade(): the foreign keys, then the tables, last made first gone. *)
Downgrade(m) ==
  LET back == Reverse(m.relationships)
      tables == Reverse(m.tables)
  IN [k \in DOMAIN back |-> DropConstraint(back[k])]
     \o [i \in DOMAIN tables |-> DropTable(tables[i])]

(* What the prompt of the diagram agent says of each column of a table:    *)
(* PK, UNIQUE, NOT NULL.                                                   *)
DiagramTags(t) ==
  {[column |-> c, pk |-> c \in t.flagged, unique |-> c \in t.unique,
    not_null |-> c \in t.required] : c \in t.columns}
=============================================================================
