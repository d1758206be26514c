-------------------------- MODULE MCCustomerDatabase --------------------------
(* Models with every feature that the order of the statements depends on,  *)
(* over a database that has one table already.                             *)
EXTENDS CustomerDatabase

Table(name, columns, flagged, listed, unique, indexes) ==
  [name |-> name, columns |-> columns, flagged |-> flagged,
   primary_key |-> listed, required |-> {"id"}, unique |-> unique,
   indexes |-> indexes]

Users == Table("users", {"id", "email"}, {"id"}, {"id"}, {},
  <<[name |-> "ix_email", columns |-> {"email"}, unique |-> TRUE]>>)

(* Only flagged. *)
Orders == Table("orders", {"id", "user"}, {"id"}, {}, {"user"}, <<>>)

(* Flagged and listed differently. *)
Codes == Table("codes", {"id", "code"}, {"id"}, {"code"}, {}, <<>>)

Audit == Table("audit", {"id"}, {"id"}, {"id"}, {}, <<>>)

Reference(name, source, column, target, key) ==
  [name |-> name, source_table |-> source, source_columns |-> <<column>>,
   target_table |-> target, target_columns |-> <<key>>]

(* Child first, to a unique index, and back. *)
Cycle ==
  [tables |-> <<Orders, Users>>,
   relationships |-> <<Reference("fk_user", "orders", "user", "users", "email"),
                       Reference("fk_last", "users", "id", "orders", "user")>>]

(* A foreign key to a table that the model does not list. *)
Open ==
  [tables |-> <<Codes>>,
   relationships |-> <<Reference("fk_audit", "codes", "id", "audit", "id")>>]

(* The existing table listed with the new one, as the prompts ask. *)
Extension ==
  [tables |-> <<Codes, Audit>>, relationships |-> Open.relationships]

Nothing == [tables |-> <<>>, relationships |-> <<>>]

Catalog == Effect(CreateTable(Audit), EmptyCatalog)

(* Another table, in the way of a model or not, a key, and the loss of one *)
(* table or the other.                                                     *)
Changes ==
  {CreateTable(Users), DropTable(Audit), DropTable(Orders),
   [operation |-> "create_table", target |-> "notes", columns |-> {"a", "b"},
    required |-> {}, unique |-> {{"a", "b"}}, key |-> {}],
   AddForeignKey(Reference("fk_note", "notes", "a", "orders", "id"))}

AllModels == {Cycle, Open, Extension, Nothing}

Extensions == {Extension}

NoChanges == {}
=============================================================================
