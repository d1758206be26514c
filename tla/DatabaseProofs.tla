---------------------------- MODULE DatabaseProofs ----------------------------
(***************************************************************************)
(* An introspection is bounded by two real schemas, for any models, any    *)
(* catalog and any statements of others.                                   *)
(***************************************************************************)
EXTENDS CustomerDatabase, TLAPS

(* The parts of a schema.                                                  *)
Sections == PartNames \cup {"tables"}

ReadingShape ==
  /\ DOMAIN reading = {"phase", "left", "table", "part", "seen", "since", "lost"}
  /\ reading.phase \in {"idle", "listing", "reading", "read", "failed"}
  /\ reading.part \in DOMAIN Parts
  /\ reading.phase = "listing" => reading.part = 1
  /\ DOMAIN reading.seen = Sections /\ DOMAIN reading.since = Sections
  /\ reading.lost \in BOOLEAN

(* A fact that was there at first is in the schema, or its table is one of *)
(* those that are left and has not been asked for it.                      *)
Complete ==
  /\ reading.since["tables"] \subseteq reading.seen["tables"]
  /\ \A p \in DOMAIN Parts : \A f \in reading.since[Parts[p]] :
       \/ f \in reading.seen[Parts[p]]
       \/ f[1] \in reading.left /\ ~(p < reading.part /\ f[1] = reading.table)

(* Unless something was lost, what was there at first is still there, and  *)
(* so is everything that has been read.                                    *)
ReadingInv ==
  /\ ReadingShape
  /\ reading.phase # "idle" /\ ~reading.lost =>
       /\ reading.phase # "failed"
       /\ Within(reading.since, Schema(db))
       /\ Within(reading.seen, Schema(db))
       /\ reading.phase = "reading" => reading.left \subseteq reading.seen["tables"]
       /\ reading.phase \in {"reading", "read"} => Complete
       /\ reading.phase = "read" => reading.left = {}

-----------------------------------------------------------------------------
(* Schemas.                                                                *)

LEMMA PartsAre ==
  /\ DOMAIN Parts = 1..5 /\ Len(Parts) = 5
  /\ PartNames = {"columns", "keys", "foreign_keys", "indexes", "unique"}
  /\ \A p \in 1..5 : Parts[p] \in PartNames /\ Parts[p] # "tables"
  /\ \A p, q \in 1..5 : Parts[p] = Parts[q] => p = q
<1>1. DOMAIN Parts = 1..5 /\ Len(Parts) = 5
  BY DEF Parts
<1>2. /\ Parts[1] = "columns" /\ Parts[2] = "keys" /\ Parts[3] = "foreign_keys"
      /\ Parts[4] = "indexes" /\ Parts[5] = "unique"
  BY DEF Parts
<1>3. \A p \in 1..5 : p = 1 \/ p = 2 \/ p = 3 \/ p = 4 \/ p = 5
  OBVIOUS
<1>4. PartNames = {"columns", "keys", "foreign_keys", "indexes", "unique"}
  BY <1>1, <1>2, <1>3 DEF PartNames
<1>5. QED
  BY <1>1, <1>2, <1>3, <1>4

(* A fact begins with the name of its table.                               *)
LEMMA FactsNameTheirTable ==
  ASSUME NEW part \in PartNames, NEW t, NEW d, NEW f \in Facts(part, t, d)
  PROVE  f[1] = t.name
<1>1. CASE part = "columns"
  BY <1>1 DEF Facts
<1>2. CASE part = "keys"
  BY <1>2 DEF Facts
<1>3. CASE part = "foreign_keys"
  BY <1>3 DEF Facts
<1>4. CASE part = "indexes"
  <2>1. Facts("indexes", t, d) =
          {<<t.name, x.columns, x.is_unique>> :
             x \in {y \in d.indexes : y.table = t.name}}
          \cup {<<t.name, u, TRUE>> : u \in t.unique}
    BY DEF Facts
  <2>2. \/ \E x \in d.indexes : f = <<t.name, x.columns, x.is_unique>>
        \/ \E u \in t.unique : f = <<t.name, u, TRUE>>
    BY <1>4, <2>1
  <2>3. ASSUME NEW x, f = <<t.name, x.columns, x.is_unique>> PROVE f[1] = t.name
    BY <2>3
  <2>4. ASSUME NEW u, f = <<t.name, u, TRUE>> PROVE f[1] = t.name
    BY <2>4
  <2>5. QED
    BY <2>2, <2>3, <2>4
<1>5. CASE part = "unique"
  <2>1. Facts("unique", t, d) =
          {<<t.name, c>> : c \in {k \in t.columns : {k} \in t.unique}}
    BY DEF Facts
  <2>2. PICK c \in t.columns : f = <<t.name, c>>
    BY <1>5, <2>1
  <2>3. QED
    BY <2>2
<1>6. QED
  BY <1>1, <1>2, <1>3, <1>4, <1>5, PartsAre

LEMMA SchemaParts ==
  ASSUME NEW d
  PROVE  /\ DOMAIN Schema(d) = Sections
         /\ Schema(d)["tables"] = TableNames(d)
         /\ \A part \in PartNames :
              Schema(d)[part] = UNION {Facts(part, t, d) : t \in d.tables}
BY PartsAre DEF Schema, Sections

LEMMA FactsHaveTables ==
  ASSUME NEW d, NEW part \in PartNames, NEW f \in Schema(d)[part]
  PROVE  f[1] \in TableNames(d) /\ f \in Told(part, f[1], d)
<1>1. PICK t \in d.tables : f \in Facts(part, t, d)
  BY SchemaParts
<1>2. f[1] = t.name
  BY <1>1, FactsNameTheirTable
<1>3. QED
  BY <1>1, <1>2 DEF TableNames, Told

LEMMA ToldIsInSchema ==
  ASSUME NEW d, NEW part \in PartNames, NEW n
  PROVE  Told(part, n, d) \subseteq Schema(d)[part]
BY SchemaParts DEF Told

LEMMA EmptySchema ==
  /\ DOMAIN Schema(EmptyCatalog) = Sections
  /\ \A part \in Sections : Schema(EmptyCatalog)[part] = {}
BY SchemaParts DEF EmptyCatalog, TableNames, Sections

-----------------------------------------------------------------------------
(* The introspector's steps.                                               *)

LEMMA NotReadingInv ==
  ASSUME reading' = NotReading
  PROVE  ReadingInv'
BY EmptySchema, PartsAre DEF ReadingInv, ReadingShape, NotReading

LEMMA ReadingInit == Init => ReadingInv
BY EmptySchema, PartsAre DEF Init, ReadingInv, ReadingShape, NotReading

LEMMA ConnectKeeps ==
  ASSUME Connect
  PROVE  ReadingInv'
<1>1. /\ reading' = [NotReading EXCEPT !.phase = "listing", !.since = Schema(db)]
      /\ db' = db
  BY DEF Connect
<1>2. /\ DOMAIN reading' = {"phase", "left", "table", "part", "seen", "since", "lost"}
      /\ reading'.phase = "listing" /\ reading'.part = 1
      /\ reading'.seen = Schema(EmptyCatalog) /\ reading'.since = Schema(db)
      /\ reading'.lost = FALSE
  BY <1>1 DEF NotReading
<1>3. ReadingShape'
  <2>1. DOMAIN Schema(EmptyCatalog) = Sections
    BY EmptySchema
  <2>2. DOMAIN Schema(db) = Sections
    BY SchemaParts
  <2>3. 1 \in DOMAIN Parts
    BY PartsAre
  <2>4. QED
    BY <1>2, <2>1, <2>2, <2>3 DEF ReadingShape
<1>4. Within(reading.since, Schema(db))' /\ Within(reading.seen, Schema(db))'
  BY <1>1, <1>2, EmptySchema DEF Within
<1>5. QED
  BY <1>2, <1>3, <1>4 DEF ReadingInv

LEMMA ListTablesKeeps ==
  ASSUME ReadingInv, ListTables
  PROVE  ReadingInv'
<1>1. PICK phase \in {"read", "reading"} :
        /\ reading' = [reading EXCEPT !.phase = phase, !.left = TableNames(db),
                                      !.seen["tables"] = TableNames(db)]
        /\ phase = "read" => db.tables = {}
  BY DEF ListTables
<1>2. reading.phase = "listing" /\ db' = db
  BY DEF ListTables
<1>3. /\ DOMAIN reading' = DOMAIN reading
      /\ reading'.phase = phase /\ reading'.part = 1
      /\ reading'.left = TableNames(db) /\ reading'.since = reading.since
      /\ reading'.lost = reading.lost
      /\ reading'.seen = [reading.seen EXCEPT !["tables"] = TableNames(db)]
  BY <1>1, <1>2 DEF ReadingInv, ReadingShape
<1>4. /\ DOMAIN reading'.seen = Sections
      /\ reading'.seen["tables"] = TableNames(db)
      /\ \A part \in PartNames : reading'.seen[part] = reading.seen[part]
  BY <1>3, PartsAre DEF ReadingInv, ReadingShape, Sections
<1>5. ReadingShape'
  BY <1>1, <1>3, <1>4, PartsAre DEF ReadingInv, ReadingShape
<1>6. SUFFICES ASSUME ~reading.lost
               PROVE  /\ Within(reading.since, Schema(db))'
                      /\ Within(reading.seen, Schema(db))'
                      /\ Complete'
  BY <1>1, <1>3, <1>4, <1>5 DEF ReadingInv, TableNames
<1>7. Within(reading.since, Schema(db)) /\ Within(reading.seen, Schema(db))
  BY <1>2, <1>6 DEF ReadingInv
<1>8. Within(reading.seen, Schema(db))'
  BY <1>2, <1>4, <1>7, SchemaParts DEF Within, Sections, ReadingInv, ReadingShape
<1>9. Complete'
  <2>1. reading.since["tables"] \subseteq TableNames(db)
    BY <1>7, SchemaParts DEF Within, Sections, ReadingInv, ReadingShape
  <2>2. ASSUME NEW p \in DOMAIN Parts, NEW f \in reading.since[Parts[p]]
        PROVE  f[1] \in TableNames(db) /\ ~(p < 1)
    <3>1. Parts[p] \in PartNames /\ p \in 1..5
      BY PartsAre
    <3>2. f \in Schema(db)[Parts[p]]
      BY <1>7, <3>1 DEF Within, Sections, ReadingInv, ReadingShape
    <3>3. QED
      BY <3>1, <3>2, FactsHaveTables
  <2>3. QED
    BY <1>3, <1>4, <2>1, <2>2 DEF Complete
<1>10. QED
  BY <1>2, <1>3, <1>7, <1>8, <1>9

LEMMA ReadPartKeeps ==
  ASSUME ReadingInv, NEW n, ReadPart(n)
  PROVE  ReadingInv'
<1> DEFINE p == reading.part
           part == Parts[p]
           over == p = Len(Parts)
           left == IF over THEN reading.left \ {n} ELSE reading.left
<1>1. /\ reading.phase = "reading" /\ n \in reading.left
      /\ p > 1 => n = reading.table
      /\ db' = db
  BY DEF ReadPart
<1>2. p \in 1..5 /\ part \in PartNames /\ part \in Sections
  BY PartsAre DEF ReadingInv, ReadingShape, Sections
<1>3. CASE n \notin TableNames(db)
  <2>1. reading' = [reading EXCEPT !.phase = "failed"]
    BY <1>3 DEF ReadPart
  <2>2. reading.lost
    <3>1. SUFFICES ASSUME ~reading.lost PROVE FALSE
      BY DEF ReadingInv, ReadingShape
    <3>2. n \in reading.seen["tables"] /\ Within(reading.seen, Schema(db))
      BY <1>1, <3>1 DEF ReadingInv
    <3>3. n \in Schema(db)["tables"]
      BY <3>2 DEF Within, ReadingInv, ReadingShape, Sections
    <3>4. QED
      BY <1>3, <3>3, SchemaParts
  <2>3. QED
    BY <1>1, <2>1, <2>2 DEF ReadingInv, ReadingShape
<1>4. CASE n \in TableNames(db)
  <2>1. reading' = [reading EXCEPT
          !.seen[part] = @ \cup Told(part, n, db),
          !.left = left,
          !.phase = IF left = {} THEN "read" ELSE "reading",
          !.table = IF over THEN None ELSE n,
          !.part = IF over THEN 1 ELSE @ + 1]
    BY <1>4 DEF ReadPart
  <2>2. /\ DOMAIN reading' = DOMAIN reading
        /\ reading'.left = left
        /\ reading'.phase = IF left = {} THEN "read" ELSE "reading"
        /\ reading'.table = IF over THEN None ELSE n
        /\ reading'.part = IF over THEN 1 ELSE p + 1
        /\ reading'.since = reading.since /\ reading'.lost = reading.lost
        /\ reading'.seen = [reading.seen EXCEPT ![part] = @ \cup Told(part, n, db)]
    BY <2>1 DEF ReadingInv, ReadingShape
  <2>3. /\ DOMAIN reading'.seen = Sections
        /\ reading'.seen[part] = reading.seen[part] \cup Told(part, n, db)
        /\ \A s \in Sections : s # part => reading'.seen[s] = reading.seen[s]
    BY <1>2, <2>2 DEF ReadingInv, ReadingShape
  <2>4. reading'.part \in 1..5
    BY <1>2, <2>2, PartsAre
  <2>5. ReadingShape'
    BY <2>2, <2>3, <2>4, PartsAre DEF ReadingInv, ReadingShape
  <2>6. part # "tables" /\ "tables" \in Sections
    BY <1>2, PartsAre DEF Sections
  <2>7. SUFFICES ASSUME ~reading.lost
                 PROVE  Within(reading.seen, Schema(db))' /\ Complete'
    BY <1>1, <2>2, <2>3, <2>5, <2>6 DEF ReadingInv
  <2>8. /\ Within(reading.since, Schema(db)) /\ Within(reading.seen, Schema(db))
        /\ Complete
    BY <1>1, <2>7 DEF ReadingInv
  <2>9. Within(reading.seen, Schema(db))'
    <3>1. Told(part, n, db) \subseteq Schema(db)[part]
      BY <1>2, ToldIsInSchema
    <3>2. QED
      BY <1>1, <2>3, <2>8, <3>1 DEF Within, ReadingInv, ReadingShape
  <2>10. ASSUME NEW q \in DOMAIN Parts, NEW f \in reading.since[Parts[q]]
         PROVE  \/ f \in reading'.seen[Parts[q]]
                \/ f[1] \in left /\ ~(q < reading'.part /\ f[1] = reading'.table)
    <3>1. q \in 1..5 /\ Parts[q] \in PartNames /\ Parts[q] \in Sections
      BY PartsAre DEF Sections
    <3>2. CASE f \in reading.seen[Parts[q]]
      BY <2>3, <3>1, <3>2
    <3>3. CASE f[1] # n /\ f \notin reading.seen[Parts[q]]
      BY <1>2, <2>2, <2>8, <3>1, <3>3, PartsAre DEF Complete
    <3>4. CASE f[1] = n /\ q = p
      <4>1. f \in Schema(db)[part]
        BY <1>2, <2>8, <3>4 DEF Within, ReadingInv, ReadingShape
      <4>2. f \in Told(part, n, db)
        BY <1>2, <3>4, <4>1, FactsHaveTables
      <4>3. QED
        BY <2>3, <3>4, <4>2
    <3>5. CASE f[1] = n /\ q < p /\ f \notin reading.seen[Parts[q]]
      BY <1>1, <1>2, <2>8, <3>1, <3>5 DEF Complete
    <3>6. CASE f[1] = n /\ p < q
      <4>1. ~over /\ left = reading.left /\ reading'.part = p + 1
        BY <1>2, <2>2, <3>1, <3>6, PartsAre
      <4>2. QED
        BY <1>1, <1>2, <3>1, <3>6, <4>1
    <3>7. QED
      BY <1>2, <3>1, <3>2, <3>3, <3>4, <3>5, <3>6
  <2>11. reading'.since["tables"] \subseteq reading'.seen["tables"]
    BY <2>2, <2>3, <2>6, <2>8 DEF Complete
  <2>12. QED
    BY <2>2, <2>9, <2>10, <2>11 DEF Complete
<1>5. QED
  BY <1>3, <1>4

(* Whatever changes the catalog does so under the eyes of the reading.     *)
LEMMA WatchedKeeps ==
  ASSUME ReadingInv, Watched
  PROVE  ReadingInv'
<1>1. /\ DOMAIN reading' = DOMAIN reading
      /\ \A x \in DOMAIN reading \ {"lost"} : reading'[x] = reading[x]
      /\ reading'.lost =
           (reading.lost \/ (reading.phase # "idle" /\ ~Within(Schema(db), Schema(db'))))
  BY DEF Watched, ReadingInv, ReadingShape
<1>2. /\ reading'.phase = reading.phase /\ reading'.left = reading.left
      /\ reading'.table = reading.table /\ reading'.part = reading.part
      /\ reading'.seen = reading.seen /\ reading'.since = reading.since
  BY <1>1 DEF ReadingInv, ReadingShape
<1>3. ReadingShape'
  BY <1>1, <1>2 DEF ReadingInv, ReadingShape
<1>4. SUFFICES ASSUME reading.phase # "idle", ~reading'.lost
               PROVE  /\ Within(reading.since, Schema(db'))
                      /\ Within(reading.seen, Schema(db'))
                      /\ reading.phase # "failed"
                      /\ reading.phase = "reading" => reading.left \subseteq reading.seen["tables"]
                      /\ reading.phase \in {"reading", "read"} => Complete
                      /\ reading.phase = "read" => reading.left = {}
  BY <1>2, <1>3 DEF ReadingInv, Complete
<1>5. ~reading.lost /\ Within(Schema(db), Schema(db'))
  BY <1>1, <1>4
<1>6. QED
  BY <1>4, <1>5, SchemaParts DEF ReadingInv, ReadingShape, Within

LEMMA ReadingStep == ReadingInv /\ [Next]_vars => ReadingInv'
<1> SUFFICES ASSUME ReadingInv, [Next]_vars PROVE ReadingInv'
  OBVIOUS
<1>1. ASSUME UNCHANGED <<reading, db>> PROVE ReadingInv'
  BY <1>1 DEF ReadingInv, ReadingShape, Complete
<1>2. CASE Connect
  BY <1>2, ConnectKeeps
<1>3. CASE ListTables
  BY <1>3, ListTablesKeeps
<1>4. ASSUME NEW n \in reading.left, ReadPart(n) PROVE ReadingInv'
  BY <1>4, ReadPartKeeps
<1>5. CASE GiveUp \/ \E m \in Models : Propose(m)
  BY <1>5, NotReadingInv DEF GiveUp, Propose
<1>6. CASE (\E i \in DOMAIN delivered : StartScript(i)) \/ Finished \/ UNCHANGED vars
  BY <1>1, <1>6 DEF StartScript, Finished, vars
<1>7. CASE \/ Statement
           \/ \E i \in DOMAIN delivered : AlembicUpgrade(i) \/ AlembicDowngrade(i)
           \/ \E s \in Others : Other(s)
  BY <1>7, WatchedKeeps DEF Statement, AlembicUpgrade, AlembicDowngrade, Revise, Other
<1>8. QED
  BY <1>2, <1>3, <1>4, <1>5, <1>6, <1>7 DEF Next

(* What a reading has seen is complete for what it has asked, and is still *)
(* there unless something was lost.                                        *)
THEOREM ReadingInvariance == Spec => []ReadingInv
BY ReadingInit, ReadingStep, PTL DEF Spec

(* A reading's invariant bounds its schema by the two real ones.           *)
LEMMA ReadingIsInTime == ReadingInv => SchemaInTime
<1> SUFFICES ASSUME ReadingInv, ~reading.lost, reading.phase # "idle"
             PROVE  /\ reading.phase # "failed"
                    /\ reading.phase = "read" =>
                         /\ Within(reading.since, reading.seen)
                         /\ Within(reading.seen, Schema(db))
  BY DEF SchemaInTime
<1>1. SUFFICES ASSUME reading.phase = "read" PROVE Within(reading.since, reading.seen)
  BY DEF ReadingInv
<1>2. Complete /\ reading.left = {}
  BY <1>1 DEF ReadingInv
<1>3. ASSUME NEW s \in PartNames PROVE reading.since[s] \subseteq reading.seen[s]
  <2>1. PICK p \in DOMAIN Parts : s = Parts[p]
    BY DEF PartNames
  <2>2. QED
    BY <1>2, <2>1 DEF Complete
<1>4. QED
  BY <1>2, <1>3 DEF Within, Complete, ReadingInv, ReadingShape, Sections

(* However many reads an introspection takes and whatever is added to the  *)
(* database meanwhile, it does not fail, misses nothing that was there     *)
(* when it began and tells nothing that is not there when it ends.         *)
THEOREM SchemasAreInTime == Spec => []SchemaInTime
BY ReadingIsInTime, ReadingInvariance, PTL
=============================================================================
