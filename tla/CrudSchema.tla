----------------------------- MODULE CrudSchema -----------------------------
(***************************************************************************)
(* src/src/client/crud/schema.ts: what the tables of a schema are to the   *)
(* CRUD layer: their foreign keys, their relations and the names populate  *)
(* knows them by, the columns that may be written, and the values that     *)
(* validation accepts.                                                     *)
(*                                                                         *)
(* A table has key columns and properties, in order.  A property may refer *)
(* to a column of another table, or be a read-only view of a relation; it  *)
(* has a type: a set of values, a reference to another type or a union;    *)
(* what a format or a bound allows is in the set.                          *)
(***************************************************************************)
EXTENDS Integers, FiniteSets, SequencesExt

CONSTANTS
  Tables,   \* the names of the tables, in order
  Schema,   \* their definitions
  Stem,     \* the name of a relation made from the column that refers to it
  Null

Properties(t) == Schema[t].properties          \* a sequence
Keys(t)       == Schema[t].keys                \* a sequence
Views(t)      == DOMAIN Schema[t].view         \* relation properties
Columns(t)    == ToSet(Properties(t)) \ Views(t)
Targets       == ToSet(Tables)

ASSUME SchemaAssumption ==
  \A t \in Targets :
    /\ Keys(t) # <<>> /\ ToSet(Keys(t)) \subseteq Columns(t) \cap Schema[t].required
    /\ DOMAIN Schema[t].ref \subseteq Columns(t)
    /\ \A p \in DOMAIN Schema[t].ref :
         LET r == Schema[t].ref[p] IN r.table \in Targets /\ r.property \in Columns(r.table)
    /\ ToSet(Schema[t].timestamps) \subseteq Columns(t)

Pick(q, Test(_)) == SelectSeq(q, Test)
-----------------------------------------------------------------------------
(***************************************************************************)
(* Foreign keys: one for each table whose whole key is referred to.  When  *)
(* two properties refer to one column the later one stands.                *)
(***************************************************************************)
Refers(t, p, x, f) ==
  p \in DOMAIN Schema[t].ref /\ Schema[t].ref[p] = [table |-> x, property |-> f]

Referring(t, x, f) == Pick(Properties(t), LAMBDA p : Refers(t, p, x, f))

\* The local columns in the order in which the schema has them.
LocalFieldsInOrder(t, x) ==
  Pick(Properties(t), LAMBDA p : \E f \in ToSet(Keys(x)) : Refers(t, p, x, f))

LocalFields(t, x) == [i \in DOMAIN Keys(x) |-> Last(Referring(t, x, Keys(x)[i]))]

\* The tables referred to, in the order of their first reference.
Referred(t) ==
  FoldLeft(LAMBDA acc, p : IF Schema[t].ref[p].table \in ToSet(acc) THEN acc
                           ELSE Append(acc, Schema[t].ref[p].table),
           <<>>, Pick(Properties(t), LAMBDA p : p \in DOMAIN Schema[t].ref))

collectForeignKeys(t) ==
  LET Whole(x) == \A i \in DOMAIN Keys(x) : Referring(t, x, Keys(x)[i]) # <<>>
      whole    == Pick(Referred(t), Whole)
  IN [i \in DOMAIN whole |-> [target |-> whole[i], local |-> LocalFields(t, whole[i])]]

HasForeignKey(t, x) == x \in {fk.target : fk \in ToSet(collectForeignKeys(t))}

deriveRelationName(type, target, local) ==
  IF type = "belongsTo" /\ Len(local) = 1 THEN Stem[local[1]] ELSE target
-----------------------------------------------------------------------------
(***************************************************************************)
(* Relations.  A view that has the mode and the target of a relation gives *)
(* it its name, and to no other: the relations that want an array of x are *)
(* the rows of x that refer to the table, then those reached through each  *)
(* join table.                                                             *)
(***************************************************************************)
extractRelationView(t, mode, x) ==
  Pick(Properties(t),
       LAMBDA p : p \in Views(t) /\ Schema[t].view[p] = [mode |-> mode, target |-> x])

Relation(name, type, local, target, fields) ==
  [name |-> name, type |-> type, local |-> local, target |-> target, fields |-> fields,
   via |-> "none", viaLocal |-> <<>>, viaTarget |-> <<>>]

\* A join table has two foreign keys.
Joins == Pick(Tables, LAMBDA j : Len(collectForeignKeys(j)) = 2)

NameOf(t, mode, x, i, type, local) ==
  LET views == extractRelationView(t, mode, x)
  IN IF i <= Len(views) THEN views[i] ELSE deriveRelationName(type, x, local)

BelongsTo(t) ==
  LET fks == collectForeignKeys(t)
  IN [i \in DOMAIN fks |->
        Relation(NameOf(t, "object", fks[i].target, 1, "belongsTo", fks[i].local),
                 "belongsTo", fks[i].local, fks[i].target, Keys(fks[i].target))]

HasMany(t) ==
  LET others == Pick(Tables, LAMBDA x : x # t /\ HasForeignKey(x, t))
  IN [i \in DOMAIN others |->
        Relation(NameOf(t, "array", others[i], 1, "hasMany", <<>>),
                 "hasMany", Keys(t), others[i], LocalFields(others[i], t))]

\* The views left over from the rows of x that refer to t go to its join tables in order.
ManyToMany(t) ==
  LET joins     == Pick(Joins, LAMBDA j : HasForeignKey(j, t))
      Beyond(j) == CHOOSE x \in Targets \ {t} : HasForeignKey(j, x)
      Nth(i)    == Cardinality({k \in 1 .. i : Beyond(joins[k]) = Beyond(joins[i])})
                   + (IF HasForeignKey(Beyond(joins[i]), t) THEN 1 ELSE 0)
      Through(i, j, x) ==
        [Relation(NameOf(t, "array", x, Nth(i), "manyToMany", <<>>),
                  "manyToMany", Keys(t), x, Keys(x))
         EXCEPT !.via = j, !.viaLocal = LocalFields(j, t), !.viaTarget = LocalFields(j, x)]
  IN [i \in DOMAIN joins |-> Through(i, joins[i], Beyond(joins[i]))]

attachRelations(t) == BelongsTo(t) \o HasMany(t) \o ManyToMany(t)

Relations == [t \in Targets |-> attachRelations(t)]

\* populateRows() takes the first relation of the name.
FirstNamed(relations, name) ==
  {relations[i] : i \in {i \in DOMAIN relations :
     relations[i].name = name /\ \A j \in 1 .. i - 1 : relations[j].name # name}}
-----------------------------------------------------------------------------
(***************************************************************************)
(* Columns and values.                                                     *)
(***************************************************************************)
writableColumns(t) ==
  ((Columns(t) \ Schema[t].readOnly) \cup ToSet(Keys(t))) \cup ToSet(Schema[t].timestamps)

\* A type: a leaf, the type of the property referred to, a union of types.
RECURSIVE jsonSchemaToZod(_)
jsonSchemaToZod(type) ==
  CASE type.is = "leaf"  -> type.values
    [] type.is = "ref"   -> jsonSchemaToZod(Schema[type.table].types[type.property])
    [] type.is = "union" -> UNION {jsonSchemaToZod(m) : m \in type.of}

PropertyAccepts(t, p, v) == v \in jsonSchemaToZod(Schema[t].types[p])

\* Input is partial and strict.
validateInput(t, data) ==
  \A p \in DOMAIN data : p \in Columns(t) /\ PropertyAccepts(t, p, data[p])

\* A row of the database has every column; a column that is not selected is missing.
validOutput(t, row) ==
  /\ Schema[t].required \subseteq DOMAIN row
  /\ \A p \in DOMAIN row : PropertyAccepts(t, p, row[p])
=============================================================================
