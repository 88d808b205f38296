-------------------------------- MODULE Crud --------------------------------
(***************************************************************************)
(* src/src/client/crud/index.ts: the operations of the CRUD layer.  Each   *)
(* validates, stamps, builds one statement and has it executed; find() and *)
(* findOne() go on with one or two statements for each relation they       *)
(* populate, and other calls come between them.                            *)
(*                                                                         *)
(* The database is a set of rows for each table, with its primary key.     *)
(* Sorting, the selected columns and the JSON columns are left out.        *)
(***************************************************************************)
EXTENDS CrudFilter, TLC

CONSTANTS
  Programs,   \* the rows a database starts with, and the calls made of it
  MaxCalls    \* bound: how many calls are made

VARIABLES
  program,    \* one of Programs
  rows,       \* the database
  now,        \* the clock: how many calls have been made
  last,       \* the last call that ended: what it was, did it succeed, its rows
  reading,    \* the find() that is populating, or Idle
  seen        \* history: for each relation populated, the rows it was made from

vars == <<program, rows, now, last, reading, seen>>

Idle == [table |-> "none", validate |-> TRUE, found |-> {}, todo |-> <<>>,
         relations |-> <<>>, pairs |-> {}]
NoCall == [op |-> "none", table |-> "none"]

Tuple(row, fields) == [i \in DOMAIN fields |-> row[fields[i]]]
KeyOf(t, row) == Tuple(row, Keys(t))
UniqueKeys(t, S) ==
  /\ \A r, q \in S : KeyOf(t, r) = KeyOf(t, q) => r = q
  /\ \A r \in S : Null \notin ToSet(KeyOf(t, r))

CrudInit ==
  /\ program \in Programs
  /\ rows = program.rows /\ now = 0
  /\ last = [call |-> NoCall, ok |-> TRUE, rows |-> {}]
  /\ reading = Idle /\ seen = <<>>
-----------------------------------------------------------------------------
(***************************************************************************)
(* Preparing the data of a call.                                           *)
(***************************************************************************)
time == now + 1

created(t) == Schema[t].timestamps[1]
updated(t) == Schema[t].timestamps[2]

\* created_at is the caller's, if it gives one.
applyTimestamps(t, data, mode) ==
  IF Schema[t].timestamps = <<>> THEN data
  ELSE LET given == mode = "update" \/ (created(t) \in DOMAIN data /\ data[created(t)] # Null)
       IN (updated(t) :> time) @@ (IF given THEN data ELSE (created(t) :> time) @@ data)

applyInsertDefaults(t, data) == data @@ Schema[t].defaults

Writable(t, data) == DOMAIN data \subseteq writableColumns(t)

\* INSERT: a column that is not given is NULL.
Row(t, data) == [c \in Columns(t) |-> IF c \in DOMAIN data THEN data[c] ELSE Null]
-----------------------------------------------------------------------------
(***************************************************************************)
(* Calls.  What the statement returned is validated after it was executed. *)
(***************************************************************************)
Ends(c, ok, result) ==
  /\ last' = [call |-> c, ok |-> ok, rows |-> IF ok THEN result ELSE {}]
  /\ now' = time
  /\ UNCHANGED program

Fails(c) == Ends(c, FALSE, {}) /\ UNCHANGED <<rows, reading, seen>>

\* The first row of an unordered result.
First(S) == IF S = {} THEN {{}} ELSE {{r} : r \in S}

applyValidation(t, S, validate) == validate => \A r \in S : validOutput(t, r)

Returns(c, S, results) ==
  \E result \in results : Ends(c, applyValidation(c.table, S, c.validate), result)

Becomes(t, S) == rows' = [rows EXCEPT ![t] = S] /\ UNCHANGED <<reading, seen>>

\* create() and createMany(): every record is validated before one statement inserts
\* them all.
Stamped(c, d) == applyInsertDefaults(c.table, applyTimestamps(c.table, d, "create"))

Prepared(c) == {Row(c.table, Stamped(c, d)) : d \in c.data}

Insertable(c) ==
  /\ c.data # {}
  /\ \A d \in c.data :
       validateInput(c.table, d) /\ Writable(c.table, Stamped(c, d))
  /\ Cardinality({KeyOf(c.table, r) : r \in Prepared(c)}) = Cardinality(c.data)
  /\ UniqueKeys(c.table, rows[c.table] \cup Prepared(c))
  /\ \A r \in Prepared(c), q \in rows[c.table] : KeyOf(c.table, r) # KeyOf(c.table, q)

\* Records are inserted one at a time, up to the first that is refused.
CreateOneByOne(c) ==
  /\ c.op = "create"
  /\ \/ /\ ~Insertable(c)
        /\ \E some \in SUBSET c.data :
             LET b == [c EXCEPT !.data = some] IN
             IF Insertable(b)
             THEN Becomes(c.table, rows[c.table] \cup Prepared(b)) /\ Ends(c, FALSE, {})
             ELSE Fails(c)
     \/ /\ Insertable(c)
        /\ Becomes(c.table, rows[c.table] \cup Prepared(c))
        /\ Returns(c, Prepared(c), {Prepared(c)})

Create(c) ==
  /\ c.op = "create"
  /\ \/ ~Insertable(c) /\ Fails(c)
     \/ /\ Insertable(c)
        /\ Becomes(c.table, rows[c.table] \cup Prepared(c))
        /\ Returns(c, Prepared(c), {Prepared(c)})

\* A statement with the filter of c: its numbered parameters come after those before.
Statement(c, before) ==
  [compileFilter(c.filter, Len(before)) EXCEPT !.params = before \o @]

ExecutesOn(c, where, Then(_)) ==
  IF Accepted(where.text, where.params)
  THEN Then({r \in rows[c.table] : Holds(where.text, where.params, r) = "true"})
  ELSE Fails(c)

Executes(c, before, Then(_)) ==
  IF Compiles(Columns(c.table), c.filter)
  THEN ExecutesOn(c, Statement(c, before), Then)
  ELSE Fails(c)

\* update() and updateMany(); the former returns the first row of those it changed.
UpdateRows(c, set, old) ==
  LET t     == c.table
      new   == {set @@ r : r \in old}
      after == (rows[t] \ old) \cup new
  IN IF UniqueKeys(t, after) /\ Cardinality(after) = Cardinality(rows[t])
     THEN Becomes(t, after) /\ Returns(c, new, IF c.many THEN {new} ELSE First(new))
     ELSE Fails(c)

Update(c) ==
  /\ c.op = "update"
  /\ LET set     == applyTimestamps(c.table, c.data, "update")
         columns == SetToSeq(DOMAIN set)
         Then(old) == UpdateRows(c, set, old)
     IN IF validateInput(c.table, c.data) /\ DOMAIN set # {} /\ Writable(c.table, set)
        THEN Executes(c, [i \in DOMAIN columns |-> set[columns[i]]], Then)
        ELSE Fails(c)

\* The key of the row: from the data, or from the filter when it says what each key
\* column equals.
extractKeyValues(t, filter) ==
  LET Equal(e)  == Pick(e.clauses, LAMBDA cl : cl.op = "$eq")
      Equals(k) == Pick(filter, LAMBDA e : e.key = k /\ Equal(e) # <<>>)
      ArgOf(e)  == Head(Equal(e)).arg
  IN IF \A k \in ToSet(Keys(t)) : Equals(k) # <<>>
     THEN [k \in ToSet(Keys(t)) |-> ArgOf(Head(Equals(k)))] ELSE <<>>

\* What is assigned when the row is there: all that was provided, and the defaults
\* and created_at are in the data by then.
Assigned(c, data) == DOMAIN data \ ToSet(Keys(c.table))

Upsert(c) ==
  LET t      == c.table
      data   == applyInsertDefaults(t, applyTimestamps(t, c.data, "upsert"))
      full   == data @@ extractKeyValues(t, c.filter)
      legal  == /\ validateInput(t, c.data) /\ Writable(t, data)
                /\ ToSet(Keys(t)) \subseteq DOMAIN full
      row    == Row(t, full)
      old    == {r \in rows[t] : KeyOf(t, r) = KeyOf(t, row)}
      set    == [p \in Assigned(c, data) |-> data[p]]
      new    == IF old = {} THEN {row} ELSE {set @@ r : r \in old}
  IN
  /\ c.op = "upsert"
  /\ \/ ~(legal /\ Null \notin ToSet(KeyOf(t, row))) /\ Fails(c)
     \/ /\ legal /\ Null \notin ToSet(KeyOf(t, row))
        /\ Becomes(t, (rows[t] \ old) \cup new)
        /\ IF old # {} /\ Assigned(c, data) = {} THEN Returns(c, {}, {{}})  \* DO NOTHING
           ELSE Returns(c, new, First(new))

\* remove() and removeMany(), which asks for no rows back.
DeleteRows(c, old) ==
  /\ Becomes(c.table, rows[c.table] \ old)
  /\ IF c.many THEN Ends(c, TRUE, {}) ELSE Returns(c, old, First(old))

Delete(c) ==
  /\ c.op = "remove"
  /\ LET Then(old) == DeleteRows(c, old) IN Executes(c, <<>>, Then)

\* find(), and findOne(), whose statement has LIMIT 1.
FindRows(c, all) ==
  \E found \in IF c.many THEN {all} ELSE First(all) :
    /\ Ends(c, applyValidation(c.table, found, c.validate), found)
    /\ IF c.populate # <<>> /\ found # {} /\ last'.ok
       THEN /\ reading' = [Idle EXCEPT !.table = c.table, !.validate = c.validate,
                                      !.found = found, !.todo = c.populate]
            /\ seen' = <<>>
       ELSE UNCHANGED <<reading, seen>>
    /\ UNCHANGED rows

Find(c) ==
  /\ c.op = "find" /\ reading = Idle
  /\ LET Then(all) == FindRows(c, all) IN Executes(c, <<>>, Then)

Call == \E c \in program.calls :
  now < MaxCalls /\ (Create(c) \/ Update(c) \/ Upsert(c) \/ Delete(c) \/ Find(c))
-----------------------------------------------------------------------------
(***************************************************************************)
(* Populating the relations of what was found, one after another.          *)
(***************************************************************************)
relation ==
  IF reading = Idle \/ reading.todo = <<>> THEN {}
  ELSE FirstNamed(Relations[reading.table], Head(reading.todo))

collectTuples(S, fields) == {x \in {Tuple(r, fields) : r \in S} : Null \notin ToSet(x)}

\* SELECT * FROM t WHERE (fields) IN (tuples); no statement without tuples.
runTuples(t, fields, tuples) == {r \in rows[t] : Tuple(r, fields) \in tuples}

\* find() rejects.
Rejects == reading' = Idle /\ seen' = <<>>

\* The content of each row's relation, if the rows it is made from validate.
Populates(rel, content, there, made) ==
  IF applyValidation(rel.target, there, reading.validate)
  THEN /\ reading' = [reading EXCEPT !.todo = Tail(@), !.pairs = {},
                                    !.relations = Append(@, content)]
       /\ seen' = made
  ELSE Rejects

Made(rel, target, join) == Append(seen, [relation |-> rel, target |-> target, join |-> join])

\* populateBelongsTo() and populateHasMany(): one statement, matched by tuple.
PopulateDirect(rel) ==
  /\ rel.type \in {"belongsTo", "hasMany"}
  /\ LET there == runTuples(rel.target, rel.fields, collectTuples(reading.found, rel.local))
     IN Populates(rel, [r \in reading.found |->
                          {q \in there : Tuple(q, rel.fields) = Tuple(r, rel.local)}],
                  there, Made(rel, rows[rel.target], {}))

\* populateManyToMany(): the join table first.
PopulateJoin(rel) ==
  /\ rel.type = "manyToMany" /\ reading.pairs = {}
  /\ LET links == runTuples(rel.via, rel.viaLocal, collectTuples(reading.found, rel.local))
     IN IF links = {}
        THEN Populates(rel, [r \in reading.found |-> {}], {}, Made(rel, {}, rows[rel.via]))
        ELSE /\ reading' = [reading EXCEPT !.pairs =
                  {<<Tuple(j, rel.viaLocal), Tuple(j, rel.viaTarget)>> : j \in links}]
             /\ seen' = Made(rel, {}, rows[rel.via])

\* Then the rows it leads to.
PopulateThrough(rel) ==
  /\ rel.type = "manyToMany" /\ reading.pairs # {}
  /\ LET there == runTuples(rel.target, rel.fields, {p[2] : p \in reading.pairs})
     IN Populates(rel, [r \in reading.found |->
                          {q \in there :
                             <<Tuple(r, rel.local), Tuple(q, rel.fields)>> \in reading.pairs}],
                  there, Append(Front(seen), [Last(seen) EXCEPT !.target = rows[rel.target]]))

Populate ==
  /\ \E rel \in relation : PopulateDirect(rel) \/ PopulateJoin(rel) \/ PopulateThrough(rel)
  /\ UNCHANGED <<program, rows, now, last>>

\* The table has no relation of that name.
PopulateUnknown ==
  /\ reading # Idle /\ reading.todo # <<>> /\ relation = {}
  /\ Rejects /\ UNCHANGED <<program, rows, now, last>>

Populated ==
  /\ reading # Idle /\ reading.todo = <<>>
  /\ reading' = Idle /\ seen' = <<>> /\ UNCHANGED <<program, rows, now, last>>

\* No more calls come.
Rest == now = MaxCalls /\ reading = Idle /\ UNCHANGED vars

CrudNext == Call \/ Populate \/ PopulateUnknown \/ Populated \/ Rest

CrudSpec == CrudInit /\ [][CrudNext]_vars
-----------------------------------------------------------------------------
\* What the schema declares: q of x is what r of t refers to.
RefersTo(t, r, x, q) ==
  \A k \in ToSet(Keys(x)) :
    LET p == Last(Referring(t, x, k)) IN r[p] # Null /\ r[p] = q[k]

RelatedTo(t, r, s, q) ==
  LET rel == s.relation IN
  CASE rel.type = "belongsTo" -> RefersTo(t, r, rel.target, q)
    [] rel.type = "hasMany"   -> RefersTo(rel.target, q, t, r)
    [] OTHER ->
         \E j \in s.join : RefersTo(rel.via, j, t, r) /\ RefersTo(rel.via, j, rel.target, q)

(***************************************************************************)
(* A populated relation has the rows the schema relates to each row found, *)
(* all of them and no others, of those that were there when they were      *)
(* read: whatever the order of key columns and references, whatever is     *)
(* NULL, and whatever came between the statements.  (index.ts:487-664,     *)
(* schema.ts:182-234)                                                      *)
(***************************************************************************)
PopulatesExactly ==
  \A i \in DOMAIN reading.relations : \A r \in reading.found :
    reading.relations[i][r] = {q \in seen[i].target : RelatedTo(reading.table, r, seen[i], q)}

\* Without their timestamps.
Bare(t, S) == {[p \in DOMAIN r \ ToSet(Schema[t].timestamps) |-> r[p]] : r \in S}

(***************************************************************************)
(* A call reads, changes or removes the rows its filter means, and no      *)
(* others, though an UPDATE numbers the parameters of its assignments      *)
(* first.  (filter.ts:139-287, index.ts:910-930)                           *)
(***************************************************************************)
TouchesOnlyMatches ==
  [][LET c == last'.call
         t == c.table
         Touches(meant, others) ==
           /\ c.op = "remove" => rows'[t] = others
           /\ c.op = "update" =>
                /\ others \subseteq rows'[t]
                /\ Bare(t, rows'[t]) = Bare(t, others \cup {c.data @@ r : r \in meant})
           /\ c.op = "find" =>
                IF c.many THEN last'.rows = meant
                ELSE last'.rows \subseteq meant /\ (last'.rows = {} => meant = {})
         Meant(S) == Touches(S, rows[t] \ S)
     IN now' # now /\ last'.ok /\ c.op \in {"remove", "update", "find"} =>
          Meant({r \in rows[t] : Matches(c.filter, r)})]_vars

(***************************************************************************)
(* A call that rejects has changed nothing, unless a row it wrote or       *)
(* removed does not validate, which is only looked at once it is done; and *)
(* records are created all of them or none.  (index.ts:860-883,            *)
(* CRUD.md:308 "All-or-nothing transaction (all succeed or all fail)")     *)
(***************************************************************************)
RejectedChangesNothing ==
  [][LET c    == last'.call
         new  == rows'[c.table] \ rows[c.table]
         gone == rows[c.table] \ rows'[c.table]
     IN now' # now =>
        /\ ~last'.ok => rows' = rows \/ \E r \in new \cup gone : ~validOutput(c.table, r)
        /\ c.op = "create" => Cardinality(new) \in {0, Cardinality(c.data)}]_vars
=============================================================================
