----------------------------- MODULE CrudFilter -----------------------------
(***************************************************************************)
(* src/src/client/crud/filter.ts: filters compiled to the text of a WHERE  *)
(* clause and its parameters, what the server makes of the text, and what  *)
(* a filter means.                                                         *)
(*                                                                         *)
(* A filter is a sequence of entries: a column with its clauses, or $and,  *)
(* $or or $not with the filters below it.  A text is what AND and OR make  *)
(* of it: a disjunction of conjunctions of tests and parenthesized texts.  *)
(* A test names its parameters by their numbers.  Paths into JSON columns  *)
(* are columns of their own here.                                          *)
(***************************************************************************)
EXTENDS CrudSchema

Entry(key, clauses) == [key |-> key, clauses |-> clauses, of |-> <<>>]
Logical(key, of)    == [key |-> key, clauses |-> <<>>, of |-> of]
Clause(op, arg)     == [op |-> op, arg |-> arg]

Logicals  == {"$and", "$or", "$not"}
Operators == {"$eq", "$ne", "$gt", "$gte", "$lt", "$lte", "$in", "$nin", "$exists"}

\* A filter the compiler does not throw at.
RECURSIVE Compiles(_, _)
Compiles(columns, filter) ==
  \A i \in DOMAIN filter :
    LET e == filter[i] IN
    IF e.key \in Logicals
    THEN e.of # <<>> /\ \A j \in DOMAIN e.of : Compiles(columns, e.of[j])
    ELSE /\ e.key \in columns
         /\ \A j \in DOMAIN e.clauses :
              /\ e.clauses[j].op \in Operators
              /\ e.clauses[j].op \in {"$in", "$nin"} => e.clauses[j].arg # <<>>
-----------------------------------------------------------------------------
(***************************************************************************)
(* The compiler.  so is the text and the parameters up to here; offset is  *)
(* the number of parameters the statement has before the filter's.         *)
(***************************************************************************)
Test(column, op, at) == [is |-> "test", column |-> column, op |-> op, at |-> at, text |-> <<>>]
Paren(text) == [is |-> "paren", column |-> Null, op |-> "", at |-> <<>>, text |-> text]
Negation(text) == [Paren(text) EXCEPT !.is = "not"]
True == Test(Null, "true", <<>>)
Single(item) == <<<<item>>>>

\* text AND text: the conjunction binds the disjuncts that meet.
And(s, t) == IF s = <<>> THEN t ELSE Front(s) \o <<Last(s) \o Head(t)>> \o Tail(t)
Or(s, t)  == s \o t

\* Placeholders are numbered without the parameters that precede the filter's.
PlacesFromOne(so, n, offset) == [i \in 1 .. n |-> Len(so.params) + i]

Places(so, n, offset) == [i \in 1 .. n |-> offset + Len(so.params) + i]

Adds(so, column, op, args, offset) ==
  [text |-> Append(so.text, Test(column, op, Places(so, Len(args), offset))),
   params |-> so.params \o args]

compileComparison(so, column, c, offset) ==
  Adds(so, column,
       CASE c.op = "$exists" -> IF c.arg THEN "is not null" ELSE "is null"
         [] c.op = "$eq" /\ c.arg = Null -> "is null"
         [] c.op = "$ne" /\ c.arg = Null -> "is not null"
         [] OTHER -> c.op,
       CASE c.op = "$exists" \/ (c.op \in {"$eq", "$ne"} /\ c.arg = Null) -> <<>>
         [] c.op \in {"$in", "$nin"} -> c.arg
         [] OTHER -> <<c.arg>>,
       offset)

\* One clause stands by itself; none leaves an empty pair of parentheses.
compileFieldCondition(so, e, offset) ==
  LET Enclosed(all) == [all EXCEPT !.text = IF Len(@) = 1 THEN <<@>> ELSE Single(Paren(<<@>>))]
  IN Enclosed(FoldLeft(LAMBDA acc, c : compileComparison(acc, e.key, c, offset),
                       [so EXCEPT !.text = <<>>], e.clauses))

RECURSIVE compileObject(_, _, _)

compileLogical(so, e, offset) ==
  LET Joined(acc, item, params) ==
        [text   |-> IF e.key = "$or" THEN Or(acc.text, item) ELSE And(acc.text, item),
         params |-> params]
      Below(acc, inner) ==
        Joined(acc, Single(IF e.key = "$not" THEN Negation(inner.text) ELSE Paren(inner.text)),
               inner.params)
  IN FoldLeft(LAMBDA acc, f : Below(acc, compileObject(acc.params, f, offset)),
              [so EXCEPT !.text = <<>>], e.of)

compileObject(params, filter, offset) ==
  LET One(acc, e) == IF e.key \in Logicals THEN compileLogical(acc, e, offset)
                     ELSE compileFieldCondition(acc, e, offset)
      Conjoined(acc, one) == [text |-> And(acc.text, one.text), params |-> one.params]
  IN FoldLeft(LAMBDA acc, e : Conjoined(acc, One(acc, e)),
              [text |-> IF filter = <<>> THEN Single(True) ELSE <<>>, params |-> params], filter)

compileFilter(filter, offset) == compileObject(<<>>, filter, offset)
-----------------------------------------------------------------------------
(***************************************************************************)
(* The server: three-valued conditions.                                    *)
(***************************************************************************)
Conjunction(S) == IF "false" \in S THEN "false" ELSE IF "unknown" \in S THEN "unknown" ELSE "true"
Not3(v) == CASE v = "true" -> "false" [] v = "false" -> "true" [] OTHER -> v
Disjunction(S) == Not3(Conjunction({Not3(v) : v \in S}))
Truth(b) == IF b THEN "true" ELSE "false"

Compare(op, v, w) ==
  IF v = Null \/ w = Null THEN "unknown"
  ELSE Truth(CASE op = "$eq" -> v = w [] op = "$ne" -> v # w [] op = "$gt" -> v > w
               [] op = "$gte" -> v >= w [] op = "$lt" -> v < w [] op = "$lte" -> v <= w)

Among(v, args) == Disjunction({Compare("$eq", v, args[i]) : i \in DOMAIN args})

\* A parameter that is not bound, or (), and the statement is refused.
RECURSIVE Accepted(_, _)
Accepted(text, params) ==
  \A i \in DOMAIN text : \A j \in DOMAIN text[i] :
    LET it == text[i][j] IN
    /\ ToSet(it.at) \subseteq DOMAIN params
    /\ it.is # "test" => it.text # <<<<>>>> /\ Accepted(it.text, params)

RECURSIVE Holds(_, _, _)

Satisfies(test, v, args) ==
  CASE test = "true" -> "true"
    [] test = "is null" -> Truth(v = Null)
    [] test = "is not null" -> Truth(v # Null)
    [] test = "$in"  -> Among(v, args)
    [] test = "$nin" -> Not3(Among(v, args))
    [] OTHER -> Compare(test, v, args[1])

HoldsItem(it, params, row) ==
  CASE it.is = "paren" -> Holds(it.text, params, row)
    [] it.is = "not"   -> Not3(Holds(it.text, params, row))
    [] OTHER -> Satisfies(it.op, IF it.column = Null THEN Null ELSE row[it.column],
                          [i \in DOMAIN it.at |-> params[it.at[i]]])

Holds(text, params, row) ==
  Disjunction({Conjunction({HoldsItem(text[i][j], params, row) : j \in DOMAIN text[i]})
               : i \in DOMAIN text})
-----------------------------------------------------------------------------
(***************************************************************************)
(* What a filter means: all of its entries hold, $or means some of those   *)
(* below it, $not none of it.                                              *)
(***************************************************************************)
RECURSIVE Meaning(_, _)

MeaningOfClause(c, v) ==
  CASE c.op = "$exists" -> Truth((v # Null) = c.arg)
    [] c.op = "$eq" /\ c.arg = Null -> Truth(v = Null)
    [] c.op = "$ne" /\ c.arg = Null -> Truth(v # Null)
    [] c.op = "$in"  -> Among(v, c.arg)
    [] c.op = "$nin" -> Not3(Among(v, c.arg))
    [] OTHER -> Compare(c.op, v, c.arg)

MeaningOfEntry(e, row) ==
  LET Combined(S) == CASE e.key = "$or" -> Disjunction(S)
                       [] e.key = "$not" -> Not3(Conjunction(S))
                       [] OTHER -> Conjunction(S)
  IN Combined(IF e.key \in Logicals THEN {Meaning(e.of[j], row) : j \in DOMAIN e.of}
              ELSE {MeaningOfClause(e.clauses[j], row[e.key]) : j \in DOMAIN e.clauses})

Meaning(filter, row) == Conjunction({MeaningOfEntry(filter[i], row) : i \in DOMAIN filter})

Matches(filter, row) == Meaning(filter, row) = "true"
=============================================================================
