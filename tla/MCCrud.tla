------------------------------- MODULE MCCrud -------------------------------
(***************************************************************************)
(* Members of organizations, the posts they write and the tags of a post.  *)
(* A post refers to its member's key in the order opposite to the key's;   *)
(* its author may be missing, which a validated find then refuses, and one *)
(* member does not validate.  Programs: calls with every kind of filter on *)
(* the members; finds that populate, with writes between their statements; *)
(* a $or beside another entry.                                             *)
(***************************************************************************)
EXTENDS Crud

Leaf(values) == [is |-> "leaf", values |-> values]
RefTo(t, p)  == [is |-> "ref", table |-> t, property |-> p]
OrNull(type) == [is |-> "union", of |-> {type, Leaf({Null})}]

Key == Leaf({1, 2})
NoFields == [p \in {} |-> Null]

Members ==
  [properties |-> <<"org", "id", "role", "score", "created_at", "updated_at">>,
   keys |-> <<"org", "id">>, required |-> {"org", "id", "created_at"},
   ref |-> NoFields, view |-> NoFields, readOnly |-> {"score"},
   timestamps |-> <<"created_at", "updated_at">>, defaults |-> "role" :> 0,
   types |-> [org |-> Key, id |-> Key, role |-> OrNull(Leaf(0 .. 2)), score |-> OrNull(Leaf({7})),
              created_at |-> Leaf(0 .. 9), updated_at |-> Leaf(0 .. 9)]]

Plain(properties, keys, ref, types) ==
  [properties |-> properties, keys |-> keys, required |-> ToSet(keys), ref |-> ref,
   view |-> NoFields, readOnly |-> {}, timestamps |-> <<>>, defaults |-> NoFields,
   types |-> types]

Posts ==
  [Plain(<<"id", "author", "team", "tags">>, <<"id">>,
         [author |-> [table |-> "members", property |-> "id"],
          team   |-> [table |-> "members", property |-> "org"]],
         [id |-> Key, author |-> RefTo("members", "id"), team |-> RefTo("members", "org")])
   EXCEPT !.view = "tags" :> [mode |-> "array", target |-> "tags"]]

Tags == Plain(<<"id", "of">>, <<"id">>, NoFields, [id |-> Key, of |-> Leaf({1})])

PostTags ==
  Plain(<<"post", "tag">>, <<"post", "tag">>,
        [post |-> [table |-> "posts", property |-> "id"],
         tag  |-> [table |-> "tags", property |-> "id"]],
        [post |-> RefTo("posts", "id"), tag |-> RefTo("tags", "id")])

TheTables == <<"members", "posts", "tags", "postTags">>
TheSchema == [members |-> Members, posts |-> Posts, tags |-> Tags, postTags |-> PostTags]
TheStem   == [author |-> "author", team |-> "team", post |-> "post", tag |-> "tag"]

Member(org, id, role) ==
  [org |-> org, id |-> id, role |-> role, score |-> Null, created_at |-> 0, updated_at |-> 0]
Post(id, author, team) == [id |-> id, author |-> author, team |-> team]
Tag(id) == [id |-> id, of |-> 1]
-----------------------------------------------------------------------------
Base(op, table) ==
  [op |-> op, table |-> table, validate |-> TRUE, many |-> TRUE, filter |-> <<>>,
   data |-> NoFields, populate |-> <<>>]

CreateOf(t, records)      == [Base("create", t) EXCEPT !.data = records]
UpdateOf(t, filter, data) == [Base("update", t) EXCEPT !.filter = filter, !.data = data]
UpsertOf(t, filter, data) == [UpdateOf(t, filter, data) EXCEPT !.op = "upsert"]
DeleteOf(t, filter)       == [Base("remove", t) EXCEPT !.filter = filter]
FindOf(t, filter)         == [Base("find", t) EXCEPT !.filter = filter]
One(call)                 == [call EXCEPT !.many = FALSE]
With(call, populate)      == [call EXCEPT !.populate = populate]
Unchecked(call)           == [call EXCEPT !.validate = FALSE]

Is(column, v) == Entry(column, <<Clause("$eq", v)>>)

\* What find(), update() and delete() are asked for.
TheFilters ==
  {<<>>,
   <<Is("org", 1), Is("role", Null)>>,
   <<Entry("role", <<Clause("$gte", 0), Clause("$lt", 1)>>)>>,
   <<Logical("$or", <<<<Is("id", 2)>>, <<Entry("role", <<Clause("$exists", FALSE)>>)>>>>)>>,
   <<Logical("$not", <<<<Entry("role", <<Clause("$in", <<0, 1>>)>>)>>>>), Is("org", 1)>>,
   <<Logical("$and",
             <<<<Entry("role", <<Clause("$nin", <<1>>)>>)>>,
               <<Logical("$or", <<<<Is("org", 2)>>,
                                  <<Entry("id", <<Clause("$ne", 1)>>)>>>>)>>>>)>>}

RefusedFilters ==
  {<<Is("name", 1)>>, <<Entry("role", <<>>)>>, <<Entry("role", <<Clause("$in", <<>>)>>)>>,
   <<Entry("role", <<Clause("$regex", 1)>>)>>, <<Logical("$or", <<>>)>>}

TableProgram ==
  [rows |-> [members |-> {Member(1, 1, 0), Member(1, 2, 1), Member(2, 1, Null)},
             posts |-> {}, tags |-> {}, postTags |-> {}],
   calls |->
     {FindOf("members", f) : f \in TheFilters}
     \cup {UpdateOf("members", f, "role" :> 2) : f \in TheFilters}
     \cup {DeleteOf("members", f) : f \in TheFilters}
     \cup {FindOf("members", f) : f \in RefusedFilters}
     \cup {UpdateOf("members", f, "role" :> 1) : f \in RefusedFilters}
     \cup {DeleteOf("members", f) : f \in RefusedFilters}
     \cup {One(FindOf("members", <<Is("org", 1)>>)), One(DeleteOf("members", <<Is("id", 1)>>)),
           One(UpdateOf("members", <<Is("id", 1)>>, [id |-> 2, org |-> 2])),
           UpdateOf("members", <<Is("id", 1)>>, "score" :> 7),
           UpdateOf("members", <<Is("id", 1)>>, "role" :> 5),
           UpdateOf("members", <<Is("id", 1)>>, "created_at" :> 0),
           CreateOf("members", {}),
           CreateOf("members", {[org |-> 2, id |-> 2]}),
           CreateOf("members", {[org |-> 2, id |-> 2, role |-> 1], [org |-> 1, id |-> 1]}),
           CreateOf("members", {[org |-> 2, id |-> 2], [org |-> 2, id |-> 2, role |-> Null]}),
           CreateOf("members", {[org |-> 2, id |-> 2], [org |-> 2, id |-> 1, role |-> 9]}),
           UpsertOf("members", <<Is("org", 2), Is("id", 2)>>, "role" :> 1),
           UpsertOf("members", <<Is("org", 2)>>, "id" :> 2)}]

GraphProgram ==
  [rows |-> [members |-> {Member(1, 1, 0), Member(1, 2, 1), Member(2, 1, 9)},
             posts |-> {Post(1, 2, 1), Post(2, Null, 1)}, tags |-> {Tag(1), Tag(2)},
             postTags |-> {[post |-> 1, tag |-> 1], [post |-> 1, tag |-> 2]}],
   calls |->
     {Unchecked(With(FindOf("posts", <<>>), <<"members", "tags", "postTags">>)),
      Unchecked(With(FindOf("tags", <<>>), <<"posts">>)),
      With(One(FindOf("posts", <<Is("id", 2)>>)), <<"tags">>),
      With(FindOf("posts", <<Is("id", 1)>>), <<"members">>),
      With(FindOf("members", <<Is("org", 1)>>), <<"posts">>),
      With(One(FindOf("members", <<>>)), <<"posts", "friends">>),
      UpdateOf("posts", <<Is("id", 1)>>, [author |-> 1, team |-> 2]),
      UpdateOf("postTags", <<Is("tag", 2)>>, "post" :> 2),
      CreateOf("tags", {"id" :> 1}), Unchecked(CreateOf("tags", {"id" :> 1})),
      CreateOf("posts", {[id |-> 2, team |-> 2]}),
      UpsertOf("postTags", <<>>, [post |-> 1, tag |-> 1]),
      DeleteOf("tags", <<Is("id", 1)>>), DeleteOf("members", <<Is("id", 2)>>),
      DeleteOf("posts", <<Is("id", 2)>>)}]

\* $or beside another entry: the members of organization 1 that have one of two roles.
OrProgram ==
  [TableProgram EXCEPT !.calls =
     {DeleteOf("members",
               <<Is("org", 1), Logical("$or", <<<<Is("role", 0)>>, <<Is("role", Null)>>>>)>>)}]

AllPrograms == {TableProgram, GraphProgram}
OrPrograms  == {OrProgram}
=============================================================================
