------------------------- MODULE OminipgClientProofs -------------------------
(***************************************************************************)
(* What holds of every client, whatever its calls, the statements of its   *)
(* callbacks, its time-outs and a transport that may be lost: what becomes *)
(* durable together, what a failure leaves behind, what is left open, and  *)
(* the ledger of the outcomes.                                             *)
(*                                                                         *)
(* The argument.  A transaction sends its opener before anything else and  *)
(* its end after everything else (Asked, Ending, OrderInv), and while a    *)
(* request of it is on its way nothing of another transaction is on its    *)
(* lane (LineInv).  So what is open on a lane belongs to one transaction,  *)
(* and holds every statement of it that has succeeded (HolderInv, with     *)
(* OpenInv for its converse), until the end is executed: what that makes   *)
(* durable is the work of a call that can do no more (CommitInv).          *)
(***************************************************************************)
EXTENDS OminipgClient, SubsequencesProofs, FiniteSetTheorems

\* The requests of a transaction that write.
Tasks == ToSet(Statements) \cup {"finish"}
Lanes == Calls \cup {None}

Sent(c, n)  == req[<<c, n>>] # "unsent"
Got(c, n)   == req[<<c, n>>] = "ok"
Waits(c, n) == req[<<c, n>>] \in {"held", "gated", "sent"}
Over(c)     == Got(c, "commit") \/ Got(c, "rollback") \/ (program.transactionEnd /\ Got(c, "finish"))
Running(c)  == pc[c] \notin {"idle", "queued", "done"}
In(r)       == r \in ToSet(line)

\* Types.
CallTypes ==
  /\ program \in Programs
  /\ pc \in [Calls -> {"idle", "queued", "asking", "callback", "draining", "committing",
                       "settling", "rollingBack", "retiring", "done"}]
  /\ told \in [Calls -> {"none", "ok", "error"}] /\ tail \in Seq(Calls \cup {Close})
  /\ active \in [Calls -> BOOLEAN] /\ opener \in [Calls -> Names \cup {"none"}]
  /\ committed \in [Calls -> BOOLEAN]
  /\ finish \in [Calls -> {"none", "draining", "executing", "committing", "failed", "ok"}]
  /\ awaited \in [Calls -> SUBSET Requests]

WireTypes ==
  /\ req \in [Requests -> {"unsent", "held", "gated", "sent", "ok", "error"}]
  /\ line \in Seq(Requests) /\ IsInjective(line)

DbTypes ==
  /\ session \in {"open", "closing", "closed", "lost"} /\ poisoned \in BOOLEAN
  /\ db \in [Lanes -> [state : {"none", "open", "aborted", "broken"}, rows : SUBSET Requests]]
  /\ commits \subseteq SUBSET Requests

Types == CallTypes /\ WireTypes /\ DbTypes

(***************************************************************************)
(* The codec takes what a transaction on PGlite is given to send.  One     *)
(* whose first statement it refuses has started with nothing begun, and    *)
(* what follows is executed on its own: client/index.ts:704.               *)
(***************************************************************************)
Encodable == concurrent \/ program.encodes

\* On PGlite the running operation is at the head of the queue.
TailInv ==
  ~concurrent => \A c \in Calls :
    /\ Running(c) => tail # <<>> /\ Head(tail) = c
    /\ pc[c] = "queued" => c \in ToSet(tail)

\* How far a call is.
Phase(c) ==
  /\ told[c] = "none" <=> pc[c] # "done"
  /\ IF c \in Transactions
     THEN ~Sent(c, "query") /\ pc[c] # "asking"
     ELSE /\ opener[c] = "none" /\ finish[c] = "none"
          /\ pc[c] \in {"idle", "queued", "asking", "done"}
          /\ pc[c] \in {"idle", "queued"} => ~Sent(c, "query")
  /\ pc[c] \in {"idle", "queued"} => opener[c] = "none" /\ finish[c] = "none"
  /\ told[c] = "ok" => IF c \in Transactions THEN opener[c] = "none" \/ Over(c)
                       ELSE Got(c, "query")
  /\ c \in Transactions /\ active[c] =>
       /\ finish[c] = "none" /\ pc[c] \in {"idle", "queued", "callback", "done"}
       /\ pc[c] = "done" => opener[c] = "none"

\* What a transaction has sent.
Asked(c) ==
  /\ opener[c] = "none" => \A n \in Names \ {"query"} : ~Sent(c, n)
  /\ opener[c] # "none" =>
       /\ req[<<c, opener[c]>>] \notin {"unsent", "held", "gated"}
       /\ IF program.transactionStart THEN opener[c] \in Tasks ELSE opener[c] = "begin"
  /\ program.transactionStart => ~Sent(c, "begin")
  /\ \A n \in Names : req[<<c, n>>] = "held" =>
       /\ n \in Tasks /\ opener[c] = "begin" /\ req[<<c, "begin">>] = "sent"
  /\ finish[c] \in {"none", "draining"} => ~Sent(c, "finish")
  /\ finish[c] \in {"committing", "ok"} => Got(c, "finish")
  /\ pc[c] \in {"committing", "rollingBack", "retiring", "done"} =>
       finish[c] \in {"none", "ok", "failed"}
  /\ committed[c] <=> finish[c] = "ok"

\* How it ends.
Ending(c) ==
  /\ finish[c] = "ok" => program.transactionEnd \/ Got(c, "commit")
  /\ finish[c] = "failed" =>
       /\ req[<<c, "commit">>] \in {"unsent", "error"}
       /\ program.transactionEnd => req[<<c, "finish">>] \in {"unsent", "error"}
  /\ Sent(c, "commit") =>
       \/ finish[c] \in {"committing", "failed", "ok"} /\ ~program.transactionEnd
       \/ /\ finish[c] = "none"
          /\ \/ pc[c] = "committing"
             \/ pc[c] = "done" /\ Got(c, "commit")
             \/ /\ pc[c] \in {"settling", "rollingBack", "retiring", "done"}
                /\ req[<<c, "commit">>] = "error"
  /\ Sent(c, "rollback") =>
       /\ pc[c] \in {"rollingBack", "retiring", "done"} /\ finish[c] \in {"none", "failed"}
       /\ req[<<c, "commit">>] \in {"unsent", "error"}

\* What it waits for.
Awaiting(c) == \A n \in Tasks : Waits(c, n) =>
  /\ finish[c] = "draining" \/ (finish[c] = "none" /\ pc[c] = "draining") => <<c, n>> \in awaited[c]
  /\ Sent(c, "finish") => n = "finish"
  /\ ~Sent(c, "commit") /\ ~Sent(c, "rollback")

CallInv(c) == Phase(c) /\ Asked(c) /\ Ending(c) /\ Awaiting(c)

\* The requests that are on their way.
LineInv ==
  /\ \A r \in Requests : In(r) => req[r] \in {"gated", "sent", "error"} /\ ~Over(r[1])
  /\ \A r \in Requests : req[r] \in {"gated", "sent"} => In(r)
  /\ session = "closed" => line = <<>>
  /\ session = "lost" => \A r \in Requests : req[r] \notin {"held", "gated", "sent"}
  /\ poisoned => session # "open"
  /\ ~concurrent =>
       /\ \A q, r \in Requests : In(q) /\ In(r) => q[1] = r[1]
       /\ session # "lost" => \A c \in Calls : Running(c) => \A r \in Requests : In(r) => r[1] = c

\* A transaction begins with its opener and ends with its end.
OrderInv ==
  /\ \A q, r \in Requests : Precedes(line, q, r) /\ q[1] = r[1] =>
       /\ r[2] # opener[r[1]] /\ q[2] # "rollback"
       /\ q[2] = "commit" => r[2] = "rollback"
       /\ q[2] = "finish" => r[2] \in {"commit", "rollback"}
  /\ \A c \in Calls : opener[c] # "none" /\ In(<<c, opener[c]>>) =>
       \A n \in Names : ~Got(c, n)

\* While the session lasts, a transaction is over when its end was confirmed.
DoneInv ==
  session \in {"open", "closing"} =>
    \A c \in Transactions : pc[c] = "done" => opener[c] = "none" \/ Over(c)

\* The lane of what c sends.
LaneOf(c) == IF concurrent /\ c \in Transactions THEN c ELSE None

\* The transaction that is open on a lane.
Holds(c, l) ==
  /\ c \in Transactions /\ l = LaneOf(c) /\ opener[c] # "none" /\ ~Over(c)
  /\ ~In(<<c, opener[c]>>)
  /\ \A r \in Requests : In(r) /\ Lane(r) = l => r[1] = c
  /\ \A n \in Tasks : Got(c, n) => <<c, n>> \in db[l].rows
  /\ \A r \in db[l].rows : r[1] = c /\ r[2] \in Tasks
  /\ db[l].state # "open" => \E n \in Tasks : req[<<c, n>>] = "error"

\* Calls that have written.
Durable(c) == \E s \in commits : \E r \in s : r[1] = c

\* What is open on a lane is open for one transaction, which has not written.
HolderInv ==
  \A l \in Lanes : IF db[l].state = "none" THEN db[l].rows = {}
                   ELSE \E c \in Calls : Holds(c, l) /\ ~Durable(c)

\* The end of c has been answered, or given up.
Ended(c) == \/ Sent(c, "commit") /\ ~In(<<c, "commit">>)
            \/ Sent(c, "rollback") /\ ~In(<<c, "rollback">>)
            \/ program.transactionEnd /\ Sent(c, "finish") /\ ~In(<<c, "finish">>)

\* What was begun is open.
OpenInv ==
  \A c \in Transactions : opener[c] # "none" /\ ~In(<<c, opener[c]>>) =>
    /\ session \in {"open", "closing"} /\ ~Ended(c) =>
         \/ db[LaneOf(c)].state # "none"
         \/ req[<<c, opener[c]>>] = "error" /\ (concurrent \/ session # "open")
    /\ ~concurrent /\ (\E n \in Tasks : In(<<c, n>>)) => db[None].state # "none"

\* Nothing of the call will succeed any more.
Spent(c) == /\ \A n \in Tasks : ~Waits(c, n)
            /\ c \in Transactions => opener[c] # "none" /\ ~active[c] /\ finish[c] # "draining"

\* A set that was committed is the whole work of one call.
CommitInv ==
  /\ \A s \in commits : \E c \in Calls :
       /\ \A r \in s : r[1] = c /\ r[2] \in Tasks \cup {"query"}
       /\ \A n \in Tasks : Got(c, n) => <<c, n>> \in s
       /\ Spent(c)
  /\ \A s, t \in commits : \A q \in s, r \in t : q[1] = r[1] => s = t
  /\ \A c \in Calls : Durable(c) =>
       IF c \in Transactions
       THEN /\ opener[c] # "none" /\ ~In(<<c, opener[c]>>)
            /\ Sent(c, "commit") \/ finish[c] # "none"
       ELSE Sent(c, "query") /\ ~In(<<c, "query">>)

\* COMMIT, or the statement that carries it, has succeeded.
Confirmed(c) == Got(c, "commit") \/ (program.transactionEnd /\ Got(c, "finish"))

\* No statement of c has failed.
Whole(c) == /\ \E n \in Tasks : Got(c, n)
            /\ \A n \in Tasks \cup {"begin"} : req[<<c, n>>] # "error"

\* What is told to be committed is.
KeepInv ==
  \A c \in Calls :
    /\ Got(c, "query") => Durable(c)
    /\ Confirmed(c) /\ Whole(c) => Durable(c)

\* The inductive invariant.
ClientInv ==
  /\ Types /\ Encodable /\ TailInv /\ (\A c \in Calls : CallInv(c)) /\ LineInv /\ OrderInv
  /\ DoneInv /\ HolderInv /\ OpenInv /\ CommitInv /\ KeepInv
-----------------------------------------------------------------------------
\* The requests of a transaction have names of their own.
LEMMA NameFacts ==
  /\ Tasks \subseteq Names /\ "finish" \in Tasks
  /\ {"begin", "finish", "commit", "rollback", "query"} \subseteq Names
  /\ \A n \in Tasks : n # "begin" /\ n # "commit" /\ n # "rollback" /\ n # "query"
  /\ \A n \in ToSet(Statements) : n \in Tasks /\ n # "finish"
  /\ \A n \in Names : n # "none" /\ (n \in Tasks \/ n \in {"begin", "commit", "rollback", "query"})
BY ClientAssumption DEF Names, Tasks

\* A request is the pair of a call and a name.
LEMMA RequestFacts ==
  /\ \A c \in Calls, n \in Names : <<c, n>> \in Requests
  /\ \A r \in Requests : r[1] \in Calls /\ r[2] \in Names /\ r = <<r[1], r[2]>>
BY DEF Requests

\* What initialize answered, as the assumption has it.
LEMMA ProgramFacts ==
  ASSUME program \in Programs
  PROVE  /\ program.concurrent \in BOOLEAN /\ program.transactionStart \in BOOLEAN
         /\ program.transactionEnd \in BOOLEAN /\ program.encodes \in BOOLEAN
         /\ program.issues \in 0 .. Len(Statements) /\ program.kind \in [Calls -> Kinds]
BY ClientAssumption DEF Flags

\* Nothing of d has changed.
Same(d) ==
  /\ program' = program /\ pc'[d] = pc[d] /\ told'[d] = told[d] /\ active'[d] = active[d]
  /\ opener'[d] = opener[d] /\ committed'[d] = committed[d] /\ finish'[d] = finish[d]
  /\ awaited'[d] = awaited[d] /\ \A n \in Names : req'[<<d, n>>] = req[<<d, n>>]

\* So its part of the invariant has not.
LEMMA SameCall ==
  ASSUME NEW d \in Calls, Same(d), CallInv(d)
  PROVE  CallInv(d)'
<1>1. \A n \in Tasks : n \in Names
  BY NameFacts
<1>2. opener[d] # "none" /\ opener[d] \in Names => req'[<<d, opener[d]>>] = req[<<d, opener[d]>>]
  BY DEF Same
<1>3. opener[d] # "none" => opener[d] \in Names
  BY NameFacts DEF CallInv, Asked
<1>4. Phase(d)'
  BY NameFacts DEF CallInv, Phase, Same, Sent, Got, Over, Transactions
<1>5. Asked(d)'
  BY <1>1, <1>2, <1>3, NameFacts DEF CallInv, Asked, Same, Sent, Got
<1>6. Ending(d)'
  BY NameFacts DEF CallInv, Ending, Same, Sent, Got
<1>7. Awaiting(d)'
  BY <1>1, NameFacts DEF CallInv, Awaiting, Same, Sent, Waits
<1> QED BY <1>4, <1>5, <1>6, <1>7 DEF CallInv

\* Steps of a call that leave the session and the workload alone.
LEMMA CallSteps ==
  ASSUME Types, NEW c \in Calls, CallInv(c),
         \/ Call(c) \/ EndQuery(c) \/ StartTransaction(c) \/ Finish(c) \/ FinishFails(c)
         \/ Finished(c) \/ Return(c) \/ Throw(c) \/ Committed(c) \/ Catches(c)
         \/ RolledBack(c) \/ Retired(c)
  PROVE  CallInv(c)' /\ \A d \in Calls : d # c => Same(d)
<1> USE DEF Types, CallTypes
<1>1. CASE Call(c)
  <2>1. /\ \A d \in Calls : d # c => Same(d)
        /\ req' = req /\ program' = program /\ opener' = opener /\ Transactions' = Transactions
    BY <1>1 DEF Call, Same, Transactions, callVars, txVars, endVars, wireVars, dbVars
  <2>2. Phase(c)'
    BY <1>1, <2>1 DEF Call, CallInv, Phase, Asked, Ending, Sent, Got, Over, callVars, txVars
  <2>3. Asked(c)'
    BY <1>1, <2>1 DEF Call, CallInv, Phase, Asked, Sent, Got, callVars, txVars
  <2>4. Ending(c)'
    BY <1>1, <2>1, NameFacts DEF Call, CallInv, Phase, Asked, Ending, Sent, Got, callVars,
         txVars
  <2>5. Awaiting(c)'
    BY <1>1, <2>1 DEF Call, CallInv, Phase, Asked, Ending, Awaiting, Sent, Waits, callVars,
         txVars
  <2> QED BY <2>1, <2>2, <2>3, <2>4, <2>5 DEF CallInv
<1>2. CASE EndQuery(c)
  <2>1. /\ \A d \in Calls : d # c => Same(d)
        /\ req' = req /\ program' = program /\ opener' = opener /\ Transactions' = Transactions
    BY <1>2 DEF EndQuery, Done, Same, Transactions, callVars, txVars, endVars, wireVars, dbVars
  <2>2. Phase(c)'
    BY <1>2, <2>1 DEF EndQuery, Done, CallInv, Phase, Asked, Ending, Sent, Got, Over, callVars,
         txVars
  <2>3. Asked(c)'
    BY <1>2, <2>1 DEF EndQuery, Done, CallInv, Phase, Asked, Sent, Got, callVars, txVars
  <2>4. Ending(c)'
    BY <1>2, <2>1, NameFacts DEF EndQuery, Done, CallInv, Phase, Asked, Ending, Sent, Got,
         callVars, txVars
  <2>5. Awaiting(c)'
    BY <1>2, <2>1 DEF EndQuery, Done, CallInv, Phase, Asked, Ending, Awaiting, Sent, Waits,
         callVars, txVars
  <2> QED BY <2>1, <2>2, <2>3, <2>4, <2>5 DEF CallInv
<1>3. CASE StartTransaction(c)
  <2>1. /\ \A d \in Calls : d # c => Same(d)
        /\ req' = req /\ program' = program /\ opener' = opener /\ Transactions' = Transactions
    BY <1>3 DEF StartTransaction, MayStart, Same, Transactions, callVars, txVars, endVars,
         wireVars, dbVars
  <2>2. Phase(c)'
    BY <1>3, <2>1 DEF StartTransaction, MayStart, CallInv, Phase, Asked, Ending, Sent, Got,
         Over, callVars, txVars
  <2>3. Asked(c)'
    BY <1>3, <2>1 DEF StartTransaction, MayStart, CallInv, Phase, Asked, Sent, Got, callVars,
         txVars
  <2>4. Ending(c)'
    BY <1>3, <2>1, NameFacts DEF StartTransaction, MayStart, CallInv, Phase, Asked, Ending,
         Sent, Got, callVars, txVars
  <2>5. Awaiting(c)'
    BY <1>3, <2>1 DEF StartTransaction, MayStart, CallInv, Phase, Asked, Ending, Awaiting,
         Sent, Waits, callVars, txVars
  <2> QED BY <2>1, <2>2, <2>3, <2>4, <2>5 DEF CallInv
<1>4. CASE Finish(c)
  <2>1. /\ \A d \in Calls : d # c => Same(d)
        /\ req' = req /\ program' = program /\ opener' = opener /\ Transactions' = Transactions
    BY <1>4 DEF Finish, Pending, Work, Tasks, Same, Transactions, callVars, txVars, endVars,
         wireVars, dbVars
  <2>2. Phase(c)'
    BY <1>4, <2>1 DEF Finish, Pending, Work, Tasks, CallInv, Phase, Asked, Ending, Sent, Got,
         Over, callVars, txVars
  <2>3. Asked(c)'
    BY <1>4, <2>1 DEF Finish, Pending, Work, Tasks, CallInv, Phase, Asked, Sent, Got, callVars,
         txVars
  <2>4. Ending(c)'
    BY <1>4, <2>1, NameFacts DEF Finish, Pending, Work, Tasks, CallInv, Phase, Asked, Ending,
         Sent, Got, callVars, txVars
  <2>5. Awaiting(c)'
    BY <1>4, <2>1 DEF Finish, Pending, Work, Tasks, CallInv, Phase, Asked, Ending, Awaiting,
         Sent, Waits, callVars, txVars
  <2> QED BY <2>1, <2>2, <2>3, <2>4, <2>5 DEF CallInv
<1>5. CASE FinishFails(c)
  <2>1. /\ \A d \in Calls : d # c => Same(d)
        /\ req' = req /\ program' = program /\ opener' = opener /\ Transactions' = Transactions
    BY <1>5 DEF FinishFails, Failed, Same, Transactions, callVars, txVars, endVars, wireVars,
         dbVars
  <2>2. Phase(c)'
    BY <1>5, <2>1 DEF FinishFails, Failed, CallInv, Phase, Asked, Ending, Sent, Got, Over,
         callVars, txVars
  <2>3. Asked(c)'
    BY <1>5, <2>1 DEF FinishFails, Failed, CallInv, Phase, Asked, Sent, Got, callVars, txVars
  <2>4. Ending(c)'
    BY <1>5, <2>1, NameFacts DEF FinishFails, Failed, CallInv, Phase, Asked, Ending, Sent, Got,
         callVars, txVars
  <2>5. Awaiting(c)'
    BY <1>5, <2>1 DEF FinishFails, Failed, CallInv, Phase, Asked, Ending, Awaiting, Sent,
         Waits, callVars, txVars
  <2> QED BY <2>1, <2>2, <2>3, <2>4, <2>5 DEF CallInv
<1>6. CASE Finished(c)
  <2>1. /\ \A d \in Calls : d # c => Same(d)
        /\ req' = req /\ program' = program /\ opener' = opener /\ Transactions' = Transactions
    BY <1>6 DEF Finished, Succeeded, Same, Transactions, callVars, txVars, endVars, wireVars,
         dbVars
  <2>2. Phase(c)'
    BY <1>6, <2>1 DEF Finished, Succeeded, CallInv, Phase, Asked, Ending, Sent, Got, Over,
         callVars, txVars
  <2>3. Asked(c)'
    BY <1>6, <2>1 DEF Finished, Succeeded, CallInv, Phase, Asked, Sent, Got, callVars, txVars
  <2>4. Ending(c)'
    BY <1>6, <2>1, NameFacts DEF Finished, Succeeded, CallInv, Phase, Asked, Ending, Sent, Got,
         callVars, txVars
  <2>5. Awaiting(c)'
    BY <1>6, <2>1 DEF Finished, Succeeded, CallInv, Phase, Asked, Ending, Awaiting, Sent,
         Waits, callVars, txVars
  <2> QED BY <2>1, <2>2, <2>3, <2>4, <2>5 DEF CallInv
<1>7. CASE Return(c)
  <2>1. /\ \A d \in Calls : d # c => Same(d)
        /\ req' = req /\ program' = program /\ opener' = opener /\ Transactions' = Transactions
    BY <1>7 DEF Return, Pending, Work, Tasks, Same, Transactions, callVars, txVars, endVars,
         wireVars, dbVars
  <2>2. Phase(c)'
    BY <1>7, <2>1 DEF Return, Pending, Work, Tasks, CallInv, Phase, Asked, Ending, Sent, Got,
         Over, callVars, txVars
  <2>3. Asked(c)'
    BY <1>7, <2>1 DEF Return, Pending, Work, Tasks, CallInv, Phase, Asked, Sent, Got, callVars,
         txVars
  <2>4. Ending(c)'
    BY <1>7, <2>1, NameFacts DEF Return, Pending, Work, Tasks, CallInv, Phase, Asked, Ending,
         Sent, Got, callVars, txVars
  <2>5. Awaiting(c)'
    <3>1. Awaiting(c) /\ UNCHANGED <<req, finish>>
      BY <1>7, <2>1 DEF Return, CallInv
    <3>2. IF finish[c] = "none" THEN awaited'[c] = Pending(c) ELSE awaited' = awaited
      BY <1>7 DEF Return
    <3>3. \A n \in Tasks : Waits(c, n) => <<c, n>> \in Pending(c)
      BY RequestFacts, NameFacts DEF Waits, Pending, Work, Tasks
    <3> QED BY <3>1, <3>2, <3>3 DEF Awaiting, Sent, Waits
  <2> QED BY <2>1, <2>2, <2>3, <2>4, <2>5 DEF CallInv
<1>8. CASE Throw(c)
  <2>1. /\ \A d \in Calls : d # c => Same(d)
        /\ req' = req /\ program' = program /\ opener' = opener /\ Transactions' = Transactions
    BY <1>8 DEF Throw, Same, Transactions, callVars, txVars, endVars, wireVars, dbVars
  <2>2. Phase(c)'
    BY <1>8, <2>1 DEF Throw, CallInv, Phase, Asked, Ending, Sent, Got, Over, callVars, txVars
  <2>3. Asked(c)'
    BY <1>8, <2>1 DEF Throw, CallInv, Phase, Asked, Sent, Got, callVars, txVars
  <2>4. Ending(c)'
    BY <1>8, <2>1, NameFacts DEF Throw, CallInv, Phase, Asked, Ending, Sent, Got, callVars,
         txVars
  <2>5. Awaiting(c)'
    BY <1>8, <2>1 DEF Throw, CallInv, Phase, Asked, Ending, Awaiting, Sent, Waits, callVars,
         txVars
  <2> QED BY <2>1, <2>2, <2>3, <2>4, <2>5 DEF CallInv
<1>9. CASE Committed(c)
  <2>1. /\ \A d \in Calls : d # c => Same(d)
        /\ req' = req /\ program' = program /\ opener' = opener /\ Transactions' = Transactions
    BY <1>9 DEF Committed, Done, Succeeded, Same, Transactions, callVars, txVars, endVars,
         wireVars, dbVars
  <2>2. Phase(c)'
    BY <1>9, <2>1 DEF Committed, Done, Succeeded, CallInv, Phase, Asked, Ending, Sent, Got,
         Over, callVars, txVars
  <2>3. Asked(c)'
    BY <1>9, <2>1 DEF Committed, Done, Succeeded, CallInv, Phase, Asked, Sent, Got, callVars,
         txVars
  <2>4. Ending(c)'
    BY <1>9, <2>1, NameFacts DEF Committed, Done, Succeeded, CallInv, Phase, Asked, Ending,
         Sent, Got, callVars, txVars
  <2>5. Awaiting(c)'
    BY <1>9, <2>1 DEF Committed, Done, Succeeded, CallInv, Phase, Asked, Ending, Awaiting,
         Sent, Waits, callVars, txVars
  <2> QED BY <2>1, <2>2, <2>3, <2>4, <2>5 DEF CallInv
<1>10. CASE Catches(c)
  <2>1. /\ \A d \in Calls : d # c => Same(d)
        /\ req' = req /\ program' = program /\ opener' = opener /\ Transactions' = Transactions
    BY <1>10 DEF Catches, Failed, Same, Transactions, callVars, txVars, endVars, wireVars,
         dbVars
  <2>2. Phase(c)'
    BY <1>10, <2>1 DEF Catches, Failed, CallInv, Phase, Asked, Ending, Sent, Got, Over,
         callVars, txVars
  <2>3. Asked(c)'
    BY <1>10, <2>1 DEF Catches, Failed, CallInv, Phase, Asked, Sent, Got, callVars, txVars
  <2>4. Ending(c)'
    BY <1>10, <2>1, NameFacts DEF Catches, Failed, CallInv, Phase, Asked, Ending, Sent, Got,
         callVars, txVars
  <2>5. Awaiting(c)'
    BY <1>10, <2>1 DEF Catches, Failed, CallInv, Phase, Asked, Ending, Awaiting, Sent, Waits,
         callVars, txVars
  <2> QED BY <2>1, <2>2, <2>3, <2>4, <2>5 DEF CallInv
<1>11. CASE RolledBack(c)
  <2>1. /\ \A d \in Calls : d # c => Same(d)
        /\ req' = req /\ program' = program /\ opener' = opener /\ Transactions' = Transactions
    BY <1>11 DEF RolledBack, Done, Succeeded, Same, Transactions, callVars, txVars, endVars,
         wireVars, dbVars
  <2>2. Phase(c)'
    BY <1>11, <2>1 DEF RolledBack, Done, Succeeded, CallInv, Phase, Asked, Ending, Sent, Got,
         Over, callVars, txVars
  <2>3. Asked(c)'
    BY <1>11, <2>1 DEF RolledBack, Done, Succeeded, CallInv, Phase, Asked, Sent, Got, callVars,
         txVars
  <2>4. Ending(c)'
    BY <1>11, <2>1, NameFacts DEF RolledBack, Done, Succeeded, CallInv, Phase, Asked, Ending,
         Sent, Got, callVars, txVars
  <2>5. Awaiting(c)'
    BY <1>11, <2>1 DEF RolledBack, Done, Succeeded, CallInv, Phase, Asked, Ending, Awaiting,
         Sent, Waits, callVars, txVars
  <2> QED BY <2>1, <2>2, <2>3, <2>4, <2>5 DEF CallInv
<1>12. CASE Retired(c)
  <2>1. /\ \A d \in Calls : d # c => Same(d)
        /\ req' = req /\ program' = program /\ opener' = opener /\ Transactions' = Transactions
    BY <1>12 DEF Retired, Done, Same, Transactions, callVars, txVars, endVars, wireVars, dbVars
  <2>2. Phase(c)'
    BY <1>12, <2>1 DEF Retired, Done, CallInv, Phase, Asked, Ending, Sent, Got, Over, callVars,
         txVars
  <2>3. Asked(c)'
    BY <1>12, <2>1 DEF Retired, Done, CallInv, Phase, Asked, Sent, Got, callVars, txVars
  <2>4. Ending(c)'
    BY <1>12, <2>1, NameFacts DEF Retired, Done, CallInv, Phase, Asked, Ending, Sent, Got,
         callVars, txVars
  <2>5. Awaiting(c)'
    BY <1>12, <2>1 DEF Retired, Done, CallInv, Phase, Asked, Ending, Awaiting, Sent, Waits,
         callVars, txVars
  <2> QED BY <2>1, <2>2, <2>3, <2>4, <2>5 DEF CallInv
<1> QED BY <1>1, <1>2, <1>3, <1>4, <1>5, <1>6, <1>7, <1>8, <1>9, <1>10, <1>11, <1>12
-----------------------------------------------------------------------------
(***************************************************************************)
(* A step in which c sends r, or is refused, or leaves r waiting for its   *)
(* BEGIN, as the workload and the other calls see it.                      *)
(***************************************************************************)
New(q) == req'[q] # req[q]

Puts(c, r) ==
  /\ UNCHANGED <<program, db, commits, session, poisoned>>
  /\ r \in Requests /\ r[1] = c
  /\ \A q \in Requests : New(q) =>
       /\ q[1] = c /\ req[q] = "unsent" /\ req'[q] \in {"held", "gated", "sent", "error"}
       /\ req'[q] \in {"gated", "sent"} => q = r /\ line' = Append(line, r) /\ session = "open"
       /\ req'[q] = "held" => session # "lost"
  /\ \/ line' = line
     \/ /\ line' = Append(line, r) /\ session = "open" /\ ~poisoned
        /\ New(r) /\ req'[r] \in {"gated", "sent"}
  /\ \A d \in Calls : d # c => opener'[d] = opener[d]
  /\ \/ opener'[c] = opener[c]
     \/ /\ opener[c] = "none" /\ r[2] = opener'[c] /\ New(r)
        /\ \/ line' = Append(line, r) /\ req'[r] = "sent"
           \/ line' = line /\ req'[r] = "error" /\ (concurrent \/ session # "open")

\* Nothing stands in the way of the first request of a transaction.
LEMMA Ungated ==
  ASSUME Types, LineInv, NEW c \in Calls, CallInv(c), c \in Transactions, Running(c),
         opener[c] = "none", session = "open", NEW n \in Names
  PROVE  ~Blocked(<<c, n>>, Late)
<1> SUFFICES ASSUME NEW q \in ToSet(line), Lane(q) = Lane(<<c, n>>) PROVE FALSE
  BY DEF Blocked, Late
<1>0. q \in Requests
  BY DEF Types, WireTypes, ToSet
<1>1. q[1] = c
  <2>1. CASE concurrent
    BY <1>0, <2>1, RequestFacts, ClientAssumption DEF Lane, Types, CallTypes
  <2>2. CASE ~concurrent
    BY <1>0, <2>2 DEF LineInv, In
  <2> QED BY <2>1, <2>2
<1>2. req[q] = "unsent"
  BY <1>0, <1>1, RequestFacts DEF CallInv, Phase, Asked, Sent
<1> QED BY <1>0, <1>2 DEF LineInv, In

\* What Execute does to the requests of c.
Executed(c, n) ==
  LET b == <<c, "begin">>
      r == <<c, n>>
  IN
  /\ \A m \in Names : m # n /\ New(<<c, m>>) =>
       m = "begin" /\ opener[c] = "none" /\ ~program.transactionStart
  /\ req'[r] \in {"held", "gated", "sent", "error"}
  /\ program.transactionStart => req'[r] # "held"
  /\ req'[r] = "held" => opener'[c] = "begin" /\ req'[b] = "sent"
  /\ \A d \in Calls : d # c => opener'[d] = opener[d]
  /\ IF opener[c] = "none"
     THEN IF program.transactionStart
          THEN opener'[c] = n /\ req'[r] \in {"sent", "error"}
          ELSE opener'[c] = "begin" /\ req'[b] \in {"sent", "error"}
     ELSE opener'[c] = opener[c]

\* execute() sends the statement, or the BEGIN that it then waits for.
LEMMA ExecutePuts ==
  ASSUME Types, LineInv, Encodable, NEW c \in Calls, CallInv(c), c \in Transactions, Running(c),
         NEW n \in Tasks, ~Sent(c, n), Execute(c, n),
         UNCHANGED <<program, db, commits, session, poisoned>>
  PROVE  Executed(c, n) /\ \E m \in {n, "begin"} : Puts(c, <<c, m>>)
<1> DEFINE r == <<c, n>>
           b == <<c, "begin">>
           v == IF Refusing THEN "error" ELSE IF Blocked(r, Late) THEN "gated" ELSE "sent"
           w == IF Refusing THEN "error" ELSE IF Blocked(b, Late) THEN "gated" ELSE "sent"
           goes == line' = IF Refusing THEN line ELSE Append(line, r)
<1>0. /\ n \in Names /\ "begin" \in Names /\ n # "begin" /\ r \in Requests /\ b \in Requests
      /\ r[1] = c /\ r[2] = n /\ b[1] = c /\ b[2] = "begin"
  BY NameFacts, RequestFacts
<1>1. req \in [Requests -> {"unsent", "held", "gated", "sent", "ok", "error"}]
      /\ opener \in [Calls -> Names \cup {"none"}]
  BY DEF Types, WireTypes, CallTypes
<1>2. req[r] = "unsent"
  BY DEF Sent
<1>3. Refusing <=> session # "open"
  BY DEF LineInv, Refusing, Types, DbTypes
<1>4. opener[c] = "none" => v # "gated" /\ w # "gated"
  BY <1>0, <1>3, Ungated
<1>5. \A q \in Requests : q = r \/ q = b \/ (q[1] # c) \/ (q[2] # n /\ q[2] # "begin")
  BY RequestFacts
<1>6. opener[c] = "none" => req[b] = "unsent"
  BY <1>0, NameFacts DEF CallInv, Asked, Sent
<1>7. started(c) <=> opener[c] # "none"
  BY DEF started
<1>13. opener' = IF opener[c] # "none" THEN opener
                 ELSE [opener EXCEPT ![c] = IF program.transactionStart THEN n ELSE "begin"]
  BY <1>7 DEF Execute
<1>8. /\ \/ program.transactionStart /\ req' = [req EXCEPT ![r] = v] /\ goes
         \/ /\ program.transactionStart /\ ~program.encodes
            /\ req' = [req EXCEPT ![r] = "error"] /\ line' = line
         \/ /\ ~program.transactionStart /\ opener[c] = "none"
            /\ req' = [[req EXCEPT ![r] = IF Refusing THEN "error" ELSE "held"] EXCEPT ![b] = w]
            /\ line' = IF Refusing THEN line ELSE Append(line, b)
         \/ /\ ~program.transactionStart /\ opener[c] # "none" /\ req[b] = "ok"
            /\ req' = [req EXCEPT ![r] = v] /\ goes
         \/ /\ ~program.transactionStart /\ opener[c] # "none" /\ req[b] # "ok"
            /\ req' = [req EXCEPT ![r] = IF req[b] = "error" THEN "error" ELSE "held"]
            /\ line' = line
  BY <1>7 DEF Execute, Send, Unencodable, Succeeded, Failed
<1>14. v \in {"error", "gated", "sent"} /\ (v = "error" <=> Refusing)
  OBVIOUS
<1>15. w = IF Refusing THEN "error" ELSE IF Blocked(b, Late) THEN "gated" ELSE "sent"
  OBVIOUS
<1>16. opener'[c] = IF opener[c] # "none" THEN opener[c]
                    ELSE IF program.transactionStart THEN n ELSE "begin"
  BY <1>1, <1>13
<1>17. \A d \in Calls : d # c => opener'[d] = opener[d]
  BY <1>1, <1>13
<1>18. \A m \in Names : <<c, m>> \in Requests /\ (m # n => <<c, m>> # r) /\ (m # "begin" => <<c, m>> # b)
  BY RequestFacts
<1> HIDE DEF r, b, v, w
<1>9. CASE program.transactionStart
  <2>2. \E x \in {"error", "gated", "sent"} :
          /\ req' = [req EXCEPT ![r] = x] /\ (opener[c] = "none" => x # "gated")
          /\ \/ x # "error" /\ line' = Append(line, r) /\ session = "open" /\ ~poisoned
             \/ x = "error" /\ line' = line /\ (concurrent \/ session # "open")
    BY <1>3, <1>4, <1>8, <1>9, <1>14 DEF Refusing, Encodable, goes
  <2>3. PICK x \in {"error", "gated", "sent"} :
          /\ req' = [req EXCEPT ![r] = x] /\ (opener[c] = "none" => x # "gated")
          /\ \/ x # "error" /\ line' = Append(line, r) /\ session = "open" /\ ~poisoned
             \/ x = "error" /\ line' = line /\ (concurrent \/ session # "open")
    BY <2>2
  <2>4. req'[r] = x /\ \A q \in Requests : q # r => req'[q] = req[q]
    BY <1>0, <1>1, <2>3
  <2>5. \A m \in Names : m # n => req'[<<c, m>>] = req[<<c, m>>]
    BY <1>18, <2>4
  <2>7. opener'[c] = IF opener[c] # "none" THEN opener[c] ELSE n
    BY <1>9, <1>16
  <2>8. Executed(c, n)
    BY <1>9, <1>17, <2>3, <2>4, <2>5, <2>7 DEF Executed, New, r, b
  <2>9. Puts(c, r)
    BY <1>0, <1>2, <1>17, <2>3, <2>4, <2>7 DEF Puts, New
  <2> QED BY <2>8, <2>9 DEF r, b
<1>10. CASE ~program.transactionStart /\ opener[c] = "none"
  <2>1. /\ req' = [[req EXCEPT ![r] = IF Refusing THEN "error" ELSE "held"] EXCEPT ![b] = w]
        /\ line' = IF Refusing THEN line ELSE Append(line, b)
    BY <1>8, <1>10
  <2>2. w = IF Refusing THEN "error" ELSE "sent"
    BY <1>4, <1>10, <1>15
  <2>3. /\ req'[r] = IF Refusing THEN "error" ELSE "held"
        /\ req'[b] = w /\ \A q \in Requests : q # r /\ q # b => req'[q] = req[q]
    <3>1. r # b
      BY <1>0
    <3> QED BY <1>0, <1>1, <2>1, <3>1
  <2>5. \A m \in Names : m # n /\ m # "begin" => req'[<<c, m>>] = req[<<c, m>>]
    BY <1>18, <2>3
  <2>6. opener'[c] = "begin"
    BY <1>10, <1>16
  <2>8. Executed(c, n)
    BY <1>10, <1>17, <2>2, <2>3, <2>5, <2>6 DEF Executed, New, r, b
  <2>9. Puts(c, b)
    BY <1>0, <1>1, <1>2, <1>3, <1>6, <1>10, <1>17, <2>1, <2>2, <2>3, <2>6 DEF Puts, New,
         Refusing
  <2> QED BY <2>8, <2>9 DEF r, b
<1>11. CASE ~program.transactionStart /\ opener[c] # "none" /\ req[b] = "ok"
  <2>2. /\ req' = [req EXCEPT ![r] = v] /\ opener' = opener
        /\ line' = IF Refusing THEN line ELSE Append(line, r)
    BY <1>8, <1>11, <1>13 DEF goes
  <2>3. req'[r] = v /\ \A q \in Requests : q # r => req'[q] = req[q]
    BY <1>0, <1>1, <2>2
  <2>5. \A m \in Names : m # n => req'[<<c, m>>] = req[<<c, m>>]
    BY <1>18, <2>3
  <2>8. Executed(c, n)
    BY <1>11, <1>14, <2>2, <2>3, <2>5 DEF Executed, New, r, b
  <2>9. Puts(c, r)
    BY <1>0, <1>1, <1>2, <1>3, <1>11, <1>14, <2>2, <2>3 DEF Puts, New, Refusing
  <2> QED BY <2>8, <2>9 DEF r, b
<1>12. CASE ~program.transactionStart /\ opener[c] # "none" /\ req[b] # "ok"
  <2>1. req' = [req EXCEPT ![r] = IF req[b] = "error" THEN "error" ELSE "held"]
        /\ line' = line /\ opener' = opener
    BY <1>8, <1>12, <1>13
  <2>2. opener[c] = "begin" /\ req[b] \in {"sent", "error"}
    BY <1>0, <1>1, <1>12 DEF CallInv, Asked, b
  <2>3. /\ req'[r] = IF req[b] = "error" THEN "error" ELSE "held"
        /\ \A q \in Requests : q # r => req'[q] = req[q]
    BY <1>0, <1>1, <2>1
  <2>4. req'[b] = req[b]
    BY <1>0, <2>3
  <2>5. \A m \in Names : m # n => req'[<<c, m>>] = req[<<c, m>>]
    BY <1>18, <2>3
  <2>6. req[b] = "sent" => session # "lost"
    BY <1>0 DEF LineInv
  <2>8. Executed(c, n)
    BY <1>12, <2>1, <2>2, <2>3, <2>4, <2>5 DEF Executed, New, r, b
  <2>9. Puts(c, r)
    BY <1>0, <1>2, <2>1, <2>2, <2>3, <2>6 DEF Puts, New
  <2> QED BY <2>8, <2>9 DEF r, b
<1> QED BY <1>9, <1>10, <1>11, <1>12
-----------------------------------------------------------------------------
\* A call never goes back, and starts on an exclusive session when it is idle.
Onward(c) ==
  /\ active'[c] => active[c]
  /\ finish'[c] = "draining" => finish[c] = "draining" \/ active[c]
  /\ finish[c] # "none" => finish'[c] # "none"
  /\ ~concurrent /\ session # "lost" /\ Running(c)' => \A q \in Requests : In(q) => q[1] = c

\* c may send r.
Legal(c, r) ==
  /\ Running(c)' /\ ~Over(c) /\ ~Sent(c, "rollback")
  /\ Sent(c, "commit") => r[2] = "rollback"
  /\ Sent(c, "finish") => r[2] \in {"commit", "rollback"}
  /\ \A n \in Tasks : New(<<c, n>>) => active[c] \/ finish[c] = "draining"
  /\ r[2] \in Tasks \/ r[2] = "begin" => c \in Transactions /\ ~Sent(c, "commit") /\ ~Sent(c, "finish")
  /\ IF c \in Transactions THEN opener'[c] # "none" /\ r[2] # "query"
     ELSE opener[c] = "none" /\ r[2] = "query"

\* A step of c that sends.
Asks(c) ==
  /\ CallInv(c)' /\ (\A d \in Calls : d # c => Same(d)) /\ Onward(c)
  /\ \E r \in Requests : Puts(c, r) /\ Legal(c, r)

\* A statement of the callback.
LEMMA QueryAsks ==
  ASSUME Types, LineInv, Encodable, NEW c \in Calls, CallInv(c), Query(c)
  PROVE  Asks(c)
<1>1. /\ c \in Transactions /\ pc[c] \notin {"idle", "queued", "done"} /\ active[c]
      /\ UNCHANGED <<program, pc, told, tail, active, committed, finish, awaited, session, poisoned,
                     db, commits>>
  BY DEF Query, callVars, endVars, dbVars
<1>2. PICK k \in 1 .. program.issues : NextIs(c, k) /\ Execute(c, Statements[k])
  BY DEF Query
<1> DEFINE n == Statements[k]
<1>3. n \in ToSet(Statements) /\ k \in 1 .. k /\ k \in Nat
  <2>1. program.issues \in 0 .. Len(Statements) /\ Len(Statements) \in Nat
        /\ DOMAIN Statements = 1 .. Len(Statements)
    BY ProgramFacts, ClientAssumption DEF Types, CallTypes
  <2>2. k \in 1 .. Len(Statements)
    BY <2>1
  <2> QED BY <2>1, <2>2 DEF ToSet
<1>4. ~Sent(c, n)
  BY <1>2, <1>3 DEF NextIs, Sent
<1> HIDE DEF n
<1>5. n \in Tasks /\ n # "finish" /\ Execute(c, n)
  BY <1>2, <1>3, NameFacts DEF n
<1>6. finish[c] = "none" /\ pc[c] = "callback"
  BY <1>1 DEF CallInv, Phase
<1>7. Executed(c, n) /\ \E m \in {n, "begin"} : Puts(c, <<c, m>>)
  BY <1>1, <1>4, <1>5, ExecutePuts DEF Running
<1>8. PICK m \in {n, "begin"} : Puts(c, <<c, m>>)
  BY <1>7
<1>9. <<c, m>> \in Requests /\ <<c, m>>[1] = c /\ <<c, m>>[2] = m
  BY <1>5, NameFacts, RequestFacts
<1>10. ~Sent(c, "finish") /\ ~Sent(c, "commit") /\ ~Sent(c, "rollback") /\ ~Over(c)
  BY <1>6 DEF CallInv, Asked, Ending, Sent, Over, Got
<1>11. \A d \in Calls : d # c => Same(d)
  BY <1>1, <1>8, <1>9, RequestFacts DEF Puts, New, Same, Types, CallTypes
<1>12. Onward(c)
  BY <1>1 DEF Onward, Running, LineInv
<1>13. opener'[c] # "none"
  BY <1>5, <1>7, NameFacts DEF Executed
<1>14. Legal(c, <<c, m>>)
  BY <1>1, <1>5, <1>9, <1>10, <1>13, NameFacts DEF Legal, Running
<1>15. \A p \in Names : p # n /\ p # "begin" => req'[<<c, p>>] = req[<<c, p>>]
  BY <1>7 DEF Executed, New
<1>16. Transactions' = Transactions /\ c \in Transactions
  BY <1>1 DEF Transactions
<1>17. Phase(c)'
  BY <1>1, <1>6, <1>5, <1>15, <1>16, NameFacts DEF CallInv, Phase, Sent
<1>18. Asked(c)'
  <2>1. /\ finish'[c] = "none" /\ pc'[c] = "callback" /\ ~committed'[c]
        /\ ~Sent(c, "finish")' /\ (program.transactionStart => ~Sent(c, "begin")')
    BY <1>1, <1>5, <1>6, <1>7, <1>10, <1>15, NameFacts DEF CallInv, Asked, Executed, Sent, New
  <2>2. /\ req'[<<c, opener'[c]>>] \notin {"unsent", "held", "gated"}
        /\ IF program.transactionStart THEN opener'[c] \in Tasks ELSE opener'[c] = "begin"
    BY <1>4, <1>5, <1>7, <1>15, NameFacts DEF CallInv, Asked, Executed, Sent, New
  <2>3. ASSUME NEW p \in Names, req'[<<c, p>>] = "held"
        PROVE  p \in Tasks /\ opener'[c] = "begin" /\ req'[<<c, "begin">>] = "sent"
    BY <1>4, <1>5, <1>7, <1>15, <2>3, NameFacts DEF CallInv, Asked, Executed, Sent, New
  <2> QED BY <1>1, <1>13, <2>1, <2>2, <2>3 DEF Asked
<1>19. Ending(c)'
  BY <1>1, <1>5, <1>6, <1>10, <1>15, NameFacts DEF CallInv, Ending, Sent, Got
<1>20. Awaiting(c)'
  BY <1>1, <1>5, <1>6, <1>10, <1>15, NameFacts DEF CallInv, Awaiting, Sent, Waits
<1> QED BY <1>8, <1>9, <1>11, <1>12, <1>14, <1>17, <1>18, <1>19, <1>20 DEF Asks, CallInv

\* The statement given to finish().
LEMMA FinishExecutesAsks ==
  ASSUME Types, LineInv, Encodable, NEW c \in Calls, CallInv(c), FinishExecutes(c)
  PROVE  Asks(c)
<1> DEFINE n == "finish"
<1>1. /\ finish[c] = "draining" /\ finish' = [finish EXCEPT ![c] = "executing"]
      /\ UNCHANGED <<program, pc, told, tail, active, committed, awaited, session, poisoned,
                     db, commits>>
  BY DEF FinishExecutes, callVars, endVars, dbVars
<1>2. finish'[c] = "executing" /\ \A d \in Calls : d # c => finish'[d] = finish[d]
  BY <1>1 DEF Types, CallTypes
<1>3. n \in Tasks /\ Execute(c, n)
  BY NameFacts DEF FinishExecutes
<1>4. ~Sent(c, n)
  BY <1>1 DEF CallInv, Asked
<1>5. \A p \in Tasks : ~Waits(c, p)
  <2>1. \A p \in Tasks : <<c, p>> \in Work(c)
    BY DEF Work, Tasks
  <2>2. \A r \in awaited[c] : req[r] = "ok"
    BY DEF FinishExecutes, Succeeded
  <2> QED BY <1>1, <2>1, <2>2 DEF CallInv, Awaiting, Waits
<1>6. c \in Transactions /\ ~active[c] /\ Running(c)
  BY <1>1, ClientAssumption DEF CallInv, Phase, Asked, Running, Types, CallTypes
<1>7. Executed(c, n) /\ \E m \in {n, "begin"} : Puts(c, <<c, m>>)
  BY <1>1, <1>3, <1>4, <1>6, ExecutePuts
<1>8. PICK m \in {n, "begin"} : Puts(c, <<c, m>>)
  BY <1>7
<1>9. <<c, m>> \in Requests /\ <<c, m>>[1] = c /\ <<c, m>>[2] = m
  BY NameFacts, RequestFacts
<1>10. ~Sent(c, "finish") /\ ~Sent(c, "commit") /\ ~Sent(c, "rollback") /\ ~Over(c)
  BY <1>1 DEF CallInv, Asked, Ending, Sent, Over, Got
<1>11. \A d \in Calls : d # c => Same(d)
  BY <1>1, <1>2, <1>8, <1>9, RequestFacts DEF Puts, New, Same
<1>12. Onward(c)
  BY <1>1, <1>2, <1>6 DEF Onward, Running, LineInv
<1>13. opener'[c] # "none"
  BY <1>7 DEF Executed
<1>14. Legal(c, <<c, m>>)
  BY <1>1, <1>6, <1>9, <1>10, <1>13, NameFacts DEF Legal, Running
<1>15. \A p \in Names : p # n /\ p # "begin" => req'[<<c, p>>] = req[<<c, p>>]
  BY <1>7 DEF Executed, New
<1>16. Transactions' = Transactions
  BY <1>1 DEF Transactions
<1>17. Phase(c)'
  BY <1>1, <1>2, <1>6, <1>15, <1>16, NameFacts DEF CallInv, Phase, Sent, Over, Got, Running
<1>18. Asked(c)'
  BY <1>1, <1>2, <1>3, <1>7, <1>13, <1>15, NameFacts DEF CallInv, Asked, Executed, Sent, Got,
       New
<1>19. Ending(c)'
  BY <1>1, <1>2, <1>10, <1>15, NameFacts DEF CallInv, Ending, Sent, Got
<1>20. Awaiting(c)'
  BY <1>1, <1>2, <1>5, <1>10, <1>15, NameFacts DEF Awaiting, Sent, Waits
<1> QED BY <1>8, <1>9, <1>11, <1>12, <1>14, <1>17, <1>18, <1>19, <1>20 DEF Asks, CallInv
\* A request that needs no BEGIN.
LEMMA SendPuts ==
  ASSUME Types, LineInv, NEW c \in Calls, NEW n \in Names, ~Sent(c, n), Send(<<c, n>>, req),
         UNCHANGED <<program, db, commits, session, poisoned, opener>>
  PROVE  /\ Puts(c, <<c, n>>) /\ req'[<<c, n>>] \in {"gated", "sent", "error"}
         /\ \A q \in Requests : q # <<c, n>> => req'[q] = req[q]
<1> DEFINE r == <<c, n>>
           v == IF Refusing THEN "error" ELSE IF Blocked(r, Late) THEN "gated" ELSE "sent"
<1>1. v \in {"error", "gated", "sent"} /\ (v = "error" <=> Refusing)
  OBVIOUS
<1>2. r \in Requests /\ r[1] = c /\ r[2] = n /\ req[r] = "unsent"
  BY RequestFacts DEF Sent
<1>3. req' = [req EXCEPT ![r] = v] /\ line' = IF Refusing THEN line ELSE Append(line, r)
  BY DEF Send
<1> HIDE DEF r, v
<1>4. req'[r] = v /\ \A q \in Requests : q # r => req'[q] = req[q]
  BY <1>2, <1>3 DEF Types, WireTypes
<1>5. Puts(c, r)
  BY <1>1, <1>2, <1>3, <1>4 DEF Puts, New, Refusing
<1> QED BY <1>1, <1>4, <1>5 DEF r

\* Sending the query, the COMMIT or the ROLLBACK changes nothing of the statements.
LEMMA AskedStays ==
  ASSUME NEW c \in Calls, CallInv(c), UNCHANGED <<program, opener>>,
         NEW n \in {"query", "commit", "rollback"}, n # "query" => opener[c] # "none",
         req'[<<c, n>>] # "held",
         \A p \in Names : p # n => req'[<<c, p>>] = req[<<c, p>>],
         finish'[c] \in {"none", "draining"} => finish[c] \in {"none", "draining"},
         finish'[c] \in {"committing", "ok"} => Got(c, "finish"),
         pc'[c] \in {"committing", "rollingBack", "retiring", "done"}
           => finish'[c] \in {"none", "ok", "failed"},
         committed'[c] <=> finish'[c] = "ok"
  PROVE  Asked(c)'
<1>1. opener[c] # "none" => opener[c] \in Names /\ opener[c] # n
  BY NameFacts DEF CallInv, Asked
<1>2. opener[c] # "none" => req'[<<c, opener[c]>>] = req[<<c, opener[c]>>]
  BY <1>1
<1>3. \A p \in Names : req'[<<c, p>>] = "held" => req[<<c, p>>] = "held"
  OBVIOUS
<1>4. req'[<<c, "begin">>] = req[<<c, "begin">>] /\ req'[<<c, "finish">>] = req[<<c, "finish">>]
  BY NameFacts
<1>5. \A p \in Names \ {"query"} : p # n => req'[<<c, p>>] = req[<<c, p>>]
  OBVIOUS
<1> QED BY <1>2, <1>3, <1>4, <1>5 DEF CallInv, Asked, Sent, Got

\* A query outside any transaction.
LEMMA StartQueryAsks ==
  ASSUME Types, LineInv, TailInv, NEW c \in Calls, CallInv(c), StartQuery(c)
  PROVE  Asks(c)
<1> DEFINE n == "query"
<1>1. /\ c \notin Transactions /\ pc[c] = "queued" /\ pc' = [pc EXCEPT ![c] = "asking"]
      /\ UNCHANGED <<program, told, tail, active, opener, committed, finish, awaited, session,
                     poisoned, db, commits>>
      /\ Send(<<c, n>>, req)
  BY DEF StartQuery, MayStart, txVars, endVars, dbVars
<1>2. pc'[c] = "asking" /\ \A d \in Calls : d # c => pc'[d] = pc[d]
  BY <1>1 DEF Types, CallTypes
<1>3. ~Sent(c, n) /\ n \in Names
  BY <1>1, NameFacts DEF CallInv, Phase
<1>4. /\ Puts(c, <<c, n>>) /\ req'[<<c, n>>] \in {"gated", "sent", "error"}
      /\ \A q \in Requests : q # <<c, n>> => req'[q] = req[q]
  BY <1>1, <1>3, SendPuts
<1>5. /\ <<c, n>> \in Requests /\ <<c, n>>[1] = c /\ <<c, n>>[2] = n
      /\ \A p \in Names : p # n => req'[<<c, p>>] = req[<<c, p>>]
  BY <1>3, <1>4, RequestFacts
<1>6. \A d \in Calls : d # c => Same(d)
  BY <1>1, <1>2, <1>4, RequestFacts DEF Same
<1>7. ~concurrent /\ session # "lost" => \A q \in Requests : ~In(q)
  <2>1. line = <<>> => ToSet(line) = {}
    BY DEF ToSet
  <2> QED BY <2>1 DEF StartQuery, MayStart, Idle, In, LineInv
<1>8. Onward(c)
  BY <1>1, <1>7 DEF Onward, CallInv, Phase
<1>9. \A p \in Names : p # "query" => ~Sent(c, p)
  BY <1>1 DEF CallInv, Phase, Asked
<1>10. Legal(c, <<c, n>>)
  BY <1>1, <1>2, <1>3, <1>5, <1>9, NameFacts DEF Legal, Running, Over, Sent, Got, New, CallInv,
       Phase
<1>11. Transactions' = Transactions
  BY <1>1 DEF Transactions
<1>12. Phase(c)'
  BY <1>1, <1>2, <1>11 DEF CallInv, Phase
<1>13. Asked(c)'
  BY <1>1, <1>2, <1>4, <1>5, AskedStays DEF CallInv, Asked
<1>14. Ending(c)'
  BY <1>1, <1>2, <1>5, <1>9, NameFacts DEF CallInv, Ending, Sent, Got
<1>15. Awaiting(c)'
  BY <1>1, <1>5, <1>9, NameFacts DEF Awaiting, Sent, Waits
<1> QED BY <1>4, <1>5, <1>6, <1>8, <1>10, <1>12, <1>13, <1>14, <1>15 DEF Asks, CallInv

\* The COMMIT that finish() sends.
LEMMA FinishCommitsAsks ==
  ASSUME Types, LineInv, NEW c \in Calls, CallInv(c), FinishCommits(c)
  PROVE  Asks(c)
<1> DEFINE n == "commit"
<1>1. /\ finish[c] = "executing" /\ finish' = [finish EXCEPT ![c] = "committing"]
      /\ Got(c, "finish") /\ ~program.transactionEnd
      /\ UNCHANGED <<program, pc, told, tail, active, opener, committed, awaited, session,
                     poisoned, db, commits>>
      /\ Send(<<c, n>>, req)
  BY DEF FinishCommits, Succeeded, Got, callVars, endVars, dbVars
<1>2. finish'[c] = "committing" /\ \A d \in Calls : d # c => finish'[d] = finish[d]
  BY <1>1 DEF Types, CallTypes
<1>3. ~Sent(c, n) /\ ~Sent(c, "rollback") /\ ~Over(c) /\ n \in Names
  BY <1>1, NameFacts DEF CallInv, Ending, Over, Got, Sent
<1>4. /\ Puts(c, <<c, n>>) /\ req'[<<c, n>>] \in {"gated", "sent", "error"}
      /\ \A q \in Requests : q # <<c, n>> => req'[q] = req[q]
  BY <1>1, <1>3, SendPuts
<1>5. /\ <<c, n>> \in Requests /\ <<c, n>>[1] = c /\ <<c, n>>[2] = n
      /\ \A p \in Names : p # n => req'[<<c, p>>] = req[<<c, p>>]
  BY <1>3, <1>4, RequestFacts
<1>6. \A d \in Calls : d # c => Same(d)
  BY <1>1, <1>2, <1>4, RequestFacts DEF Same
<1>7. c \in Transactions /\ ~active[c] /\ Running(c) /\ opener[c] # "none"
  BY <1>1, NameFacts DEF CallInv, Phase, Asked, Running, Types, CallTypes, Got, Sent
<1>8. Onward(c)
  BY <1>1, <1>2, <1>7 DEF Onward, Running, LineInv
<1>9. \A p \in Tasks : ~Waits(c, p)
  BY <1>1, NameFacts DEF CallInv, Awaiting, Waits, Got, Sent
<1>10. Legal(c, <<c, n>>)
  BY <1>1, <1>3, <1>5, <1>7, NameFacts DEF Legal, Running, New
<1>11. Transactions' = Transactions
  BY <1>1 DEF Transactions
<1>12. Phase(c)'
  BY <1>1, <1>2, <1>5, <1>7, <1>11, NameFacts DEF CallInv, Phase, Sent, Got, Over, Running
<1>13. Asked(c)'
  BY <1>1, <1>2, <1>4, <1>5, <1>7, AskedStays DEF CallInv, Asked, Running
<1>14. Ending(c)'
  BY <1>1, <1>2, <1>3, <1>5, NameFacts DEF Ending, Sent, Got
<1>15. Awaiting(c)'
  BY <1>5, <1>9, NameFacts DEF Awaiting, Waits
<1> QED BY <1>4, <1>5, <1>6, <1>8, <1>10, <1>12, <1>13, <1>14, <1>15 DEF Asks, CallInv

\* The COMMIT after the callback.
LEMMA CommitAsks ==
  ASSUME Types, LineInv, NEW c \in Calls, CallInv(c), CommitsOrReturns(c),
         started(c) /\ ~committed[c]
  PROVE  Asks(c)
<1> DEFINE n == "commit"
<1>1. /\ pc[c] = "draining" /\ pc' = [pc EXCEPT ![c] = "committing"]
      /\ opener[c] # "none" /\ ~committed[c] /\ Drained(c)
      /\ UNCHANGED <<program, told, tail, active, opener, committed, finish, awaited, session,
                     poisoned, db, commits>>
      /\ Send(<<c, n>>, req)
  BY DEF CommitsOrReturns, Drained, started, txVars, endVars, dbVars
<1>2. pc'[c] = "committing" /\ \A d \in Calls : d # c => pc'[d] = pc[d]
  BY <1>1 DEF Types, CallTypes
<1>16. finish[c] = "none" /\ \A r \in awaited[c] : req[r] = "ok"
  BY <1>1 DEF CallInv, Asked, Drained, Succeeded
<1>3. ~Sent(c, n) /\ ~Sent(c, "rollback") /\ ~Sent(c, "finish") /\ ~Over(c) /\ n \in Names
  BY <1>1, <1>16, NameFacts DEF CallInv, Asked, Ending, Over, Got, Sent
<1>4. /\ Puts(c, <<c, n>>) /\ req'[<<c, n>>] \in {"gated", "sent", "error"}
      /\ \A q \in Requests : q # <<c, n>> => req'[q] = req[q]
  BY <1>1, <1>3, SendPuts
<1>5. /\ <<c, n>> \in Requests /\ <<c, n>>[1] = c /\ <<c, n>>[2] = n
      /\ \A p \in Names : p # n => req'[<<c, p>>] = req[<<c, p>>]
  BY <1>3, <1>4, RequestFacts
<1>6. \A d \in Calls : d # c => Same(d)
  BY <1>1, <1>2, <1>4, RequestFacts DEF Same
<1>7. c \in Transactions /\ ~active[c] /\ Running(c)
  BY <1>1 DEF CallInv, Phase, Running, Types, CallTypes
<1>8. Onward(c)
  BY <1>1, <1>2, <1>7 DEF Onward, Running, LineInv
<1>9. \A p \in Tasks : ~Waits(c, p)
  BY <1>1, <1>16, NameFacts DEF CallInv, Awaiting, Waits
<1>10. Legal(c, <<c, n>>)
  BY <1>1, <1>2, <1>3, <1>5, <1>7, NameFacts DEF Legal, Running, New
<1>11. Transactions' = Transactions
  BY <1>1 DEF Transactions
<1>12. Phase(c)'
  BY <1>1, <1>2, <1>5, <1>7, <1>11, NameFacts DEF CallInv, Phase, Sent
<1>13. Asked(c)'
  BY <1>1, <1>2, <1>4, <1>5, <1>16, AskedStays DEF CallInv, Asked
<1>14. Ending(c)'
  BY <1>1, <1>2, <1>3, <1>5, <1>16, NameFacts DEF CallInv, Ending, Sent, Got
<1>15. Awaiting(c)'
  BY <1>5, <1>9, NameFacts DEF Awaiting, Waits
<1> QED BY <1>4, <1>5, <1>6, <1>8, <1>10, <1>12, <1>13, <1>14, <1>15 DEF Asks, CallInv

\* The ROLLBACK after a failure.
LEMMA RollbackAsks ==
  ASSUME Types, LineInv, NEW c \in Calls, CallInv(c), RollsBackOrThrows(c),
         started(c) /\ ~committed[c]
  PROVE  Asks(c)
<1> DEFINE n == "rollback"
<1>1. /\ pc[c] = "settling" /\ pc' = [pc EXCEPT ![c] = "rollingBack"]
      /\ opener[c] # "none" /\ ~committed[c] /\ Pending(c) = {}
      /\ finish[c] \in {"none", "ok", "failed"}
      /\ UNCHANGED <<program, told, tail, active, opener, committed, finish, awaited, session,
                     poisoned, db, commits>>
      /\ Send(<<c, n>>, req)
  BY DEF RollsBackOrThrows, Settled, started, txVars, endVars, dbVars
<1>2. pc'[c] = "rollingBack" /\ \A d \in Calls : d # c => pc'[d] = pc[d]
  BY <1>1 DEF Types, CallTypes
<1>16. finish[c] \in {"none", "failed"} /\ req[<<c, "commit">>] \in {"unsent", "error"}
  BY <1>1, NameFacts, RequestFacts DEF CallInv, Asked, Ending, Sent, Got, Types, WireTypes
<1>3. ~Sent(c, n) /\ ~Over(c) /\ n \in Names
  BY <1>1, <1>16, NameFacts, ProgramFacts DEF CallInv, Asked, Ending, Over, Got, Sent, Types,
       CallTypes
<1>4. /\ Puts(c, <<c, n>>) /\ req'[<<c, n>>] \in {"gated", "sent", "error"}
      /\ \A q \in Requests : q # <<c, n>> => req'[q] = req[q]
  BY <1>1, <1>3, SendPuts
<1>5. /\ <<c, n>> \in Requests /\ <<c, n>>[1] = c /\ <<c, n>>[2] = n
      /\ \A p \in Names : p # n => req'[<<c, p>>] = req[<<c, p>>]
  BY <1>3, <1>4, RequestFacts
<1>6. \A d \in Calls : d # c => Same(d)
  BY <1>1, <1>2, <1>4, RequestFacts DEF Same
<1>7. c \in Transactions /\ ~active[c] /\ Running(c)
  BY <1>1 DEF CallInv, Phase, Running, Types, CallTypes
<1>8. Onward(c)
  BY <1>1, <1>2, <1>7 DEF Onward, Running, LineInv
<1>9. \A p \in Tasks : ~Waits(c, p)
  <2>1. \A p \in Tasks : <<c, p>> \in Work(c)
    BY DEF Work, Tasks
  <2> QED BY <1>1, <2>1 DEF Pending, Waits
<1>10. Legal(c, <<c, n>>)
  BY <1>1, <1>2, <1>3, <1>5, <1>7, NameFacts DEF Legal, Running, New
<1>11. Transactions' = Transactions
  BY <1>1 DEF Transactions
<1>12. Phase(c)'
  BY <1>1, <1>2, <1>5, <1>7, <1>11, NameFacts DEF CallInv, Phase, Sent
<1>13. Asked(c)'
  BY <1>1, <1>2, <1>4, <1>5, <1>16, AskedStays DEF CallInv, Asked
<1>14. Ending(c)'
  BY <1>1, <1>2, <1>3, <1>5, <1>16, NameFacts DEF CallInv, Ending, Sent, Got
<1>15. Awaiting(c)'
  BY <1>5, <1>9, NameFacts DEF Awaiting, Waits
<1> QED BY <1>4, <1>5, <1>6, <1>8, <1>10, <1>12, <1>13, <1>14, <1>15 DEF Asks, CallInv
\* The ends of a call that has nothing to commit or to roll back.
LEMMA ReturnSteps ==
  ASSUME Types, NEW c \in Calls, CallInv(c), ~(started(c) /\ ~committed[c]),
         CommitsOrReturns(c) \/ RollsBackOrThrows(c)
  PROVE  /\ CallInv(c)' /\ (\A d \in Calls : d # c => Same(d))
         /\ UNCHANGED <<program, opener, req, line, db, commits, session, poisoned>>
         /\ pc'[c] = "done" /\ (opener[c] = "none" \/ Over(c))
         /\ UNCHANGED <<active, finish>>
<1>1. \E outcome \in {"ok", "error"} :
        /\ pc[c] \in {"draining", "settling"} /\ finish[c] \in {"none", "ok", "failed"}
        /\ opener[c] = "none" \/ committed[c]
        /\ UNCHANGED <<program, active, opener, committed, finish, awaited, session, poisoned,
                       db, commits, req, line>>
        /\ pc' = [pc EXCEPT ![c] = "done"] /\ told' = [told EXCEPT ![c] = outcome]
  BY DEF CommitsOrReturns, RollsBackOrThrows, Drained, Settled, Done, started, txVars, endVars,
         dbVars, wireVars
<1>2. PICK outcome \in {"ok", "error"} :
        /\ pc[c] \in {"draining", "settling"} /\ finish[c] \in {"none", "ok", "failed"}
        /\ opener[c] = "none" \/ committed[c]
        /\ UNCHANGED <<program, active, opener, committed, finish, awaited, session, poisoned,
                       db, commits, req, line>>
        /\ pc' = [pc EXCEPT ![c] = "done"] /\ told' = [told EXCEPT ![c] = outcome]
  BY <1>1
<1>3. /\ pc'[c] = "done" /\ told'[c] = outcome
      /\ \A d \in Calls : d # c => pc'[d] = pc[d] /\ told'[d] = told[d]
  BY <1>2 DEF Types, CallTypes
<1>4. \A d \in Calls : d # c => Same(d)
  BY <1>2, <1>3 DEF Same
<1>5. opener[c] = "none" \/ Over(c)
  BY <1>2 DEF CallInv, Asked, Ending, Over
<1>6. Transactions' = Transactions /\ c \in Transactions
  BY <1>2 DEF Transactions, CallInv, Phase
<1>7. Phase(c)'
  BY <1>2, <1>3, <1>5, <1>6 DEF CallInv, Phase, Over, Sent, Got
<1>8. Asked(c)'
  BY <1>2, <1>3 DEF CallInv, Asked, Sent, Got
<1>9. Ending(c)'
  BY <1>2, <1>3, <1>5, NameFacts DEF CallInv, Asked, Ending, Sent, Got
<1>10. Awaiting(c)'
  BY <1>2, <1>3 DEF CallInv, Awaiting, Sent, Waits
<1> QED BY <1>2, <1>3, <1>4, <1>5, <1>7, <1>8, <1>9, <1>10 DEF CallInv

-----------------------------------------------------------------------------
(***************************************************************************)
(* Steps that leave the requests and the database alone.                   *)
(***************************************************************************)
Quiet ==
  /\ UNCHANGED <<program, opener, req, line, db, commits>>
  /\ session' = session \/ (session = "open" /\ session' = "closing")
  /\ poisoned' => session' # "open"
  /\ \A d \in Calls :
       /\ CallInv(d)' /\ Onward(d)
       /\ d \in Transactions /\ session \in {"open", "closing"} /\ pc'[d] = "done" =>
            pc[d] = "done" \/ opener[d] = "none" \/ Over(d)

\* A call that has not changed has not gone back.
LEMMA SameOnward ==
  ASSUME NEW d \in Calls, Same(d), LineInv
  PROVE  Onward(d) /\ (pc'[d] = "done" => pc[d] = "done")
BY DEF Same, Onward, LineInv, Running

\* The steps of a call that send nothing.
LEMMA QuietCall ==
  ASSUME Types, LineInv, TailInv, NEW c \in Calls, \A d \in Calls : CallInv(d),
         \/ Call(c) \/ EndQuery(c) \/ StartTransaction(c) \/ Finish(c) \/ FinishFails(c)
         \/ Finished(c) \/ Return(c) \/ Throw(c) \/ Committed(c) \/ Catches(c)
         \/ RolledBack(c) \/ Retired(c)
  PROVE  Quiet
<1> USE DEF Types, CallTypes, DbTypes
<1>0. CallInv(c)' /\ (\A d \in Calls : d # c => Same(d)) /\ CallInv(c)
  BY CallSteps
<1>1. UNCHANGED <<program, opener, req, line, db, commits, session, poisoned>>
  BY DEF Call, EndQuery, StartTransaction, Finish, FinishFails, Finished, Return, Throw,
       Committed,
         Catches, RolledBack, Retired, callVars, txVars, endVars, wireVars, dbVars
<1>2. \A d \in Calls : d # c => CallInv(d)' /\ Onward(d) /\ (pc'[d] = "done" => pc[d] = "done")
  BY <1>0, SameCall, SameOnward
<1>3. /\ active'[c] => active[c]
      /\ finish'[c] = "draining" => finish[c] = "draining" \/ active[c]
      /\ finish[c] # "none" => finish'[c] # "none"
  <2>1. Call(c) \/ EndQuery(c) \/ StartTransaction(c) \/ Committed(c) \/ Catches(c) \/ RolledBack(c)
          \/ Retired(c) => UNCHANGED <<active, finish>>
    BY DEF Call, EndQuery, StartTransaction, Committed, Catches, RolledBack, Retired, txVars
  <2>2. CASE Finish(c)
    BY <2>2 DEF Finish
  <2>3. CASE FinishFails(c)
    BY <2>3 DEF FinishFails
  <2>4. CASE Finished(c)
    BY <2>4 DEF Finished
  <2>5. CASE Return(c)
    BY <2>5 DEF Return
  <2>6. CASE Throw(c)
    BY <2>6 DEF Throw
  <2> QED BY <2>1, <2>2, <2>3, <2>4, <2>5, <2>6
<1>4. Running(c)' => Running(c) \/ MayStart(c)
  <2>1. CASE Call(c)
    BY <2>1 DEF Call, Running
  <2>2. CASE StartTransaction(c)
    BY <2>2 DEF StartTransaction
  <2>3. pc[c] = "done" => pc'[c] = "done"
    BY <1>0 DEF Call, EndQuery, StartTransaction, Finish, FinishFails, Finished, Return, Throw,
            Committed, Catches, RolledBack, Retired, CallInv, Phase, MayStart, Asked, callVars
  <2>4. ~Call(c) /\ ~StartTransaction(c) => Running(c) \/ pc[c] = "done"
    BY <1>0 DEF EndQuery, Finish, FinishFails, Finished, Return, Throw,
            Committed, Catches, RolledBack, Retired, CallInv, Phase, Running
  <2> QED BY <2>1, <2>2, <2>3, <2>4 DEF Running
<1>5. ~concurrent /\ session # "lost" /\ MayStart(c) => \A q \in Requests : ~In(q)
  <2>1. line = <<>> => ToSet(line) = {}
    BY DEF ToSet
  <2> QED BY <2>1 DEF MayStart, Idle, In, LineInv
<1>6. Onward(c)
  BY <1>3, <1>4, <1>5 DEF Onward, LineInv
<1>7. c \in Transactions /\ session \in {"open", "closing"} /\ pc'[c] = "done" =>
        pc[c] = "done" \/ opener[c] = "none" \/ Over(c)
  <2>1. CASE Call(c)
    BY <1>0, <2>1 DEF Call, CallInv, Phase
  <2>2. CASE EndQuery(c)
    BY <1>0, <2>2 DEF EndQuery, CallInv, Phase
  <2>3. CASE Committed(c)
    BY <2>3 DEF Committed, Succeeded, Over, Got
  <2>4. CASE RolledBack(c)
    BY <2>4 DEF RolledBack, Succeeded, Over, Got
  <2>5. CASE Retired(c)
    BY <2>5 DEF Retired
  <2>6. StartTransaction(c) \/ Finish(c) \/ FinishFails(c) \/ Finished(c) \/ Return(c) \/ Throw(c)
          \/ Catches(c) => (pc'[c] = "done" => pc[c] = "done")
    BY DEF StartTransaction, Finish, FinishFails, Finished, Return, Throw, Catches, callVars
  <2> QED BY <2>1, <2>2, <2>3, <2>4, <2>5, <2>6
<1>8. poisoned' => session' # "open"
  BY <1>1 DEF LineInv
<1> QED BY <1>0, <1>1, <1>2, <1>6, <1>7, <1>8 DEF Quiet

\* The ends of a call that send nothing.
LEMMA QuietReturn ==
  ASSUME Types, LineInv, NEW c \in Calls, \A d \in Calls : CallInv(d),
         ~(started(c) /\ ~committed[c]), CommitsOrReturns(c) \/ RollsBackOrThrows(c)
  PROVE  Quiet
<1>1. /\ CallInv(c)' /\ (\A d \in Calls : d # c => Same(d))
      /\ UNCHANGED <<program, opener, req, line, db, commits, session, poisoned>>
      /\ pc'[c] = "done" /\ (opener[c] = "none" \/ Over(c))
      /\ UNCHANGED <<active, finish>>
  BY ReturnSteps
<1>2. \A d \in Calls : d # c => CallInv(d)' /\ Onward(d) /\ (pc'[d] = "done" => pc[d] = "done")
  BY <1>1, SameCall, SameOnward
<1>3. Onward(c)
  BY <1>1 DEF Onward, Running
<1> QED BY <1>1, <1>2, <1>3 DEF Quiet, LineInv

\* The session begins to close.
LEMMA QuietSession ==
  ASSUME Types, LineInv, \A d \in Calls : CallInv(d),
         (\E c \in Calls : Retires(c)) \/ CallClose \/ StartClose \/ EndClose
  PROVE  Quiet
<1>1. /\ UNCHANGED <<program, told, active, opener, committed, finish, awaited, req, line, db, commits>>
      /\ session' = session \/ (session = "open" /\ session' = "closing")
      /\ poisoned' => poisoned \/ session' # "open"
  <2>1. CASE \E c \in Calls : Retires(c)
    BY <2>1 DEF Retires, CloseSession, txVars, wireVars, dbVars
  <2>2. CASE CallClose
    BY <2>2 DEF CallClose, txVars, wireVars, dbVars
  <2>3. CASE StartClose
    BY <2>3 DEF StartClose, CloseSession, callVars, txVars, wireVars, dbVars
  <2>4. CASE EndClose
    BY <2>4 DEF EndClose, callVars, txVars, wireVars, dbVars
  <2> QED BY <2>1, <2>2, <2>3, <2>4
<1>2. CASE pc' = pc
  <2>1. \A d \in Calls : Same(d)
    BY <1>1, <1>2 DEF Same
  <2> QED BY <1>1, <2>1, SameCall, SameOnward DEF Quiet, LineInv
<1>3. CASE \E c \in Calls : Retires(c)
  <2>1. PICK c \in Calls : Retires(c)
    BY <1>3
  <2>2. /\ pc[c] = "rollingBack" /\ pc'[c] = "retiring" /\ \A d \in Calls : d # c => pc'[d] = pc[d]
    BY <2>1 DEF Retires, Types, CallTypes
  <2>3. \A d \in Calls : d # c => Same(d)
    BY <1>1, <2>2 DEF Same
  <2>4. Transactions' = Transactions
    BY <1>1 DEF Transactions
  <2>5. CallInv(c)' 
    <3>1. Phase(c)'
      BY <1>1, <2>2, <2>4 DEF CallInv, Phase, Sent, Got, Over
    <3>2. Asked(c)'
      BY <1>1, <2>2 DEF CallInv, Asked, Sent, Got
    <3>3. Ending(c)'
      BY <1>1, <2>2 DEF CallInv, Ending, Sent, Got
    <3>4. Awaiting(c)'
      BY <1>1, <2>2 DEF CallInv, Awaiting, Sent, Waits
    <3> QED BY <3>1, <3>2, <3>3, <3>4 DEF CallInv
  <2>6. Onward(c)
    BY <1>1, <2>2 DEF Onward, Running, LineInv
  <2>7. \A d \in Calls : d # c => CallInv(d)' /\ Onward(d) /\ (pc'[d] = "done" => pc[d] = "done")
    BY <2>3, SameCall, SameOnward
  <2> QED BY <1>1, <2>2, <2>5, <2>6, <2>7 DEF Quiet, LineInv
<1>4. pc' = pc \/ \E c \in Calls : Retires(c)
  BY DEF CallClose, StartClose, EndClose, callVars
<1> QED BY <1>2, <1>3, <1>4

\* They keep every part of the invariant.
LEMMA QuietKeeps ==
  ASSUME ClientInv, Types', Quiet
  PROVE  /\ LineInv' /\ OrderInv' /\ DoneInv' /\ HolderInv' /\ OpenInv' /\ CommitInv' /\ KeepInv'
<1> USE DEF ClientInv
<1>1. /\ UNCHANGED <<program, opener, req, line, db, commits>>
      /\ session' = session \/ (session = "open" /\ session' = "closing")
      /\ poisoned' => session' # "open"
  BY DEF Quiet
<1>2. /\ concurrent' = concurrent /\ Transactions' = Transactions
      /\ \A r : In(r)' = In(r)
      /\ \A c \in Calls : Over(c)' = Over(c) /\ LaneOf(c)' = LaneOf(c) /\ Ended(c)' = Ended(c)
                          /\ Durable(c)' = Durable(c) /\ Whole(c)' = Whole(c)
                          /\ Confirmed(c)' = Confirmed(c)
      /\ \A r \in Requests : Lane(r)' = Lane(r)
      /\ \A c \in Calls, l \in Lanes : Holds(c, l)' = Holds(c, l)
  BY <1>1 DEF concurrent, Transactions, In, Over, LaneOf, Ended, Durable, Whole, Confirmed,
       Lane,
              Holds, Sent, Got
<1>3. LineInv'
  <2>1. \A r \in Requests : In(r)' => req'[r] \in {"gated", "sent", "error"} /\ ~Over(r[1])'
    BY <1>1, <1>2, RequestFacts DEF LineInv
  <2>2. \A c \in Calls : ~concurrent /\ session # "lost" /\ Running(c)' =>
          \A r \in Requests : In(r) => r[1] = c
    BY DEF Quiet, Onward
  <2>3. session' # "lost" => session # "lost"
    BY <1>1
  <2>4. /\ session' = "closed" => session = "closed"
        /\ session' = "lost" => session = "lost"
    BY <1>1
  <2> QED BY <1>1, <1>2, <2>1, <2>2, <2>3, <2>4 DEF LineInv
<1>4. OrderInv'
  BY <1>1 DEF OrderInv, In, Got
<1>5. DoneInv'
  BY <1>1, <1>2 DEF DoneInv, Quiet, Transactions
<1>6. HolderInv'
  BY <1>1, <1>2 DEF HolderInv
<1>7. OpenInv'
  BY <1>1, <1>2 DEF OpenInv, Transactions
<1>8. CommitInv'
  <2>1. \A c \in Calls : Spent(c) => Spent(c)'
    BY <1>1, <1>2 DEF Spent, Quiet, Onward, Waits
  <2>2. \A c \in Calls : Durable(c) =>
       IF c \in Transactions
       THEN /\ opener[c] # "none" /\ ~In(<<c, opener[c]>>)
            /\ Sent(c, "commit")' \/ finish'[c] # "none"
       ELSE Sent(c, "query")' /\ ~In(<<c, "query">>)
    BY <1>1 DEF CommitInv, Quiet, Onward, Sent
  <2> QED BY <1>1, <1>2, <2>1, <2>2 DEF CommitInv, Got
<1>9. KeepInv'
  BY <1>1, <1>2 DEF KeepInv, Got
<1> QED BY <1>3, <1>4, <1>5, <1>6, <1>7, <1>8, <1>9
-----------------------------------------------------------------------------
(***************************************************************************)
(* Steps that send.                                                        *)
(***************************************************************************)

\* What a sending step leaves as it was.
LEMMA PutsFacts ==
  ASSUME ClientInv, Types', NEW c \in Calls, NEW r \in Requests, Puts(c, r), Legal(c, r), Asks(c)
  PROVE  /\ concurrent' = concurrent /\ Transactions' = Transactions
         /\ \A d \in Calls : LaneOf(d)' = LaneOf(d) /\ Over(d)' = Over(d)
         /\ \A d \in Calls, n \in Names : Got(d, n)' = Got(d, n) /\ (Sent(d, n) => Sent(d, n)')
         /\ \A q \in Requests : Lane(q)' = Lane(q) /\ (req[q] # "unsent" => req'[q] = req[q])
         /\ \A q \in Requests : In(q) => In(q)' /\ req[q] # "unsent"
         /\ \A q \in Requests : In(q)' => In(q) \/ (q = r /\ New(r) /\ session = "open")
         /\ \A d \in Calls : opener[d] # "none" =>
              opener'[d] = opener[d] /\ <<d, opener[d]>> \in Requests
              /\ req[<<d, opener[d]>>] # "unsent"
<1> USE DEF ClientInv
<1>1. /\ UNCHANGED <<program, db, commits, session, poisoned>>
      /\ \A q \in Requests : New(q) => req[q] = "unsent" /\ req'[q] \in {"held", "gated", "sent", "error"}
      /\ \A d \in Calls : d # c => opener'[d] = opener[d]
      /\ opener'[c] = opener[c] \/ opener[c] = "none"
  BY DEF Puts
<1>2. concurrent' = concurrent /\ Transactions' = Transactions
  BY <1>1 DEF concurrent, Transactions
<1>3. \A q \in Requests : Lane(q)' = Lane(q) /\ (req[q] # "unsent" => req'[q] = req[q])
  BY <1>1, <1>2 DEF Lane, New
<1>4. \A d \in Calls, n \in Names : Got(d, n)' = Got(d, n) /\ (Sent(d, n) => Sent(d, n)')
  BY <1>1, RequestFacts DEF Got, Sent, New
<1>5. \A d \in Calls : LaneOf(d)' = LaneOf(d) /\ Over(d)' = Over(d)
  BY <1>1, <1>2, <1>4, NameFacts DEF LaneOf, Over
<1>6. \/ line' = line
      \/ line' = Append(line, r) /\ New(r) /\ session = "open"
  BY DEF Puts
<1>7. ToSet(line') \in {ToSet(line), ToSet(line) \cup {r}}
      /\ (ToSet(line') # ToSet(line) => New(r) /\ session = "open")
  <2>1. ToSet(Append(line, r)) = ToSet(line) \cup {r}
    BY AppendMembers DEF Types, WireTypes
  <2> QED BY <1>6, <2>1
<1>8. \A d \in Calls : opener[d] # "none" =>
        opener'[d] = opener[d] /\ <<d, opener[d]>> \in Requests /\ req[<<d, opener[d]>>] # "unsent"
  BY <1>1, NameFacts, RequestFacts DEF CallInv, Asked
<1>9. \A q \in Requests : In(q) => req[q] # "unsent"
  BY DEF LineInv
<1> QED BY <1>2, <1>3, <1>4, <1>5, <1>7, <1>8, <1>9 DEF In

\* What is sent joins the line at its end, and waits if its lane is late.
LEMMA PutsKeepsLine ==
  ASSUME ClientInv, Types', TailInv', NEW c \in Calls, NEW r \in Requests,
         Puts(c, r), Legal(c, r), Asks(c)
  PROVE  LineInv'
<1> USE DEF ClientInv
<1>1. /\ session' = session /\ poisoned' = poisoned /\ r[1] = c
      /\ \A q \in Requests : New(q) =>
           /\ req[q] = "unsent" /\ req'[q] \in {"held", "gated", "sent", "error"}
           /\ req'[q] \in {"gated", "sent"} => q = r /\ line' = Append(line, r) /\ session = "open"
           /\ req'[q] = "held" => session # "lost"
  BY DEF Puts
<1>2. /\ concurrent' = concurrent
      /\ \A d \in Calls : Over(d)' = Over(d)
      /\ \A q \in Requests : In(q) => In(q)' /\ req[q] # "unsent"
      /\ \A q \in Requests : In(q)' => In(q) \/ (q = r /\ New(r) /\ session = "open")
  BY PutsFacts
<1>3. line' = Append(line, r) => In(r)'
  BY AppendMembers DEF Types, WireTypes, In
<1>4. \A q \in Requests : In(q)' => req'[q] \in {"gated", "sent", "error"} /\ ~Over(q[1])'
  <2>1. ASSUME NEW q \in Requests, In(q) PROVE req'[q] \in {"gated", "sent", "error"} /\ ~Over(q[1])'
    BY <1>1, <1>2, <2>1, RequestFacts DEF LineInv, New
  <2>2. New(r) /\ In(r)' => req'[r] \in {"gated", "sent", "error"} /\ ~Over(c)'
    <3>1. New(r) /\ In(r)' => line' # line
      BY <1>1, <1>2 DEF In
    <3> QED BY <1>2, <3>1 DEF Puts, Legal
  <2> QED BY <1>1, <1>2, <2>1, <2>2
<1>5. \A q \in Requests : req'[q] \in {"gated", "sent"} => In(q)'
  BY <1>1, <1>2, <1>3 DEF LineInv, New
<1>6. session' = "closed" => line' = <<>>
  BY <1>1 DEF LineInv, Puts
<1>7. session' = "lost" => \A q \in Requests : req'[q] \notin {"held", "gated", "sent"}
  BY <1>1 DEF LineInv, New
<1>8. Running(c)' /\ (~concurrent /\ session # "lost" => \A q \in Requests : In(q) => q[1] = c)
  BY DEF Legal, Asks, Onward
<1>9. ~concurrent => \A p, q \in Requests : In(p)' /\ In(q)' => p[1] = q[1]
  BY <1>1, <1>2, <1>8 DEF LineInv
<1>10. ASSUME ~concurrent, session # "lost", NEW d \in Calls, Running(d)',
              NEW q \in Requests, In(q)'
       PROVE  q[1] = d
  <2>1. d = c
    BY <1>2, <1>8, <1>10 DEF TailInv
  <2> QED BY <1>1, <1>2, <1>8, <1>10, <2>1
<1> QED BY <1>1, <1>2, <1>4, <1>5, <1>6, <1>7, <1>9, <1>10 DEF LineInv

\* An opener is sent first, an end last.
LEMMA PutsKeepsOrder ==
  ASSUME ClientInv, Types', NEW c \in Calls, NEW r \in Requests,
         Puts(c, r), Legal(c, r), Asks(c)
  PROVE  OrderInv'
<1> USE DEF ClientInv
<1>1. /\ \A q \in Requests : New(q) => req[q] = "unsent"
      /\ r[1] = c /\ \A d \in Calls : d # c => opener'[d] = opener[d]
      /\ opener'[c] = opener[c] \/ (opener[c] = "none" /\ r[2] = opener'[c] /\ New(r))
      /\ r[2] \in Names /\ r = <<c, r[2]>>
      /\ CallInv(c)'
  BY RequestFacts DEF Puts, Asks
<1>2. /\ \A d \in Calls, n \in Names : Got(d, n)' = Got(d, n)
      /\ \A q \in Requests : In(q) => In(q)' /\ req[q] # "unsent"
      /\ \A q \in Requests : In(q)' => In(q) \/ (q = r /\ New(r))
      /\ \A d \in Calls : opener[d] # "none" =>
           opener'[d] = opener[d] /\ req[<<d, opener[d]>>] # "unsent"
  BY PutsFacts
<1>3. opener[c] = "none" /\ opener'[c] # "none" => \A n \in Names : ~Sent(c, n)
  <2>1. opener'[c] # "none" => c \in Transactions
    BY <1>1, PutsFacts DEF CallInv, Phase
  <2> QED BY <2>1 DEF CallInv, Phase, Asked
<1>4. New(r) => r[2] # opener[c] /\ ~In(r)
  BY <1>1, <1>2, NameFacts
<1>5. ASSUME NEW q \in Requests, NEW p \in Requests, Precedes(line', q, p), q[1] = p[1]
      PROVE  /\ p[2] # opener'[p[1]] /\ q[2] # "rollback"
             /\ q[2] = "commit" => p[2] = "rollback"
             /\ q[2] = "finish" => p[2] \in {"commit", "rollback"}
  <2>1. CASE Precedes(line, q, p)
    <3>1. In(q) /\ In(p)
      BY <2>1, PrecedesIn DEF Types, WireTypes, In
    <3>2. p[2] # opener'[p[1]]
      <4>1. CASE opener'[p[1]] = opener[p[1]]
        BY <2>1, <1>5, <4>1 DEF OrderInv
      <4>2. CASE opener'[p[1]] # opener[p[1]]
        <5>1. p[1] = c /\ opener'[c] = r[2] /\ New(r)
          BY <1>1, <4>2, RequestFacts
        <5> QED BY <1>1, <1>4, <3>1, <5>1, RequestFacts
      <4> QED BY <4>1, <4>2
    <3> QED BY <2>1, <3>2, <1>5 DEF OrderInv
  <2>2. CASE ~Precedes(line, q, p)
    <3>1. line' # line
      BY <1>5, <2>2
    <3>2. line' = Append(line, r) /\ New(r)
      BY <3>1 DEF Puts
    <3>3. In(q) /\ p = r
      BY <1>5, <2>2, <3>2, PrecedesAppend DEF Types, WireTypes, In
    <3>4. q[1] = c /\ q[2] \in Names /\ Sent(c, q[2])
      BY <1>1, <1>2, <1>5, <3>3, RequestFacts DEF Sent
    <3>5. opener[c] # "none" \/ opener'[c] = opener[c]
      BY <1>1, <1>3, <3>4, NameFacts
    <3>6. p[2] # opener'[p[1]]
      BY <1>1, <1>2, <1>4, <3>2, <3>3, <3>5
    <3> QED BY <1>1, <3>3, <3>4, <3>6 DEF Legal
  <2> QED BY <2>1, <2>2
<1>6. ASSUME NEW d \in Calls, opener'[d] # "none", <<d, opener'[d]>> \in ToSet(line'), NEW n \in Names
      PROVE  ~Got(d, n)'
  <2>1. CASE opener'[d] = opener[d]
    <3>1. In(<<d, opener[d]>>)
      <4>1. <<d, opener[d]>> \in Requests
        BY <1>6, <2>1, PutsFacts
      <4>2. d # c \/ r[2] # opener[c] \/ ~New(r)
        BY <1>4
      <4>3. <<d, opener[d]>> \in ToSet(line')
        BY <1>6, <2>1
      <4>4. <<d, opener[d]>> = r => d = c /\ r[2] = opener[c]
        BY <1>1
      <4>5. In(<<d, opener[d]>>) \/ (<<d, opener[d]>> = r /\ New(r))
        BY <1>2, <4>1, <4>3 DEF In
      <4> QED BY <4>2, <4>4, <4>5
    <3> QED BY <1>2, <1>6, <2>1, <3>1 DEF OrderInv
  <2>2. CASE opener'[d] # opener[d]
    <3>1. d = c /\ opener[c] = "none"
      BY <1>1, <2>2
    <3> QED BY <1>2, <1>3, <1>6, <3>1 DEF Sent, Got
  <2> QED BY <2>1, <2>2
<1> QED BY <1>5, <1>6 DEF OrderInv, In

\* Who holds a lane holds it still.
LEMMA PutsKeepsDatabase ==
  ASSUME ClientInv, Types', TailInv', NEW c \in Calls, NEW r \in Requests,
         Puts(c, r), Legal(c, r), Asks(c)
  PROVE  DoneInv' /\ HolderInv'
<1> USE DEF ClientInv
<1>1. /\ UNCHANGED <<program, db, commits, session, poisoned>> /\ r[1] = c
      /\ \A d \in Calls : d # c => Same(d)
      /\ Running(c)'
      /\ ~concurrent /\ session # "lost" => \A q \in Requests : In(q) => q[1] = c
  BY DEF Puts, Asks, Legal, Onward
<1>2. /\ concurrent' = concurrent /\ Transactions' = Transactions
      /\ \A d \in Calls : LaneOf(d)' = LaneOf(d) /\ Over(d)' = Over(d)
      /\ \A d \in Calls, n \in Names : Got(d, n)' = Got(d, n)
      /\ \A q \in Requests : Lane(q)' = Lane(q) /\ (req[q] # "unsent" => req'[q] = req[q])
      /\ \A q \in Requests : q \in ToSet(line') => In(q) \/ (q = r /\ New(r) /\ session = "open")
      /\ \A d \in Calls : opener[d] # "none" =>
           opener'[d] = opener[d] /\ <<d, opener[d]>> \in Requests
           /\ req[<<d, opener[d]>>] # "unsent"
  BY PutsFacts DEF In
<1>3. New(r) => req[r] = "unsent"
  BY DEF Puts
<1>4. DoneInv'
  <2>1. ASSUME NEW d \in Transactions, session \in {"open", "closing"}, pc'[d] = "done"
        PROVE  opener'[d] = "none" \/ Over(d)'
    <3>1. d \in Calls /\ d # c
      BY <1>1, <2>1 DEF Transactions, Running
    <3>2. pc[d] = "done" /\ opener'[d] = opener[d]
      BY <1>1, <2>1, <3>1 DEF Same
    <3> QED BY <1>2, <2>1, <3>1, <3>2 DEF DoneInv
  <2> QED BY <1>1, <1>2, <2>1 DEF DoneInv
<1>5. ASSUME NEW d \in Calls, NEW l \in Lanes, Holds(d, l), db[l].state # "none"
      PROVE  Holds(d, l)'
  <2>1. /\ d \in Transactions /\ l = LaneOf(d) /\ opener[d] # "none" /\ ~Over(d)
        /\ ~In(<<d, opener[d]>>) /\ opener'[d] = opener[d]
    BY <1>2, <1>5 DEF Holds
  <2>2. <<d, opener[d]>> \notin ToSet(line')
    BY <1>2, <1>3, <2>1
  <2>3. ASSUME New(r), session = "open", Lane(r) = l PROVE d = c
    <3>1. CASE concurrent
      BY <1>1, <2>1, <2>3, <3>1, ClientAssumption DEF LaneOf, Lane
    <3>2. CASE ~concurrent
      <4>1. Running(d)
        BY <2>1, <2>3 DEF DoneInv, CallInv, Phase, Running
      <4>2. d # c => Running(d)'
        BY <1>1, <4>1 DEF Same, Running
      <4> QED BY <1>1, <1>2, <3>2, <4>2 DEF TailInv
    <3> QED BY <3>1, <3>2
  <2>4. \A q \in Requests : q \in ToSet(line') /\ Lane(q) = l => q[1] = d
    BY <1>1, <1>2, <1>5, <2>3 DEF Holds
  <2>5. \A n \in Tasks : /\ Got(d, n)' = Got(d, n)
                         /\ req[<<d, n>>] = "error" => req'[<<d, n>>] = "error"
    BY <1>2, NameFacts, RequestFacts
  <2>6. /\ \A n \in Tasks : Got(d, n) => <<d, n>> \in db[l].rows
        /\ \A q \in db[l].rows : q[1] = d /\ q[2] \in Tasks
        /\ db[l].state # "open" => \E n \in Tasks : req[<<d, n>>] = "error"
    BY <1>5 DEF Holds
  <2> QED BY <1>1, <1>2, <2>1, <2>2, <2>4, <2>5, <2>6 DEF Holds, In
<1>6. \A d \in Calls : Durable(d)' = Durable(d)
  BY <1>1 DEF Durable
<1>7. HolderInv'
  BY <1>1, <1>5, <1>6 DEF HolderInv
<1> QED BY <1>4, <1>7

\* What was begun is open still.
LEMMA PutsKeepsOpen ==
  ASSUME ClientInv, Types', NEW c \in Calls, NEW r \in Requests,
         Puts(c, r), Legal(c, r), Asks(c)
  PROVE  OpenInv'
<1> USE DEF ClientInv
<1>1. /\ UNCHANGED <<program, db, commits, session, poisoned>> /\ r[1] = c /\ r = <<c, r[2]>>
      /\ \A d \in Calls : d # c => Same(d)
      /\ New(r) => req[r] = "unsent"
      /\ line' = line \/ line' = Append(line, r)
  BY RequestFacts DEF Puts, Asks
<1>2. /\ concurrent' = concurrent /\ Transactions' = Transactions
      /\ \A d \in Calls : LaneOf(d)' = LaneOf(d)
      /\ \A d \in Calls, n \in Names : Sent(d, n) => Sent(d, n)'
      /\ \A q \in Requests : req[q] # "unsent" => req'[q] = req[q]
      /\ \A q \in Requests : In(q) => q \in ToSet(line') /\ req[q] # "unsent"
      /\ \A q \in Requests : q \in ToSet(line') => In(q) \/ (q = r /\ New(r) /\ session = "open")
      /\ \A d \in Calls : opener[d] # "none" =>
           opener'[d] = opener[d] /\ <<d, opener[d]>> \in Requests
           /\ req[<<d, opener[d]>>] # "unsent"
  BY PutsFacts DEF In
<1>3. \A d \in Calls : Ended(d) => Ended(d)'
  <2>1. \A d \in Calls, n \in Names : Sent(d, n) /\ ~In(<<d, n>>) => Sent(d, n)' /\ ~In(<<d, n>>)'
    BY <1>1, <1>2, RequestFacts DEF Sent, In
  <2> QED BY <1>1, <2>1, NameFacts DEF Ended
<1>4. ASSUME NEW d \in Transactions, opener[d] # "none", ~In(<<d, opener[d]>>)
      PROVE  /\ session \in {"open", "closing"} /\ ~Ended(d)' =>
                  \/ db[LaneOf(d)].state # "none"
                  \/ req'[<<d, opener[d]>>] = "error" /\ (concurrent \/ session # "open")
             /\ ~concurrent /\ (\E n \in Tasks : In(<<d, n>>)') => db[None].state # "none"
  <2>0. d \in Calls
    BY DEF Transactions
  <2>1. session \in {"open", "closing"} /\ ~Ended(d) =>
             \/ db[LaneOf(d)].state # "none"
             \/ req[<<d, opener[d]>>] = "error" /\ (concurrent \/ session # "open")
    BY <1>4 DEF OpenInv
  <2>2. ASSUME ~concurrent, NEW n \in Tasks, In(<<d, n>>)' PROVE db[None].state # "none"
    <3>1. CASE In(<<d, n>>)
      BY <1>4, <2>2, <3>1 DEF OpenInv
    <3>2. CASE ~In(<<d, n>>)
      <4>1. <<d, n>> = r /\ session = "open"
        BY <1>2, <2>0, <2>2, <3>2, NameFacts, RequestFacts DEF In
      <4>2. d = c /\ r[2] \in Tasks
        BY <1>1, <4>1
      <4>3. ~Ended(c)
        BY <4>2, NameFacts DEF Legal, Ended
      <4> QED BY <2>1, <2>2, <4>1, <4>2, <4>3 DEF LaneOf
    <3> QED BY <3>1, <3>2
  <2> QED BY <1>2, <1>3, <1>4, <2>0, <2>1, <2>2
<1>5. ASSUME NEW d \in Transactions, opener[d] = "none", opener'[d] # "none",
             <<d, opener'[d]>> \notin ToSet(line')
      PROVE  /\ req'[<<d, opener'[d]>>] = "error" /\ (concurrent \/ session # "open")
             /\ ~(\E n \in Tasks : In(<<d, n>>)')
  <2>0. d = c
    BY <1>1, <1>5 DEF Same, Transactions
  <2>1. /\ opener'[c] = r[2] /\ New(r)
        /\ \/ line' = Append(line, r) /\ req'[r] = "sent"
           \/ line' = line /\ req'[r] = "error" /\ (concurrent \/ session # "open")
    BY <1>5, <2>0 DEF Puts
  <2>2. line' # Append(line, r)
    <3>1. line' = Append(line, r) => r \in ToSet(line')
      BY AppendMembers DEF Types, WireTypes
    <3> QED BY <1>1, <1>5, <2>0, <2>1, <3>1
  <2>3. ASSUME NEW n \in Tasks PROVE ~In(<<d, n>>)'
    <3>1. ~Sent(c, n) /\ <<c, n>> \in Requests
      BY <1>5, <2>0, NameFacts, RequestFacts DEF CallInv, Asked
    <3>2. ~In(<<c, n>>)
      BY <1>2, <3>1 DEF Sent
    <3> QED BY <1>1, <2>0, <2>2, <3>2 DEF In
  <2> QED BY <1>1, <2>0, <2>1, <2>2, <2>3
<1>6. ASSUME NEW d \in Transactions', opener'[d] # "none", <<d, opener'[d]>> \notin ToSet(line')
      PROVE  /\ session' \in {"open", "closing"} /\ ~Ended(d)' =>
                  \/ db'[LaneOf(d)'].state # "none"
                  \/ req'[<<d, opener'[d]>>] = "error" /\ (concurrent' \/ session' # "open")
             /\ ~concurrent' /\ (\E n \in Tasks : In(<<d, n>>)') => db'[None].state # "none"
  <2>0. d \in Calls /\ d \in Transactions
    BY <1>2 DEF Transactions
  <2>1. CASE opener[d] = "none"
    BY <1>1, <1>2, <1>5, <1>6, <2>0, <2>1
  <2>2. CASE opener[d] # "none"
    <3>1. opener'[d] = opener[d] /\ ~In(<<d, opener[d]>>)
      BY <1>2, <1>6, <2>0, <2>2
    <3> QED BY <1>1, <1>2, <1>4, <2>0, <2>2, <3>1
  <2> QED BY <2>1, <2>2
<1> QED BY <1>6 DEF OpenInv, In

\* A call that has written has nothing more to send that could write.
LEMMA PutsKeepsCommits ==
  ASSUME ClientInv, Types', NEW c \in Calls, NEW r \in Requests,
         Puts(c, r), Legal(c, r), Asks(c)
  PROVE  CommitInv' /\ KeepInv'
<1> USE DEF ClientInv
<1>1. /\ UNCHANGED <<program, db, commits, session, poisoned>> /\ r[1] = c /\ r = <<c, r[2]>>
      /\ \A d \in Calls : d # c => Same(d)
      /\ New(r) => req[r] = "unsent"
      /\ CallInv(c)' /\ Onward(c)
  BY RequestFacts DEF Puts, Asks
<1>2. /\ Transactions' = Transactions
      /\ \A d \in Calls, n \in Names : Got(d, n)' = Got(d, n) /\ (Sent(d, n) => Sent(d, n)')
      /\ \A q \in Requests : req[q] # "unsent" => req'[q] = req[q]
      /\ \A q \in Requests : q \in ToSet(line') => In(q) \/ (q = r /\ New(r) /\ session = "open")
      /\ \A d \in Calls : opener[d] # "none" =>
           opener'[d] = opener[d] /\ <<d, opener[d]>> \in Requests
           /\ req[<<d, opener[d]>>] # "unsent"
  BY PutsFacts DEF In
<1>3. ASSUME NEW d \in Calls, Spent(d) PROVE Spent(d)'
  <2>1. CASE d # c
    BY <1>1, <1>2, <1>3, <2>1, NameFacts DEF Spent, Same, Waits
  <2>2. CASE d = c /\ c \in Transactions
    <3>1. opener[c] # "none" /\ ~active[c] /\ finish[c] # "draining"
      BY <1>3, <2>2 DEF Spent
    <3>2. \A n \in Tasks : ~New(<<c, n>>)
      BY <3>1 DEF Legal
    <3> QED BY <1>1, <1>2, <1>3, <2>2, <3>1, <3>2 DEF Spent, Waits, New, Onward
  <2>3. CASE d = c /\ c \notin Transactions
    <3>1. \A n \in Tasks : ~Sent(c, n)'
      BY <1>1, <1>2, <2>3, NameFacts DEF CallInv, Phase, Asked
    <3> QED BY <1>2, <2>3, <3>1 DEF Spent, Waits, Sent
  <2> QED BY <2>1, <2>2, <2>3
<1>4. \A d \in Calls : Durable(d)' = Durable(d)
  BY <1>1 DEF Durable
<1>5. ASSUME NEW d \in Calls, Durable(d)
      PROVE  IF d \in Transactions
             THEN /\ opener'[d] # "none" /\ <<d, opener'[d]>> \notin ToSet(line')
                  /\ Sent(d, "commit")' \/ finish'[d] # "none"
             ELSE Sent(d, "query")' /\ <<d, "query">> \notin ToSet(line')
  <2>1. Same(d) \/ Onward(d)
    BY <1>1
  <2>2. finish[d] # "none" => finish'[d] # "none"
    BY <2>1 DEF Same, Onward
  <2>3. CASE d \in Transactions
    <3>1. /\ opener[d] # "none" /\ ~In(<<d, opener[d]>>)
          /\ Sent(d, "commit") \/ finish[d] # "none"
      BY <1>5, <2>3 DEF CommitInv
    <3>2. <<d, opener[d]>> \notin ToSet(line')
      BY <1>1, <1>2, <3>1
    <3> QED BY <1>2, <2>2, <2>3, <3>1, <3>2, NameFacts
  <2>4. CASE d \notin Transactions
    <3>1. Sent(d, "query") /\ ~In(<<d, "query">>) /\ <<d, "query">> \in Requests
      BY <1>5, <2>4, NameFacts, RequestFacts DEF CommitInv
    <3> QED BY <1>1, <1>2, <2>4, <3>1, NameFacts DEF Sent
  <2> QED BY <2>3, <2>4
<1>6. CommitInv'
  <2>1. \A d \in Calls, n \in Tasks : Got(d, n)' = Got(d, n)
    BY <1>2, NameFacts
  <2> QED BY <1>1, <1>2, <1>3, <1>4, <1>5, <2>1 DEF CommitInv, In
<1>7. ASSUME NEW d \in Calls, Whole(d)' PROVE Whole(d)
  <2>1. \A n \in Tasks \cup {"begin"} : n \in Names /\ <<d, n>> \in Requests
    BY NameFacts, RequestFacts
  <2> QED BY <1>2, <1>7, <2>1 DEF Whole
<1>8. KeepInv'
  <2>1. \A d \in Calls : Confirmed(d)' = Confirmed(d) /\ Got(d, "query")' = Got(d, "query")
    BY <1>1, <1>2, NameFacts DEF Confirmed
  <2> QED BY <1>4, <1>7, <2>1 DEF KeepInv
<1> QED BY <1>6, <1>8

\* A step that sends keeps every part of the invariant.
LEMMA AsksKeeps ==
  ASSUME ClientInv, Types', TailInv', NEW c \in Calls, Asks(c)
  PROVE  /\ (\A d \in Calls : CallInv(d)') /\ LineInv' /\ OrderInv' /\ DoneInv' /\ HolderInv'
         /\ OpenInv' /\ CommitInv' /\ KeepInv'
<1>1. PICK r \in Requests : Puts(c, r) /\ Legal(c, r)
  BY DEF Asks
<1>2. \A d \in Calls : CallInv(d)'
  BY SameCall DEF Asks, ClientInv
<1> QED BY <1>1, <1>2, PutsKeepsLine, PutsKeepsOrder, PutsKeepsDatabase, PutsKeepsOpen,
           PutsKeepsCommits
-----------------------------------------------------------------------------
(***************************************************************************)
(* Steps in which requests are settled, or released.                       *)
(***************************************************************************)
Moves ==
  /\ UNCHANGED <<program, pc, told, tail, active, opener, committed, finish, awaited>>
  /\ \A q \in Requests : New(q) => req[q] \in {"held", "gated", "sent"} /\ req'[q] \in {"sent", "ok", "error"}
  /\ \A c \in Calls, n \in Names : req'[<<c, n>>] = "held" => req'[<<c, "begin">>] = "sent"

\* A request that is settled or released leaves its call where it was.
LEMMA MovesCalls ==
  ASSUME Types, Moves, NEW c \in Calls, CallInv(c)
  PROVE  CallInv(c)'
<1>1. /\ UNCHANGED <<program, pc, told, active, opener, committed, finish, awaited>>
      /\ Transactions' = Transactions
      /\ \A n \in Names : req'[<<c, n>>] = "held" => req'[<<c, "begin">>] = "sent"
  BY DEF Moves, Transactions
<1>2. \A n \in Names :
        LET r == <<c, n>>
        IN  /\ req'[r] = "unsent" <=> req[r] = "unsent"
            /\ req[r] = "ok" => req'[r] = "ok"
            /\ req[r] = "error" => req'[r] = "error"
            /\ req'[r] = "held" => req[r] = "held"
            /\ req'[r] \in {"held", "gated", "sent"} => req[r] \in {"held", "gated", "sent"}
            /\ req[r] \notin {"unsent", "held", "gated"} => req'[r] \notin {"unsent", "held", "gated"}
  BY RequestFacts DEF Moves, New, Types, WireTypes
<1>3. Phase(c)'
  BY <1>1, <1>2, NameFacts DEF CallInv, Phase, Sent, Got, Over
<1>4. Asked(c)'
  <2>1. opener[c] # "none" => opener[c] \in Names
    BY NameFacts DEF CallInv, Asked
  <2>2. opener[c] # "none" => req'[<<c, opener[c]>>] \notin {"unsent", "held", "gated"}
    BY <1>2, <2>1 DEF CallInv, Asked
  <2>3. \A n \in Names : Sent(c, n)' <=> Sent(c, n)
    BY <1>2 DEF Sent
  <2>4. \A n \in Names : req'[<<c, n>>] = "held" =>
          n \in Tasks /\ opener[c] = "begin" /\ req'[<<c, "begin">>] = "sent"
    BY <1>1, <1>2 DEF CallInv, Asked
  <2> QED BY <1>1, <1>2, <2>2, <2>3, <2>4, NameFacts DEF CallInv, Asked, Got
<1>5. Ending(c)'
  BY <1>1, <1>2, NameFacts DEF CallInv, Ending, Sent, Got
<1>6. Awaiting(c)'
  BY <1>1, <1>2, NameFacts DEF CallInv, Awaiting, Sent, Waits
<1> QED BY <1>3, <1>4, <1>5, <1>6 DEF CallInv

\* What a BEGIN holds.
LEMMA HeldFacts ==
  ASSUME Types, \A c \in Calls : CallInv(c), NEW r \in Requests
  PROVE  /\ Held(r) \in Seq(Requests) /\ IsInjective(Held(r))
         /\ \A q \in Requests : q \in ToSet(Held(r)) <=>
              r[2] = "begin" /\ q[1] = r[1] /\ req[q] = "held"
         /\ \A q \in Requests : req[q] = "held" =>
              /\ q[2] \in Tasks /\ opener[q[1]] = "begin" /\ req[<<q[1], "begin">>] = "sent"
              /\ ~Sent(q[1], "commit") /\ ~Sent(q[1], "rollback")
              /\ Sent(q[1], "finish") => q[2] = "finish"
<1>1. \A q \in Requests : req[q] = "held" =>
              /\ q[2] \in Tasks /\ opener[q[1]] = "begin" /\ req[<<q[1], "begin">>] = "sent"
              /\ ~Sent(q[1], "commit") /\ ~Sent(q[1], "rollback")
              /\ Sent(q[1], "finish") => q[2] = "finish"
  <2>1. ASSUME NEW c \in Calls, NEW n \in Names, req[<<c, n>>] = "held"
        PROVE  /\ n \in Tasks /\ opener[c] = "begin" /\ req[<<c, "begin">>] = "sent"
               /\ ~Sent(c, "commit") /\ ~Sent(c, "rollback")
               /\ Sent(c, "finish") => n = "finish"
    <3>1. n \in Tasks /\ opener[c] = "begin" /\ req[<<c, "begin">>] = "sent"
      BY <2>1 DEF CallInv, Asked
    <3> QED BY <2>1, <3>1 DEF CallInv, Awaiting, Waits
  <2>2. ASSUME NEW q \in Requests, req[q] = "held"
        PROVE  q[1] \in Calls /\ q[2] \in Names /\ req[<<q[1], q[2]>>] = "held"
    BY <2>2, RequestFacts
  <2> QED BY <2>1, <2>2
<1>2. CASE r[2] # "begin"
  <2>1. Held(r) = <<>> /\ <<>> \in Seq(Requests) /\ ToSet(<<>>) = {} /\ IsInjective(<<>>)
    BY <1>2 DEF Held, ToSet, IsInjective
  <2> QED BY <1>1, <1>2, <2>1
<1>3. CASE r[2] = "begin"
  <2> DEFINE s == Append(Statements, "finish")
             S == {n \in Names : req[<<r[1], n>>] = "held"}
             names == Among(s, S)
  <2>1. Statements \in Seq(Names) /\ IsInjective(Statements) /\ "finish" \in Names
        /\ "finish" \notin ToSet(Statements)
    <3>1. Statements \in Seq(ToSet(Statements)) /\ IsInjective(Statements)
      BY ClientAssumption
    <3>2. ToSet(Statements) \subseteq Names
      BY DEF Names
    <3> QED BY <3>1, <3>2, NameFacts
  <2>2. s \in Seq(Names) /\ ToSet(s) = Tasks /\ IsInjective(s)
    BY <2>1, AppendMembers DEF Tasks
  <2> HIDE DEF s
  <2>3. names \in Seq(Names) /\ ToSet(names) = Tasks \cap S /\ IsInjective(names)
    BY <2>2, AmongMembers
  <2>4. Held(r) = [i \in DOMAIN names |-> <<r[1], names[i]>>]
    BY <1>3 DEF Held, s
  <2> HIDE DEF names
  <2>5. DOMAIN names = 1 .. Len(names) /\ Len(names) \in Nat
        /\ \A i \in 1 .. Len(names) : names[i] \in Names
    BY <2>3
  <2>6. Held(r) \in Seq(Requests) /\ DOMAIN Held(r) = 1 .. Len(names)
        /\ \A i \in 1 .. Len(names) : Held(r)[i] = <<r[1], names[i]>>
    <3>1. \A i \in 1 .. Len(names) : <<r[1], names[i]>> \in Requests
      BY <2>5, RequestFacts
    <3> QED BY <2>4, <2>5, <3>1
  <2>7. IsInjective(Held(r))
    <3>1. ASSUME NEW i \in 1 .. Len(names), NEW j \in 1 .. Len(names), Held(r)[i] = Held(r)[j]
          PROVE  i = j
      <4>1. names[i] = names[j]
        BY <2>6, <3>1
      <4> QED BY <2>3, <2>5, <4>1 DEF IsInjective
    <3> QED BY <2>6, <3>1 DEF IsInjective
  <2>8. \A q \in Requests : q \in ToSet(Held(r)) <=> q[1] = r[1] /\ q[2] \in ToSet(names)
    <3>1. ASSUME NEW q \in ToSet(Held(r)) PROVE q[1] = r[1] /\ q[2] \in ToSet(names)
      <4>1. PICK i \in 1 .. Len(names) : q = <<r[1], names[i]>>
        BY <2>6, <3>1 DEF ToSet
      <4> QED BY <2>5, <4>1 DEF ToSet
    <3>2. ASSUME NEW q \in Requests, q[1] = r[1], q[2] \in ToSet(names) PROVE q \in ToSet(Held(r))
      <4>1. PICK i \in 1 .. Len(names) : q[2] = names[i]
        BY <2>5, <3>2 DEF ToSet
      <4>2. q = Held(r)[i]
        BY <2>6, <3>2, <4>1, RequestFacts
      <4> QED BY <2>6, <4>2 DEF ToSet
    <3> QED BY <3>1, <3>2
  <2>9. \A q \in Requests : q[1] = r[1] => (q[2] \in ToSet(names) <=> req[q] = "held")
    BY <1>1, <2>3, RequestFacts
  <2> QED BY <1>1, <1>3, <2>6, <2>7, <2>8, <2>9
<1> QED BY <1>2, <1>3

\* A time-out fails the request, and a BEGIN what it holds.
LEMMA TimesOutMoves ==
  ASSUME ClientInv, NEW r \in Requests, TimesOut(r)
  PROVE  /\ Moves /\ UNCHANGED <<line, db, commits, session, poisoned>> /\ session # "lost"
         /\ \A q \in Requests : New(q) => req'[q] = "error"
<1> USE DEF ClientInv
<1>1. /\ UNCHANGED <<program, pc, told, tail, active, opener, committed, finish, awaited>>
      /\ UNCHANGED <<line, db, commits, session, poisoned>>
      /\ session # "lost" /\ req[r] = "sent"
      /\ req' = [q \in Requests |-> IF q = r \/ q \in ToSet(Held(r)) THEN "error" ELSE req[q]]
  BY DEF TimesOut, callVars, txVars, endVars, dbVars
<1>2. \A q \in Requests : q \in ToSet(Held(r)) <=>
              r[2] = "begin" /\ q[1] = r[1] /\ req[q] = "held"
  BY HeldFacts
<1>3. \A q \in Requests : New(q) => req[q] \in {"held", "gated", "sent"} /\ req'[q] = "error"
  BY <1>1, <1>2 DEF New
<1>4. ASSUME NEW c \in Calls, NEW n \in Names, req'[<<c, n>>] = "held"
      PROVE  req'[<<c, "begin">>] = "sent"
  <2>1. <<c, n>> \in Requests /\ <<c, "begin">> \in Requests
    BY NameFacts, RequestFacts
  <2>2. req[<<c, n>>] = "held" /\ <<c, n>> \notin ToSet(Held(r))
    BY <1>1, <1>4, <2>1
  <2>3. req[<<c, "begin">>] = "sent"
    BY <2>2 DEF CallInv, Asked
  <2>4. r # <<c, "begin">>
    BY <1>2, <2>1, <2>2
  <2>5. <<c, "begin">> \notin ToSet(Held(r))
    BY <1>2, <2>1, <2>3
  <2> QED BY <1>1, <2>1, <2>3, <2>4, <2>5
<1> QED BY <1>1, <1>3, <1>4 DEF Moves

\* A loss fails every request.
LEMMA LoseMoves ==
  ASSUME ClientInv, Lose
  PROVE  /\ Moves /\ UNCHANGED <<db, commits>> /\ session' = "lost" /\ poisoned' = TRUE
         /\ \A q \in Requests : New(q) => req'[q] = "error"
         /\ \A q \in Requests : req'[q] \notin {"held", "gated", "sent"}
         /\ line' = Among(line, {r \in Requests : req[r] # "gated"})
<1>1. /\ UNCHANGED <<program, pc, told, tail, active, opener, committed, finish, awaited, db, commits>>
      /\ session' = "lost" /\ poisoned' = TRUE
      /\ req' = [r \in Requests |-> IF req[r] \in {"held", "gated", "sent"} THEN "error" ELSE req[r]]
      /\ line' = Among(line, {r \in Requests : req[r] # "gated"})
  BY DEF Lose, callVars, txVars, dbVars
<1>2. /\ \A q \in Requests : New(q) => req[q] \in {"held", "gated", "sent"} /\ req'[q] = "error"
      /\ \A q \in Requests : req'[q] \notin {"held", "gated", "sent"}
  BY <1>1 DEF New
<1>3. \A c \in Calls, n \in Names : <<c, n>> \in Requests
  BY RequestFacts
<1> QED BY <1>1, <1>2, <1>3 DEF Moves
\* A request that is answered leaves the line, and what it released joins it.
Settles(r, outcome) ==
  /\ Moves /\ UNCHANGED <<session, poisoned>>
  /\ In(r) /\ req[r] \in {"sent", "error"} /\ r \notin ToSet(line')
  /\ req'[r] = IF req[r] = "error" THEN "error" ELSE outcome
  /\ \A q \in Requests : New(q) /\ q # r => req'[q] \in {"sent", "error"}
  /\ \A q \in Requests : req'[q] \in {"gated", "sent"} => q \in ToSet(line')
  /\ \A q \in Requests : q \in ToSet(line') => req'[q] \in {"gated", "sent", "error"}
  /\ \A q \in Requests : In(q) /\ q # r /\ q \notin ToSet(line') => req[q] = "gated" /\ session # "open"
  /\ \A q \in Requests : q \in ToSet(line') /\ ~In(q) =>
       /\ r[2] = "begin" /\ q[1] = r[1] /\ req[q] = "held"
       /\ session = "open" /\ outcome = "ok" /\ req[r] = "sent"
  /\ \A p, q \in Requests : Precedes(line', p, q) /\ In(q) => Precedes(line, p, q)
  /\ line' \in Seq(Requests) /\ IsInjective(line')

\* An answer is such a step.
LEMMA AnswerSettles ==
  ASSUME ClientInv, NEW r \in Requests, Served(r), NEW outcome \in {"ok", "error"},
         Answer(r, outcome)
  PROVE  Settles(r, outcome)
<1> USE DEF ClientInv
<1> DEFINE late  == Late \ {r}
           held  == IF r \in Late THEN <<>> ELSE Held(r)
           freed == {q \in ToSet(line) : req[q] = "gated" /\ ~Blocked(q, late)}
           goes  == outcome = "ok" /\ ~Refusing
           S     == {q \in Requests : q # r /\ (q \in freed => session = "open")}
           kept  == Among(line, S)
           more  == IF goes THEN held ELSE <<>>
<1>1. /\ UNCHANGED <<program, pc, told, tail, active, opener, committed, finish, awaited, session, poisoned>>
      /\ req' = [q \in Requests |->
               IF q = r THEN (IF r \in Late THEN "error" ELSE outcome)
               ELSE IF q \in freed THEN (IF session = "open" THEN "sent" ELSE "error")
               ELSE IF q \in ToSet(held) THEN (IF goes THEN "sent" ELSE "error")
               ELSE req[q]]
      /\ line' = kept \o more
  BY DEF Answer, callVars, txVars, endVars
<1>2. /\ line \in Seq(Requests) /\ IsInjective(line) /\ In(r) /\ req[r] # "gated"
      /\ req \in [Requests -> {"unsent", "held", "gated", "sent", "ok", "error"}]
  BY DEF Types, WireTypes, Served, In
<1>3. req[r] \in {"sent", "error"} /\ (r \in Late <=> req[r] = "error")
  BY <1>2 DEF LineInv, In, Late
<1>4. ToSet(kept) = ToSet(line) \cap S /\ kept \in Seq(Requests) /\ IsInjective(kept)
  BY <1>2, AmongMembers
<1>5. /\ held \in Seq(Requests) /\ IsInjective(held)
      /\ \A q \in Requests : q \in ToSet(held) <=>
           req[r] = "sent" /\ r[2] = "begin" /\ q[1] = r[1] /\ req[q] = "held"
  <2>1. <<>> \in Seq(Requests) /\ ToSet(<<>>) = {} /\ IsInjective(<<>>)
    BY DEF ToSet, IsInjective
  <2>2. /\ Held(r) \in Seq(Requests) /\ IsInjective(Held(r))
        /\ \A q \in Requests : q \in ToSet(Held(r)) <=>
              r[2] = "begin" /\ q[1] = r[1] /\ req[q] = "held"
    BY HeldFacts
  <2> QED BY <1>3, <2>1, <2>2
<1>6. freed \subseteq Requests /\ \A q \in freed : In(q) /\ req[q] = "gated" /\ q # r
  BY <1>2 DEF In, ToSet
<1>7. Refusing <=> session # "open"
  BY DEF Refusing, LineInv
<1>8. /\ more \in Seq(Requests) /\ IsInjective(more)
      /\ \A q \in Requests : q \in ToSet(more) <=> goes /\ q \in ToSet(held)
  <2>1. <<>> \in Seq(Requests) /\ ToSet(<<>>) = {} /\ IsInjective(<<>>)
    BY DEF ToSet, IsInjective
  <2> QED BY <1>5, <2>1
<1>9. \A q \in Requests : In(q) => req[q] \in {"gated", "sent", "error"}
  BY DEF LineInv
<1> HIDE DEF late, held, freed, S, kept, more
<1>10. \A q \in Requests : q \in S <=> q # r /\ (q \in freed => session = "open")
  BY DEF S
<1>11. ToSet(kept) \cap ToSet(more) = {}
  BY <1>4, <1>5, <1>8, <1>9 DEF In, S
<1>12. /\ line' \in Seq(Requests) /\ ToSet(line') = ToSet(kept) \cup ToSet(more)
       /\ IsInjective(line')
  BY <1>1, <1>4, <1>8, <1>11, ConcatMembers
<1>13. \A q \in Requests : q \in ToSet(line') <=>
         \/ In(q) /\ q # r /\ (q \in freed => session = "open")
         \/ goes /\ q \in ToSet(held)
  BY <1>4, <1>8, <1>10, <1>12 DEF In
<1>14. req'[r] = IF req[r] = "error" THEN "error" ELSE outcome
  BY <1>1, <1>3
<1>15. \A q \in Requests : q # r =>
         req'[q] = IF q \in freed THEN (IF session = "open" THEN "sent" ELSE "error")
                   ELSE IF q \in ToSet(held) THEN (IF goes THEN "sent" ELSE "error")
                   ELSE req[q]
  BY <1>1
<1>16. \A q \in Requests : New(q) /\ q # r =>
         req[q] \in {"held", "gated"} /\ req'[q] \in {"sent", "error"}
  BY <1>5, <1>6, <1>15 DEF New
<1>17. Moves
  <2>1. \A q \in Requests : New(q) => req[q] \in {"held", "gated", "sent"} /\ req'[q] \in {"sent", "ok", "error"}
    BY <1>3, <1>14, <1>16 DEF New
  <2>2. ASSUME NEW c \in Calls, NEW n \in Names, req'[<<c, n>>] = "held"
        PROVE  req'[<<c, "begin">>] = "sent"
    <3>1. <<c, n>> \in Requests /\ <<c, "begin">> \in Requests
      BY NameFacts, RequestFacts
    <3>2. req[<<c, n>>] = "held"
      BY <2>1, <2>2, <3>1 DEF New
    <3>3. req[<<c, "begin">>] = "sent"
      BY <3>2 DEF CallInv, Asked
    <3>4. r # <<c, "begin">>
      <4>1. r = <<c, "begin">> => <<c, n>> \in ToSet(held)
        BY <1>5, <3>1, <3>2, <3>3
      <4>2. <<c, n>> # r
        BY <1>3, <3>2
      <4> QED BY <1>15, <2>2, <3>1, <4>1, <4>2, <1>6
    <3> QED BY <1>16, <3>1, <3>3, <3>4 DEF New
  <2> QED BY <1>1, <2>1, <2>2 DEF Moves
<1>18. \A q \in Requests : req'[q] \in {"gated", "sent"} => q \in ToSet(line')
  <2>1. \A q \in Requests : req[q] \in {"gated", "sent"} => In(q)
    BY DEF LineInv
  <2> QED BY <1>3, <1>6, <1>13, <1>14, <1>15, <2>1
<1>19. \A q \in Requests : q \in ToSet(line') => req'[q] \in {"gated", "sent", "error"}
  BY <1>3, <1>5, <1>9, <1>13, <1>15
<1>20. \A q \in Requests : In(q) /\ q # r /\ q \notin ToSet(line') => req[q] = "gated" /\ session # "open"
  BY <1>6, <1>13
<1>21. \A q \in Requests : q \in ToSet(line') /\ ~In(q) =>
       /\ r[2] = "begin" /\ q[1] = r[1] /\ req[q] = "held"
       /\ session = "open" /\ outcome = "ok" /\ req[r] = "sent"
  BY <1>5, <1>7, <1>13
<1>22. ASSUME NEW p \in Requests, NEW q \in Requests, Precedes(line', p, q), In(q)
       PROVE  Precedes(line, p, q)
  <2>1. q \in ToSet(more) \/ Precedes(kept, p, q)
    BY <1>1, <1>4, <1>8, <1>22, PrecedesConcat
  <2>2. q \notin ToSet(more)
    BY <1>5, <1>8, <1>9, <1>22
  <2> QED BY <1>2, <2>1, <2>2, PrecedesAmong DEF kept
<1>23. r \notin ToSet(line')
  BY <1>3, <1>5, <1>13
<1> HIDE DEF goes
<1> QED BY <1>1, <1>2, <1>3, <1>12, <1>14, <1>16, <1>17, <1>18, <1>19, <1>20, <1>21, <1>22, <1>23
     DEF Settles

\* A transaction whose opener is on its way has written nothing.
LEMMA BegunBeforeDurable ==
  ASSUME CommitInv
  PROVE  \A c \in Calls : c \in Transactions /\ In(<<c, opener[c]>>) => ~Durable(c)
BY DEF CommitInv

\* What is open where a request is executed.
LEMMA ConnFacts ==
  ASSUME ClientInv, NEW r \in Requests, Served(r), NEW c, c = r[1], NEW l, l = Lane(r)
  PROVE  /\ c \in Calls /\ l \in Lanes /\ l = LaneOf(c) /\ In(r) /\ Conn(r) = db[l]
         /\ db[l].state = "none" => db[l].rows = {}
         /\ c \notin Transactions => db[l].state = "none" /\ r[2] = "query" /\ l = None
         /\ c \in Transactions =>
              /\ r[2] # "query" /\ opener[c] # "none" /\ opener[c] \in Names
              /\ \A q \in Requests : In(q) /\ Lane(q) = l => q[1] = c
              /\ \A q \in Requests : In(q) /\ q[1] = c /\ q # r => Precedes(line, r, q)
              /\ db[l].state # "none" => Holds(c, l) /\ ~Durable(c)
              /\ IF opener[c] = r[2]
                 THEN db[l].state = "none" /\ ~Durable(c) /\ \A n \in Names : ~Got(c, n)
                 ELSE ~In(<<c, opener[c]>>)
<1> USE DEF ClientInv
<1>1. c \in Calls /\ l = LaneOf(c) /\ l \in Lanes /\ In(r) /\ r[2] \in Names /\ r = <<c, r[2]>>
      /\ Conn(r) = db[l]
  BY RequestFacts DEF Lane, LaneOf, Lanes, Served, In, Conn
<1>2. req[r] # "unsent" /\ Sent(c, r[2]) /\ CallInv(c)
  BY <1>1 DEF LineInv, Sent
<1>3. db[l].state = "none" => db[l].rows = {}
  BY <1>1 DEF HolderInv
<1>4. ASSUME db[l].state # "none"
      PROVE  c \in Transactions /\ Holds(c, l) /\ ~Durable(c)
  <2>1. PICK d \in Calls : Holds(d, l) /\ ~Durable(d)
    BY <1>1, <1>4 DEF HolderInv
  <2>2. d = c
    BY <1>1, <2>1 DEF Holds
  <2> QED BY <2>1, <2>2 DEF Holds
<1>5. CASE c \notin Transactions
  <2>1. r[2] = "query"
    BY <1>1, <1>2, <1>5 DEF CallInv, Phase, Asked, Sent
  <2>2. l = None
    BY <1>1, <1>5 DEF LaneOf
  <2> QED BY <1>1, <1>3, <1>4, <1>5, <2>1, <2>2
<1>6. CASE c \in Transactions
  <2>1. r[2] # "query" /\ opener[c] # "none" /\ opener[c] \in Names
    BY <1>1, <1>2, <1>6, NameFacts DEF CallInv, Phase, Asked, Sent
  <2>2. \A q \in Requests : In(q) /\ Lane(q) = l => q[1] = c
    <3>1. CASE concurrent
      BY <1>1, <1>6, <3>1, RequestFacts, ClientAssumption DEF Lane, LaneOf
    <3>2. CASE ~concurrent
      BY <1>1, <3>2 DEF LineInv
    <3> QED BY <3>1, <3>2
  <2>3. ASSUME NEW q \in Requests, In(q), q[1] = c, q # r PROVE Precedes(line, r, q)
    <3>1. Lane(q) = l
      BY <1>6, <2>3 DEF Lane
    <3>2. ~(concurrent /\ Lane(r) = None)
      BY <1>1, <1>6, ClientAssumption DEF LaneOf
    <3>3. ~Precedes(line, q, r)
      BY <2>3, <3>1, <3>2 DEF Served, In
    <3>4. Precedes(line, q, r) \/ Precedes(line, r, q)
      BY <1>1, <2>3, PrecedesTotal DEF Types, WireTypes, In
    <3> QED BY <3>3, <3>4
  <2>4. CASE opener[c] = r[2]
    <3>1. ~Durable(c)
      <4>1. <<c, opener[c]>> = r
        BY <1>1, <2>4
      <4> HIDE DEF ClientInv
      <4>2. CommitInv
        BY DEF ClientInv
      <4> QED BY <1>1, <1>6, <4>1, <4>2, BegunBeforeDurable
    <3>2. \A n \in Names : ~Got(c, n)
      BY <1>1, <2>1, <2>4 DEF OrderInv
    <3>3. db[l].state = "none"
      BY <1>1, <1>4, <2>4 DEF Holds
    <3> QED BY <1>1, <1>3, <1>4, <1>6, <2>1, <2>2, <2>3, <2>4, <3>1, <3>2, <3>3
  <2>5. CASE opener[c] # r[2]
    <3>1. ~In(<<c, opener[c]>>)
      <4>1. <<c, opener[c]>> \in Requests /\ <<c, opener[c]>> # r
        BY <1>1, <2>1, <2>5, RequestFacts
      <4>2. In(<<c, opener[c]>>) => Precedes(line, r, <<c, opener[c]>>)
        BY <2>3, <4>1
      <4> QED BY <1>1, <4>1, <4>2 DEF OrderInv
    <3> QED BY <1>1, <1>3, <1>4, <1>6, <2>1, <2>2, <2>3, <2>5, <3>1
  <2> QED BY <2>4, <2>5
<1> QED BY <1>5, <1>6

\* A request of a transaction is executed before those sent after it.
LEMMA FirstServed ==
  ASSUME ClientInv, NEW r \in Requests, Served(r), r[1] \in Transactions
  PROVE  /\ Lane(r) \in Lanes /\ Lane(r) = LaneOf(r[1]) /\ In(r) /\ Conn(r) = db[Lane(r)]
         /\ db[Lane(r)].state = "none" => db[Lane(r)].rows = {}
         /\ db[Lane(r)].state # "none" => Holds(r[1], Lane(r))
         /\ \A q \in Requests : In(q) /\ q[1] = r[1] /\ q # r => Precedes(line, r, q)
<1>1. \A c, l : c = r[1] /\ l = Lane(r) =>
        \A q \in Requests : In(q) /\ q[1] = c /\ q # r => Precedes(line, r, q)
  BY ConnFacts
<1>2. Lane(r) \in Lanes /\ Lane(r) = LaneOf(r[1]) /\ In(r) /\ Conn(r) = db[Lane(r)]
  BY RequestFacts DEF Lane, LaneOf, Lanes, Served, In, Conn
<1>3. db[Lane(r)].state = "none" => db[Lane(r)].rows = {}
  BY <1>2 DEF ClientInv, HolderInv
<1>4. \A c, l : c = r[1] /\ l = Lane(r) => (db[l].state # "none" => Holds(c, l))
  BY ConnFacts
<1> QED BY <1>1, <1>2, <1>3, <1>4

\* What an answer does to the database: nothing, ...
Stays(r, outcome) ==
  outcome = "error" /\ UNCHANGED <<db, commits>> /\ (opener[r[1]] = r[2] => concurrent)

\* ... leaves a transaction open, or broken, ...
Opened(r, outcome) ==
  /\ r[1] \in Transactions /\ UNCHANGED commits /\ r[2] \in Tasks \cup {"begin"}
  /\ Conn(r).state = "none" => opener[r[1]] = r[2]
  /\ \E s \in {"open", "aborted", "broken"}, rows \in {Conn(r).rows, Conn(r).rows \cup {r}} :
       /\ db' = [db EXCEPT ![Lane(r)] = [state |-> s, rows |-> rows]]
       /\ outcome = "ok" => s = "open" /\ ~Ends(r) /\ (r[2] \in Tasks => r \in rows)
       /\ s # "open" => outcome = "error" /\ r[2] \in Tasks
       /\ rows # Conn(r).rows => r[2] \in Tasks

\* ... ends it, ...
Closed(r, outcome) ==
  /\ r[1] \in Transactions /\ (r[2] \in {"commit", "rollback"} \/ Ends(r))
  /\ db' = [db EXCEPT ![Lane(r)] = [state |-> "none", rows |-> {}]]
  /\ \/ /\ UNCHANGED commits
        /\ \/ r[2] = "rollback" \/ outcome = "error"
           \/ r[2] = "commit" /\ Conn(r).state = "aborted"
           \/ r[2] = "commit" /\ Conn(r).state = "none" /\ ~concurrent
     \/ /\ commits' = commits \cup {Conn(r).rows \cup ({r} \cap Work(r[1]))}
        /\ r[2] # "rollback"
        /\ Conn(r).state # "none" \/ opener[r[1]] = r[2]

\* ... or is a statement of its own.
Single(r, outcome) ==
  /\ r[1] \notin Transactions /\ r[2] = "query" /\ outcome = "ok"
  /\ UNCHANGED db /\ commits' = commits \cup {{r}}

\* Whatever the engine does with a request, it is one of these four.
LEMMA AnsweredEffect ==
  ASSUME ClientInv, NEW r \in Requests, Answered(r)
  PROVE  /\ Served(r)
         /\ \E outcome \in {"ok", "error"} :
              /\ Settles(r, outcome)
              /\ Stays(r, outcome) \/ Opened(r, outcome) \/ Closed(r, outcome) \/ Single(r, outcome)
<1>1. Served(r)
  BY DEF Answered, Refused, ExecutesBegin, Executes, Fails, Commits, CommitFails, RollsBack
<1> DEFINE c == r[1]
           l == Lane(r)
<1>2. /\ c \in Calls /\ l \in Lanes /\ l = LaneOf(c) /\ In(r) /\ Conn(r) = db[l]
      /\ db[l].state = "none" => db[l].rows = {}
      /\ c \notin Transactions => db[l].state = "none" /\ r[2] = "query" /\ l = None
      /\ c \in Transactions =>
           /\ r[2] # "query" /\ opener[c] # "none"
           /\ IF opener[c] = r[2] THEN db[l].state = "none" ELSE ~In(<<c, opener[c]>>)
  BY <1>1, ConnFacts
<1>3. /\ r[2] \in Names /\ r = <<c, r[2]>> /\ concurrent \in BOOLEAN
      /\ db[l].state \in {"none", "open", "aborted", "broken"}
  BY <1>2, RequestFacts, ProgramFacts DEF ClientInv, Types, DbTypes, CallTypes, concurrent
<1>4. c \in Transactions => (Pooled(r) <=> concurrent)
  BY <1>2, ClientAssumption DEF Pooled, LaneOf
<1>5. c \notin Transactions => ~Pooled(r)
  BY <1>2 DEF Pooled
<1> HIDE DEF c, l
<1>6. \A o \in {"ok", "error"} : Answer(r, o) => Settles(r, o)
  BY <1>1, AnswerSettles
<1>7. IsStatement(r) <=> r[2] \in Tasks \cup {"query"}
  BY DEF IsStatement, Tasks
<1>8. r \in Work(c) <=> r[2] \in Tasks
  <2>1. r[2] \in Tasks => <<c, r[2]>> \in Work(c)
    BY DEF Work, Tasks
  <2>2. r \in Work(c) => r[2] \in Tasks
    BY DEF Work, Tasks
  <2> QED BY <1>3, <2>1, <2>2
<1>9. Begins(r) <=> c \in Transactions /\ opener[c] = r[2]
  BY DEF Begins, c
<1>10. Outside(r) /\ c \in Transactions => r[2] \notin Tasks
  <2>1. ASSUME Outside(r), c \in Transactions, r[2] \in Tasks PROVE FALSE
    <3>1. ~concurrent /\ db[l].state = "none" /\ opener[c] # r[2]
      BY <1>2, <1>4, <1>9, <2>1 DEF Outside
    <3>2. opener[c] # "none" /\ ~In(<<c, opener[c]>>) /\ In(<<c, r[2]>>)
      BY <1>2, <1>3, <2>1, <3>1
    <3>3. db[None].state # "none"
      BY <2>1, <3>1, <3>2 DEF ClientInv, OpenInv
    <3> QED BY <1>2, <3>1, <3>3 DEF LaneOf
  <2> QED BY <2>1
<1>11. Inside(r) => c \in Transactions
  BY <1>2, <1>9 DEF Inside
<1>12. IsStatement(r) /\ c \in Transactions => r[2] \in Tasks
  BY <1>2, <1>7
<1>13. Inside(r) /\ Conn(r).state = "none" => opener[c] = r[2]
  BY <1>9 DEF Inside
<1>14. CASE Refused(r)
  <2>1. Pooled(r) /\ Answer(r, "error") /\ UNCHANGED <<db, commits>>
    BY <1>14 DEF Refused, dbVars
  <2>2. concurrent
    BY <1>4, <1>5, <2>1
  <2> QED BY <1>1, <1>6, <2>1, <2>2 DEF Stays
<1>15. CASE ExecutesBegin(r)
  <2>1. /\ r[2] = "begin" /\ Answer(r, "ok") /\ UNCHANGED commits
        /\ Conn(r).state = "none" => Open(r, {})
    BY <1>15 DEF ExecutesBegin
  <2>2. c \in Transactions
    BY <1>2, <2>1
  <2>3. opener[c] = "begin"
    <3>1. CallInv(c) /\ Sent(c, "begin")
      BY <1>2, <1>3, <2>1 DEF ClientInv, LineInv, Sent
    <3> QED BY <1>2, <2>2, <3>1 DEF CallInv, Asked
  <2>4. Conn(r).state = "none" /\ Conn(r).rows = {} /\ Open(r, {})
    BY <1>2, <2>1, <2>2, <2>3
  <2>5. db' = [db EXCEPT ![Lane(r)] = [state |-> "open", rows |-> Conn(r).rows]]
    BY <2>4 DEF Open, Leave
  <2>6. ~Ends(r) /\ r[2] \notin Tasks
    BY <2>1, NameFacts DEF Ends
  <2>7. Opened(r, "ok")
    BY <2>1, <2>2, <2>3, <2>5, <2>6 DEF Opened, c
  <2> QED BY <1>1, <1>6, <2>1, <2>7
<1>16. CASE Executes(r)
  <2>1. IsStatement(r)
    BY <1>16 DEF Executes
  <2>2. CASE Inside(r) /\ ~Ends(r) /\ Open(r, Conn(r).rows \cup {r}) /\ Answer(r, "ok") /\ UNCHANGED commits
    <3>1. c \in Transactions /\ r[2] \in Tasks
      BY <1>11, <1>12, <2>1, <2>2
    <3>2. db' = [db EXCEPT ![Lane(r)] = [state |-> "open", rows |-> Conn(r).rows \cup {r}]]
      BY <2>2 DEF Open, Leave
    <3>3. Opened(r, "ok")
      BY <1>13, <2>2, <3>1, <3>2 DEF Opened, c
    <3> QED BY <1>1, <1>6, <2>2, <3>3
  <2>3. CASE /\ Inside(r) /\ Ends(r) /\ commits' = commits \cup {Conn(r).rows \cup {r}}
             /\ Free(r) /\ Answer(r, "ok")
    <3>1. c \in Transactions /\ r[2] = "finish"
      BY <1>11, <2>3 DEF Ends
    <3>2. {r} \cap Work(c) = {r}
      BY <1>8, <3>1, NameFacts
    <3>3. Closed(r, "ok")
      BY <1>13, <2>3, <3>1, <3>2 DEF Closed, Free, Leave, c
    <3> QED BY <1>1, <1>6, <2>3, <3>3
  <2>4. CASE Outside(r) /\ commits' = commits \cup {{r}} /\ Answer(r, "ok") /\ UNCHANGED db
    <3>1. c \notin Transactions /\ r[2] = "query"
      BY <1>2, <1>10, <1>12, <2>1, <2>4
    <3>2. Single(r, "ok")
      BY <2>4, <3>1 DEF Single, c
    <3> QED BY <1>1, <1>6, <2>4, <3>2
  <2> QED BY <1>16, <2>2, <2>3, <2>4 DEF Executes
<1>17. CASE Fails(r)
  <2>1. IsStatement(r) /\ Answer(r, "error") /\ UNCHANGED commits
    BY <1>17 DEF Fails
  <2>2. CASE (Outside(r) \/ Conn(r).state \in {"aborted", "broken"}) /\ UNCHANGED db
    <3>1. opener[c] # r[2]
      <4>1. CASE c \in Transactions
        BY <1>2, <1>9, <2>2, <4>1 DEF Outside
      <4>2. CASE c \notin Transactions
        <5>1. opener[c] = "none"
          BY <1>2, <4>2 DEF ClientInv, CallInv, Phase
        <5> QED BY <1>3, <5>1, NameFacts
      <4> QED BY <4>1, <4>2
    <3>2. Stays(r, "error")
      BY <2>1, <2>2, <3>1 DEF Stays, c
    <3> QED BY <1>1, <1>6, <2>1, <3>2
  <2>3. ASSUME NEW s \in {"aborted", "broken"}, Inside(r), Leave(r, s, Conn(r).rows)
        PROVE  Opened(r, "error")
    <3>1. c \in Transactions /\ r[2] \in Tasks
      BY <1>11, <1>12, <2>1, <2>3
    <3>2. db' = [db EXCEPT ![Lane(r)] = [state |-> s, rows |-> Conn(r).rows]]
      BY <2>3 DEF Leave
    <3> QED BY <1>13, <2>1, <2>3, <3>1, <3>2 DEF Opened, c
  <2>4. CASE Inside(r) /\ (Leave(r, "aborted", Conn(r).rows) \/ Leave(r, "broken", Conn(r).rows))
    BY <1>1, <1>6, <2>1, <2>3, <2>4
  <2> QED BY <1>17, <2>2, <2>4 DEF Fails
<1>18. CASE Commits(r)
  <2>1. r[2] = "commit" /\ Free(r)
    BY <1>18 DEF Commits
  <2>2. c \in Transactions /\ r \notin Work(c)
    BY <1>2, <1>8, <2>1, NameFacts
  <2>3. Answer(r, "ok")
    BY <1>18 DEF Commits
  <2>4. db' = [db EXCEPT ![Lane(r)] = [state |-> "none", rows |-> {}]]
    BY <2>1 DEF Free, Leave
  <2>5. CASE Conn(r).state = "open" /\ commits' = commits \cup {Conn(r).rows}
    <3>1. Conn(r).rows \cup ({r} \cap Work(c)) = Conn(r).rows
      BY <2>2
    <3>2. Closed(r, "ok")
      BY <2>1, <2>2, <2>4, <2>5, <3>1 DEF Closed, c
    <3> QED BY <1>1, <1>6, <2>3, <3>2
  <2>6. CASE /\ UNCHANGED commits
             /\ Conn(r).state = "aborted" \/ (Conn(r).state = "none" /\ ~Pooled(r))
    <3>1. Closed(r, "ok")
      BY <1>4, <2>1, <2>2, <2>4, <2>6 DEF Closed, c
    <3> QED BY <1>1, <1>6, <2>3, <3>1
  <2> QED BY <1>18, <2>5, <2>6 DEF Commits
<1>19. CASE CommitFails(r)
  <2>1. /\ Free(r) /\ Answer(r, "error") /\ (r[2] = "commit" \/ (Ends(r) /\ Inside(r)))
        /\ Conn(r).state \in {"open", "broken"} \/ (Ends(r) /\ Inside(r))
    BY <1>19 DEF CommitFails
  <2>2. c \in Transactions /\ r[2] # "rollback"
    BY <1>2, <1>11, <2>1 DEF Ends
  <2>3. Conn(r).state # "none" \/ opener[c] = r[2]
    BY <1>13, <2>1
  <2>4. db' = [db EXCEPT ![Lane(r)] = [state |-> "none", rows |-> {}]]
    BY <2>1 DEF Free, Leave
  <2>5. UNCHANGED commits \/ commits' = commits \cup {Conn(r).rows \cup ({r} \cap Work(r[1]))}
    BY <1>19 DEF CommitFails
  <2>6. Closed(r, "error")
    BY <2>1, <2>2, <2>3, <2>4, <2>5 DEF Closed, c
  <2> QED BY <1>1, <1>6, <2>1, <2>6
<1>20. CASE RollsBack(r)
  <2>1. r[2] = "rollback" /\ Free(r) /\ UNCHANGED commits /\ (Answer(r, "ok") \/ Answer(r, "error"))
    BY <1>20 DEF RollsBack
  <2>2. c \in Transactions
    BY <1>2, <2>1
  <2>3. \A o \in {"ok", "error"} : Closed(r, o)
    BY <2>1, <2>2 DEF Closed, Free, Leave, c
  <2> QED BY <1>1, <1>6, <2>1, <2>3
<1> QED BY <1>14, <1>15, <1>16, <1>17, <1>18, <1>19, <1>20 DEF Answered

\* What an answer leaves as it was.
LEMMA SettlesFacts ==
  ASSUME ClientInv, NEW r \in Requests, Served(r), NEW outcome \in {"ok", "error"},
         Settles(r, outcome), NEW c, c = r[1]
  PROVE  /\ c \in Calls /\ r = <<c, r[2]>> /\ r[2] \in Names
         /\ UNCHANGED <<program, pc, active, opener, finish, session, poisoned>>
         /\ concurrent' = concurrent /\ Transactions' = Transactions
         /\ session \in {"open", "closing", "lost"} /\ (req[r] = "sent" => session # "lost")
         /\ \A q \in Requests : Lane(q)' = Lane(q) /\ (req[q] = "error" => req'[q] = "error")
         /\ \A d \in Calls : LaneOf(d)' = LaneOf(d) /\ (d # c => Over(d)' = Over(d))
         /\ \A d \in Calls, n \in Names :
              /\ Sent(d, n)' = Sent(d, n) /\ (Waits(d, n)' => Waits(d, n))
              /\ Got(d, n) => Got(d, n)'
              /\ Got(d, n)' => Got(d, n) \/ (d = c /\ n = r[2] /\ outcome = "ok" /\ req[r] = "sent")
         /\ \A q \in Requests : q \in ToSet(line') =>
              \/ In(q) /\ q # r
              \/ r[2] = "begin" /\ q[1] = c /\ q[2] \in Tasks /\ outcome = "ok" /\ req[q] = "held"
         /\ \A d \in Calls : opener[d] # "none" =>
              /\ opener[d] \in Tasks \cup {"begin"} /\ <<d, opener[d]>> \in Requests
              /\ <<d, opener[d]>> \in ToSet(line') <=> In(<<d, opener[d]>>) /\ <<d, opener[d]>> # r
         /\ \A d \in Calls : Sent(d, "query") /\ ~In(<<d, "query">>) => <<d, "query">> \notin ToSet(line')
         /\ \A d \in Calls : Ended(d) => Ended(d)' \/ (d = c /\ r[2] = "begin" /\ outcome = "ok")
         /\ \A d \in Calls : Spent(d) => Spent(d)' /\ \A n \in Tasks : Got(d, n)' = Got(d, n)
         /\ ~Over(c)
<1> USE DEF ClientInv
<1>1. /\ UNCHANGED <<program, pc, active, opener, finish, session, poisoned>>
      /\ \A q \in Requests : New(q) => req[q] \in {"held", "gated", "sent"} /\ req'[q] \in {"sent", "ok", "error"}
  BY DEF Settles, Moves
<1>2. /\ In(r) /\ req[r] \in {"sent", "error"} /\ r \notin ToSet(line')
      /\ req'[r] = IF req[r] = "error" THEN "error" ELSE outcome
      /\ \A q \in Requests : New(q) /\ q # r => req'[q] \in {"sent", "error"}
      /\ \A q \in Requests : In(q) /\ q # r /\ q \notin ToSet(line') => req[q] = "gated" /\ session # "open"
      /\ \A q \in Requests : q \in ToSet(line') /\ ~In(q) =>
           /\ r[2] = "begin" /\ q[1] = r[1] /\ req[q] = "held"
           /\ session = "open" /\ outcome = "ok" /\ req[r] = "sent"
  BY DEF Settles
<1>3. c \in Calls /\ r = <<c, r[2]>> /\ r[2] \in Names
  BY RequestFacts
<1>4. concurrent' = concurrent /\ Transactions' = Transactions
  BY <1>1 DEF concurrent, Transactions
<1>5. \A q \in Requests : Lane(q)' = Lane(q) /\ (req[q] = "error" => req'[q] = "error")
  BY <1>1, <1>4 DEF Lane, New
<1>6. session \in {"open", "closing", "lost"} /\ (req[r] = "sent" => session # "lost")
  <2>1. line # <<>>
    BY <1>2 DEF In, ToSet
  <2> QED BY <2>1 DEF LineInv, Types, DbTypes
<1>7. \A d \in Calls, n \in Names :
         /\ Sent(d, n)' = Sent(d, n) /\ (Waits(d, n)' => Waits(d, n))
         /\ Got(d, n) => Got(d, n)'
         /\ Got(d, n)' => Got(d, n) \/ (<<d, n>> = r /\ outcome = "ok" /\ req[r] = "sent")
  <2>1. \A q \in Requests :
         /\ req'[q] = "unsent" <=> req[q] = "unsent"
         /\ req'[q] \in {"held", "gated", "sent"} => req[q] \in {"held", "gated", "sent"}
         /\ req[q] = "ok" => req'[q] = "ok"
         /\ req'[q] = "ok" => req[q] = "ok" \/ (q = r /\ outcome = "ok" /\ req[r] = "sent")
    BY <1>1, <1>2 DEF New
  <2> QED BY <2>1, RequestFacts DEF Sent, Waits, Got
<1>8. \A d \in Calls, n \in Names : <<d, n>> = r => d = c /\ n = r[2]
  BY <1>3
<1>9. \A d \in Calls : LaneOf(d)' = LaneOf(d) /\ (d # c => Over(d)' = Over(d))
  BY <1>1, <1>4, <1>7, <1>8, NameFacts DEF LaneOf, Over
<1>10. \A q \in Requests : q \in ToSet(line') =>
              \/ In(q) /\ q # r
              \/ r[2] = "begin" /\ q[1] = c /\ q[2] \in Tasks /\ outcome = "ok" /\ req[q] = "held"
  BY <1>2, HeldFacts
<1>11. \A d \in Calls : opener[d] # "none" =>
         /\ opener[d] \in Tasks \cup {"begin"} /\ <<d, opener[d]>> \in Requests
         /\ req[<<d, opener[d]>>] \notin {"held", "gated"}
  BY NameFacts, RequestFacts DEF CallInv, Asked
<1>12. \A d \in Calls : opener[d] # "none" =>
         (<<d, opener[d]>> \in ToSet(line') <=> In(<<d, opener[d]>>) /\ <<d, opener[d]>> # r)
  BY <1>2, <1>10, <1>11
<1>13. \A d \in Calls, n \in Names : n \notin Tasks /\ ~In(<<d, n>>) => <<d, n>> \notin ToSet(line')
  BY <1>10, RequestFacts
<1>14. ASSUME NEW d \in Calls, Ended(d) PROVE Ended(d)' \/ (d = c /\ r[2] = "begin" /\ outcome = "ok")
  <2>1. CASE Sent(d, "commit") /\ ~In(<<d, "commit">>)
    BY <1>7, <1>13, <2>1, NameFacts DEF Ended, In
  <2>2. CASE Sent(d, "rollback") /\ ~In(<<d, "rollback">>)
    BY <1>7, <1>13, <2>2, NameFacts DEF Ended, In
  <2>3. CASE program.transactionEnd /\ Sent(d, "finish") /\ ~In(<<d, "finish">>)
    <3>1. <<d, "finish">> \in Requests /\ Sent(d, "finish")'
      BY <1>7, <2>3, NameFacts, RequestFacts
    <3>2. <<d, "finish">> \in ToSet(line') => d = c /\ r[2] = "begin" /\ outcome = "ok"
      BY <1>10, <2>3, <3>1
    <3> QED BY <1>1, <2>3, <3>1, <3>2 DEF Ended, In
  <2> QED BY <1>14, <2>1, <2>2, <2>3 DEF Ended
<1>15. ASSUME NEW d \in Calls, Spent(d) PROVE Spent(d)' /\ \A n \in Tasks : Got(d, n)' = Got(d, n)
  <2>1. \A n \in Tasks : ~Waits(d, n) /\ ~Waits(d, n)'
    BY <1>7, <1>15, NameFacts DEF Spent
  <2>2. Spent(d)'
    BY <1>1, <1>4, <1>15, <2>1 DEF Spent
  <2>3. \A n \in Tasks : Got(d, n)' = Got(d, n)
    BY <1>3, <1>7, <2>1, NameFacts DEF Waits, Got
  <2> QED BY <2>2, <2>3
<1>16. ~Over(c)
  BY <1>2 DEF LineInv
<1> QED BY <1>1, <1>3, <1>4, <1>5, <1>6, <1>7, <1>8, <1>9, <1>10, <1>11, <1>12, <1>13, <1>14, <1>15,
           <1>16, NameFacts

\* An answer keeps the calls, the line and its order.
LEMMA SettlesKeepsLine ==
  ASSUME ClientInv, Types', NEW r \in Requests, Served(r), NEW outcome \in {"ok", "error"},
         Settles(r, outcome)
  PROVE  (\A d \in Calls : CallInv(d)') /\ LineInv' /\ OrderInv' /\ DoneInv'
<1> USE DEF ClientInv
<1> DEFINE c == r[1]
           l == Lane(r)
<1>1. /\ c \in Calls /\ r = <<c, r[2]>> /\ r[2] \in Names
      /\ UNCHANGED <<program, pc, active, opener, finish, session, poisoned>>
      /\ concurrent' = concurrent /\ Transactions' = Transactions
      /\ session \in {"open", "closing", "lost"} /\ (req[r] = "sent" => session # "lost")
      /\ \A d \in Calls : d # c => Over(d)' = Over(d)
      /\ \A d \in Calls, n \in Names :
           /\ Got(d, n) => Got(d, n)'
           /\ Got(d, n)' => Got(d, n) \/ (d = c /\ n = r[2] /\ outcome = "ok" /\ req[r] = "sent")
      /\ \A q \in Requests : q \in ToSet(line') =>
           \/ In(q) /\ q # r
           \/ r[2] = "begin" /\ q[1] = c /\ q[2] \in Tasks /\ outcome = "ok" /\ req[q] = "held"
      /\ \A d \in Calls : opener[d] # "none" =>
           /\ opener[d] \in Tasks \cup {"begin"} /\ <<d, opener[d]>> \in Requests
           /\ <<d, opener[d]>> \in ToSet(line') <=> In(<<d, opener[d]>>) /\ <<d, opener[d]>> # r
      /\ ~Over(c)
  BY SettlesFacts
<1>2. /\ In(r) /\ (c \notin Transactions => r[2] = "query")
      /\ c \in Transactions =>
           /\ \A q \in Requests : In(q) /\ q[1] = c /\ q # r => Precedes(line, r, q)
           /\ opener[c] # "none" /\ (opener[c] # r[2] => ~In(<<c, opener[c]>>))
  BY ConnFacts
<1>3. /\ line' \in Seq(Requests) /\ IsInjective(line')
      /\ \A q \in Requests : req'[q] \in {"gated", "sent"} => q \in ToSet(line')
      /\ \A q \in Requests : q \in ToSet(line') => req'[q] \in {"gated", "sent", "error"}
      /\ \A p, q \in Requests : Precedes(line', p, q) /\ In(q) => Precedes(line, p, q)
      /\ req[r] \in {"sent", "error"}
      /\ \A q \in Requests : New(q) => req[q] \in {"held", "gated", "sent"}
  BY DEF Settles, Moves
<1> HIDE DEF c, l
<1>4. \A d \in Calls : CallInv(d)'
  BY MovesCalls DEF Settles
<1>5. ASSUME NEW q \in Requests, q \in ToSet(line'), q[1] = c PROVE ~Over(c)'
  <2>1. SUFFICES ASSUME Over(c)' PROVE FALSE
    OBVIOUS
  <2>2. /\ req[r] = "sent"
        /\ r[2] \in {"commit", "rollback"} \/ (program.transactionEnd /\ r[2] = "finish")
    BY <1>1, <2>1, NameFacts DEF Over
  <2>3. In(q) /\ q # r
    BY <1>1, <1>5, <2>2
  <2>4. c \in Transactions
    BY <1>2, <2>2
  <2>5. Precedes(line, r, q)
    BY <1>2, <1>5, <2>3, <2>4
  <2>6. /\ q = <<c, q[2]>> /\ q[2] \in Names /\ req[<<c, r[2]>>] = "sent" /\ Sent(c, q[2])
    BY <1>1, <1>5, <2>2, <2>3, RequestFacts DEF Sent, LineInv
  <2>7. CallInv(c)
    BY <1>1
  <2>8. /\ r[2] # "rollback" /\ (r[2] = "commit" => q[2] = "rollback")
        /\ r[2] = "finish" => q[2] \in {"commit", "rollback"}
    BY <1>1, <1>5, <2>5 DEF OrderInv, c
  <2>9. CASE r[2] = "commit"
    BY <2>6, <2>7, <2>8, <2>9 DEF CallInv, Ending
  <2>10. CASE program.transactionEnd /\ r[2] = "finish"
    <3>1. Sent(c, "finish") /\ req[<<c, "finish">>] = "sent"
      BY <2>6, <2>10 DEF Sent
    <3>2. finish[c] # "none" /\ finish[c] # "failed"
      BY <2>7, <2>10, <3>1 DEF CallInv, Asked, Ending
    <3> QED BY <2>6, <2>7, <2>8, <2>10, <3>2 DEF CallInv, Ending
  <2> QED BY <2>2, <2>8, <2>9, <2>10
<1>6. LineInv'
  <2>1. \A q \in Requests : q \in ToSet(line') => ~Over(q[1])'
    <3>1. ASSUME NEW q \in Requests, q \in ToSet(line'), q[1] # c PROVE ~Over(q[1])'
      <4>1. In(q) /\ q[1] \in Calls
        BY <1>1, <3>1, RequestFacts
      <4> QED BY <1>1, <3>1, <4>1 DEF LineInv
    <3>2. \A q \in Requests : q \in ToSet(line') /\ q[1] = c => ~Over(q[1])'
      BY <1>5
    <3> QED BY <3>1, <3>2
  <2>2. session' # "closed"
    BY <1>1
  <2>3. session' = "lost" => \A q \in Requests : req'[q] \notin {"held", "gated", "sent"}
    BY <1>1, <1>3 DEF LineInv, New
  <2>4. ~concurrent => \A q \in Requests : q \in ToSet(line') => q[1] = c
    BY <1>1, <1>2 DEF LineInv, c
  <2>5. ~concurrent /\ session # "lost" => \A d \in Calls : Running(d) => d = c
    BY <1>2 DEF LineInv, c
  <2> QED BY <1>1, <1>3, <2>1, <2>2, <2>3, <2>4, <2>5 DEF LineInv, In, Running
<1>7. OrderInv'
  <2>1. ASSUME NEW p \in Requests, NEW q \in Requests, Precedes(line', p, q), p[1] = q[1]
        PROVE  /\ q[2] # opener[q[1]] /\ p[2] # "rollback"
               /\ p[2] = "commit" => q[2] = "rollback"
               /\ p[2] = "finish" => q[2] \in {"commit", "rollback"}
    <3>1. CASE In(q)
      BY <1>3, <2>1, <3>1 DEF OrderInv
    <3>2. CASE ~In(q)
      <4>1. p \in ToSet(line') /\ q \in ToSet(line')
        BY <1>3, <2>1, PrecedesIn
      <4>2. q[1] = c /\ req[q] = "held"
        BY <1>1, <3>2, <4>1
      <4>3. /\ q[2] \in Tasks /\ opener[c] = "begin"
            /\ ~Sent(c, "commit") /\ ~Sent(c, "rollback") /\ (Sent(c, "finish") => q[2] = "finish")
        BY <4>2, HeldFacts
      <4>4. p = <<c, p[2]>> /\ q = <<c, q[2]>> /\ Sent(c, p[2])
        <5>1. p = <<c, p[2]>> /\ q = <<c, q[2]>>
          BY <2>1, <4>2, RequestFacts
        <5>2. req[p] # "unsent"
          BY <1>1, <4>1 DEF LineInv
        <5> QED BY <5>1, <5>2 DEF Sent
      <4>5. p[2] = "finish" => p = q
        BY <4>3, <4>4
      <4>6. p # q
        BY <1>3, <2>1, PrecedesIrreflexive
      <4> QED BY <4>2, <4>3, <4>4, <4>5, <4>6, NameFacts
    <3> QED BY <3>1, <3>2
  <2>2. ASSUME NEW d \in Calls, opener[d] # "none", <<d, opener[d]>> \in ToSet(line'), NEW n \in Names
        PROVE  ~Got(d, n)'
    <3>1. In(<<d, opener[d]>>) /\ <<d, opener[d]>> # r
      BY <1>1, <2>2
    <3>2. ~Got(d, n)
      BY <2>2, <3>1 DEF OrderInv
    <3>3. d # c
      <4>1. SUFFICES ASSUME d = c PROVE FALSE
        OBVIOUS
      <4>2. c \in Transactions /\ opener[c] # r[2]
        <5>1. c \in Transactions
          BY <1>1, <2>2, <4>1 DEF CallInv, Phase
        <5> QED BY <1>1, <3>1, <4>1, <5>1
      <4> QED BY <1>2, <3>1, <4>1, <4>2
    <3> QED BY <1>1, <3>2, <3>3
  <2> QED BY <1>1, <2>1, <2>2 DEF OrderInv, In
<1>8. DoneInv'
  <2>1. \A d \in Calls : Over(d) => Over(d)'
    BY <1>1, NameFacts DEF Over
  <2> QED BY <1>1, <2>1 DEF DoneInv, Transactions
<1> QED BY <1>4, <1>6, <1>7, <1>8

\* A lane of which the answered request is none.
LEMMA SettlesElsewhere ==
  ASSUME ClientInv, Types', NEW r \in Requests, Served(r), NEW outcome \in {"ok", "error"},
         Settles(r, outcome), NEW d \in Calls, NEW k \in Lanes, d # r[1], Holds(d, k), ~Durable(d),
         db'[k] = db[k], commits' = commits \/ \E s : commits' = commits \cup {s} /\ \A q \in s : q[1] # d
  PROVE  Holds(d, k)' /\ ~Durable(d)'
<1> USE DEF ClientInv
<1> DEFINE c == r[1]
<1>1. /\ c \in Calls /\ UNCHANGED <<program, opener>>
      /\ Transactions' = Transactions
      /\ \A q \in Requests : Lane(q)' = Lane(q) /\ (req[q] = "error" => req'[q] = "error")
      /\ LaneOf(d)' = LaneOf(d) /\ Over(d)' = Over(d)
      /\ \A n \in Names : Got(d, n)' => Got(d, n)
      /\ \A q \in Requests : q \in ToSet(line') =>
           In(q) \/ (r[2] = "begin" /\ q[1] = c)
      /\ opener[d] # "none" =>
           (<<d, opener[d]>> \in ToSet(line') <=> In(<<d, opener[d]>>) /\ <<d, opener[d]>> # r)
  BY SettlesFacts
<1>2. In(r) /\ (c \notin Transactions => r[2] = "query")
  BY ConnFacts
<1>3. /\ d \in Transactions /\ k = LaneOf(d) /\ opener[d] # "none" /\ ~Over(d)
      /\ ~In(<<d, opener[d]>>)
      /\ \A q \in Requests : In(q) /\ Lane(q) = k => q[1] = d
      /\ \A n \in Tasks : Got(d, n) => <<d, n>> \in db[k].rows
      /\ \A q \in db[k].rows : q[1] = d /\ q[2] \in Tasks
      /\ db[k].state # "open" => \E n \in Tasks : req[<<d, n>>] = "error"
  BY DEF Holds
<1>4. r[2] = "begin" => Lane(r) # k
  BY <1>2, <1>3
<1>5. ASSUME NEW q \in Requests, q \in ToSet(line'), Lane(q) = k PROVE q[1] = d
  <2>1. CASE In(q)
    BY <1>3, <1>5, <2>1
  <2>2. CASE ~In(q)
    <3>1. r[2] = "begin" /\ Lane(q) = Lane(r)
      BY <1>1, <1>5, <2>2 DEF Lane
    <3> QED BY <1>4, <1>5, <3>1
  <2> QED BY <2>1, <2>2
<1>6. \A n \in Tasks : req[<<d, n>>] = "error" => req'[<<d, n>>] = "error"
  BY <1>1, NameFacts, RequestFacts
<1>7. Holds(d, k)'
  BY <1>1, <1>3, <1>5, <1>6, NameFacts DEF Holds, In
<1>8. ~Durable(d)'
  <2>1. CASE commits' = commits
    BY <2>1 DEF Durable
  <2>2. CASE \E s : commits' = commits \cup {s} /\ \A q \in s : q[1] # d
    BY <2>2 DEF Durable
  <2> QED BY <2>1, <2>2
<1> QED BY <1>7, <1>8

\* An answer that does nothing to the database, or lets a COMMIT find nothing.
LEMMA StaysKeeps ==
  ASSUME ClientInv, Types', NEW r \in Requests, Served(r), NEW outcome \in {"ok", "error"},
         Settles(r, outcome), Stays(r, outcome)
  PROVE  HolderInv' /\ OpenInv' /\ CommitInv' /\ KeepInv'
<1> USE DEF ClientInv
<1> DEFINE c == r[1]
<1>1. /\ c \in Calls /\ r = <<c, r[2]>> /\ r[2] \in Names
      /\ UNCHANGED <<program, opener, finish, session>>
      /\ concurrent' = concurrent /\ Transactions' = Transactions
      /\ \A q \in Requests : Lane(q)' = Lane(q) /\ (req[q] = "error" => req'[q] = "error")
      /\ \A d \in Calls : LaneOf(d)' = LaneOf(d) /\ (d # c => Over(d)' = Over(d))
      /\ \A d \in Calls, n \in Names :
           /\ Sent(d, n)' = Sent(d, n)
           /\ Got(d, n) => Got(d, n)'
           /\ Got(d, n)' => Got(d, n) \/ (d = c /\ n = r[2] /\ outcome = "ok" /\ req[r] = "sent")
      /\ \A q \in Requests : q \in ToSet(line') =>
           \/ In(q) /\ q # r
           \/ r[2] = "begin" /\ q[1] = c /\ q[2] \in Tasks /\ outcome = "ok" /\ req[q] = "held"
      /\ \A d \in Calls : opener[d] # "none" =>
           /\ opener[d] \in Tasks \cup {"begin"} /\ <<d, opener[d]>> \in Requests
           /\ <<d, opener[d]>> \in ToSet(line') <=> In(<<d, opener[d]>>) /\ <<d, opener[d]>> # r
      /\ \A d \in Calls : Sent(d, "query") /\ ~In(<<d, "query">>) => <<d, "query">> \notin ToSet(line')
      /\ \A d \in Calls : Ended(d) => Ended(d)' \/ (d = c /\ r[2] = "begin" /\ outcome = "ok")
      /\ \A d \in Calls : Spent(d) => Spent(d)'
      /\ ~Over(c)
  BY SettlesFacts
<1>2. outcome = "error" /\ UNCHANGED <<db, commits>> /\ (opener[c] = r[2] => concurrent)
  BY DEF Stays
<1>3. req'[r] = "error"
  BY <1>2 DEF Settles
<1> HIDE DEF c
<1>4. \A d \in Calls, n \in Names : Got(d, n)' = Got(d, n)
  BY <1>1, <1>2 DEF Got
<1>5. \A d \in Calls : Over(d)' = Over(d) /\ Durable(d)' = Durable(d)
  BY <1>1, <1>2, <1>4, NameFacts DEF Over, Durable
<1>6. \A q \in Requests : q \in ToSet(line') => In(q)
  BY <1>1, <1>2
<1>7. HolderInv'
  <2>1. ASSUME NEW d \in Calls, NEW k \in Lanes, Holds(d, k) PROVE Holds(d, k)'
    <3>1. /\ d \in Transactions /\ k = LaneOf(d) /\ opener[d] # "none" /\ ~Over(d)
          /\ ~In(<<d, opener[d]>>)
          /\ \A q \in Requests : In(q) /\ Lane(q) = k => q[1] = d
          /\ \A n \in Tasks : Got(d, n) => <<d, n>> \in db[k].rows
          /\ \A q \in db[k].rows : q[1] = d /\ q[2] \in Tasks
          /\ db[k].state # "open" => \E n \in Tasks : req[<<d, n>>] = "error"
      BY <2>1 DEF Holds
    <3>2. \A n \in Tasks : req[<<d, n>>] = "error" => req'[<<d, n>>] = "error"
      BY <1>1, NameFacts, RequestFacts
    <3> QED BY <1>1, <1>2, <1>4, <1>5, <1>6, <3>1, <3>2, NameFacts DEF Holds, In
  <2> QED BY <1>2, <1>5, <2>1 DEF HolderInv
<1>8. OpenInv'
  <2>1. ASSUME NEW d \in Transactions, opener[d] # "none", <<d, opener[d]>> \notin ToSet(line')
        PROVE  /\ session \in {"open", "closing"} /\ ~Ended(d)' =>
                    \/ db[LaneOf(d)].state # "none"
                    \/ req'[<<d, opener[d]>>] = "error" /\ (concurrent \/ session # "open")
               /\ ~concurrent /\ (\E n \in Tasks : <<d, n>> \in ToSet(line')) => db[None].state # "none"
    <3>0. d \in Calls
      BY DEF Transactions
    <3>1. CASE In(<<d, opener[d]>>)
      <4>1. <<d, opener[d]>> = r
        BY <1>1, <2>1, <3>0, <3>1
      <4>2. d = c /\ opener[c] = r[2]
        BY <1>1, <4>1
      <4> QED BY <1>2, <1>3, <4>1, <4>2
    <3>2. CASE ~In(<<d, opener[d]>>)
      <4>1. /\ session \in {"open", "closing"} /\ ~Ended(d) =>
                 \/ db[LaneOf(d)].state # "none"
                 \/ req[<<d, opener[d]>>] = "error" /\ (concurrent \/ session # "open")
            /\ ~concurrent /\ (\E n \in Tasks : In(<<d, n>>)) => db[None].state # "none"
        BY <2>1, <3>2 DEF OpenInv
      <4>2. Ended(d) => Ended(d)'
        BY <1>1, <1>2, <3>0
      <4>3. \A n \in Tasks : <<d, n>> \in ToSet(line') => In(<<d, n>>)
        BY <1>6, <3>0, NameFacts, RequestFacts
      <4> QED BY <1>1, <2>1, <3>0, <4>1, <4>2, <4>3
    <3> QED BY <3>1, <3>2
  <2>2. \A d \in Transactions : d \in Calls
    BY DEF Transactions
  <2> QED BY <1>1, <1>2, <2>1, <2>2 DEF OpenInv, In
<1>9. CommitInv'
  <2>1. ASSUME NEW d \in Calls, Durable(d)
        PROVE  IF d \in Transactions
               THEN /\ opener[d] # "none" /\ <<d, opener[d]>> \notin ToSet(line')
                    /\ Sent(d, "commit")' \/ finish[d] # "none"
               ELSE Sent(d, "query")' /\ <<d, "query">> \notin ToSet(line')
    BY <1>1, <2>1, NameFacts DEF CommitInv
  <2>2. \A d \in Calls, n \in Tasks : Got(d, n)' = Got(d, n)
    BY <1>4, NameFacts
  <2> QED BY <1>1, <1>2, <1>5, <2>1, <2>2 DEF CommitInv, In
<1>10. KeepInv'
  <2>1. ASSUME NEW d \in Calls, Whole(d)' PROVE Whole(d)
    <3>1. \A n \in Tasks \cup {"begin"} : n \in Names /\ <<d, n>> \in Requests
      BY NameFacts, RequestFacts
    <3> QED BY <1>1, <1>4, <2>1, <3>1 DEF Whole
  <2>2. \A d \in Calls : Confirmed(d)' = Confirmed(d) /\ Got(d, "query")' = Got(d, "query")
    BY <1>1, <1>4, NameFacts DEF Confirmed
  <2> QED BY <1>5, <2>1, <2>2 DEF KeepInv
<1> QED BY <1>7, <1>8, <1>9, <1>10

\* An answer that leaves the transaction open.
LEMMA OpenedKeeps ==
  ASSUME ClientInv, Types', NEW r \in Requests, Served(r), NEW outcome \in {"ok", "error"},
         Settles(r, outcome), Opened(r, outcome)
  PROVE  HolderInv' /\ OpenInv' /\ CommitInv' /\ KeepInv'
<1> USE DEF ClientInv
<1> DEFINE c == r[1]
<1>0. PICK l : l = Lane(r)
  OBVIOUS
<1>1. /\ c \in Calls /\ r = <<c, r[2]>> /\ r[2] \in Names
      /\ UNCHANGED <<program, opener, finish, session>>
      /\ concurrent' = concurrent /\ Transactions' = Transactions
      /\ \A q \in Requests : Lane(q)' = Lane(q) /\ (req[q] = "error" => req'[q] = "error")
      /\ \A d \in Calls : LaneOf(d)' = LaneOf(d) /\ (d # c => Over(d)' = Over(d))
      /\ \A d \in Calls, n \in Names :
           /\ Sent(d, n)' = Sent(d, n)
           /\ Got(d, n) => Got(d, n)'
           /\ Got(d, n)' => Got(d, n) \/ (d = c /\ n = r[2] /\ outcome = "ok" /\ req[r] = "sent")
      /\ \A q \in Requests : q \in ToSet(line') =>
           \/ In(q) /\ q # r
           \/ r[2] = "begin" /\ q[1] = c /\ q[2] \in Tasks /\ outcome = "ok" /\ req[q] = "held"
      /\ \A d \in Calls : opener[d] # "none" =>
           /\ opener[d] \in Tasks \cup {"begin"} /\ <<d, opener[d]>> \in Requests
           /\ <<d, opener[d]>> \in ToSet(line') <=> In(<<d, opener[d]>>) /\ <<d, opener[d]>> # r
      /\ \A d \in Calls : Sent(d, "query") /\ ~In(<<d, "query">>) => <<d, "query">> \notin ToSet(line')
      /\ \A d \in Calls : Ended(d) => Ended(d)' \/ (d = c /\ r[2] = "begin" /\ outcome = "ok")
      /\ \A d \in Calls : Spent(d) => Spent(d)' /\ \A n \in Tasks : Got(d, n)' = Got(d, n)
      /\ ~Over(c)
  BY SettlesFacts
<1>2. /\ c \in Transactions /\ commits' = commits /\ r[2] \in Tasks \cup {"begin"}
      /\ Conn(r).state = "none" => opener[c] = r[2]
  BY DEF Opened
<1>3. PICK s \in {"open", "aborted", "broken"}, rows \in {Conn(r).rows, Conn(r).rows \cup {r}} :
        /\ db' = [db EXCEPT ![Lane(r)] = [state |-> s, rows |-> rows]]
        /\ outcome = "ok" => s = "open" /\ ~Ends(r) /\ (r[2] \in Tasks => r \in rows)
        /\ s # "open" => outcome = "error" /\ r[2] \in Tasks
        /\ rows # Conn(r).rows => r[2] \in Tasks
  BY DEF Opened
<1>4. /\ l \in Lanes /\ l = LaneOf(c) /\ In(r) /\ Conn(r) = db[l]
      /\ db[l].state = "none" => db[l].rows = {}
      /\ opener[c] # "none"
      /\ \A q \in Requests : In(q) /\ Lane(q) = l => q[1] = c
      /\ db[l].state # "none" => Holds(c, l) /\ ~Durable(c)
      /\ IF opener[c] = r[2]
         THEN db[l].state = "none" /\ ~Durable(c) /\ \A n \in Names : ~Got(c, n)
         ELSE ~In(<<c, opener[c]>>)
  BY <1>0, <1>2, ConnFacts
<1>5. req'[r] = IF req[r] = "error" THEN "error" ELSE outcome
  BY DEF Settles
<1>6. \A q \in Requests : q[1] = c => Lane(q) = l
  BY <1>0 DEF Lane
<1> HIDE DEF c
<1>7. db'[l].state = s /\ db'[l].rows = rows /\ \A k \in Lanes : k # l => db'[k] = db[k]
  BY <1>0, <1>3, <1>4 DEF Types, DbTypes
<1>8. \A d \in Calls : Durable(d)' = Durable(d)
  BY <1>2 DEF Durable
<1>9. ~Over(c)'
  <2>1. \A n \in {"commit", "rollback"} : Got(c, n)' = Got(c, n)
    BY <1>1, <1>2, NameFacts DEF Got
  <2>2. program.transactionEnd => Got(c, "finish")' = Got(c, "finish")
    BY <1>1, <1>3, NameFacts DEF Ends, Got
  <2> QED BY <1>1, <2>1, <2>2 DEF Over
<1>10. <<c, opener[c]>> \notin ToSet(line')
  BY <1>1, <1>2, <1>4
<1>11. Holds(c, l)' /\ ~Durable(c)'
  <2>1. ~Durable(c)
    BY <1>2, <1>4
  <2>2. \A q \in Requests : q \in ToSet(line') /\ Lane(q) = l => q[1] = c
    BY <1>1, <1>4
  <2>3. ASSUME NEW n \in Tasks, Got(c, n)' PROVE <<c, n>> \in rows
    <3>1. CASE Got(c, n)
      <4>1. db[l].state # "none" /\ <<c, n>> \in db[l].rows
        BY <1>2, <1>4, <3>1, NameFacts DEF Holds
      <4> QED BY <1>3, <1>4, <4>1
    <3>2. CASE ~Got(c, n)
      BY <1>1, <1>3, <2>3, <3>2, NameFacts
    <3> QED BY <3>1, <3>2
  <2>4. ASSUME NEW q \in rows PROVE q[1] = c /\ q[2] \in Tasks
    <3>1. q \in db[l].rows \/ (q = r /\ r[2] \in Tasks)
      BY <1>3, <1>4
    <3>2. \A p \in db[l].rows : p[1] = c /\ p[2] \in Tasks
      BY <1>4 DEF Holds
    <3> QED BY <1>1, <3>1, <3>2
  <2>5. s # "open" => \E n \in Tasks : req'[<<c, n>>] = "error"
    BY <1>1, <1>3, <1>5
  <2>6. /\ c \in Transactions' /\ l = LaneOf(c)' /\ opener'[c] # "none" /\ ~Over(c)'
        /\ ~In(<<c, opener[c]>>)'
    BY <1>1, <1>2, <1>4, <1>9, <1>10 DEF In
  <2>7. \A q \in Requests : In(q)' /\ Lane(q)' = l => q[1] = c
    BY <1>1, <2>2 DEF In
  <2>8. /\ \A n \in Tasks : Got(c, n)' => <<c, n>> \in db'[l].rows
        /\ \A q \in db'[l].rows : q[1] = c /\ q[2] \in Tasks
        /\ db'[l].state # "open" => \E n \in Tasks : req'[<<c, n>>] = "error"
    BY <1>7, <2>3, <2>4, <2>5
  <2>9. Holds(c, l)'
    BY <2>6, <2>7, <2>8, Zenon DEF Holds
  <2> QED BY <1>1, <1>8, <2>1, <2>9
<1>12. HolderInv'
  <2>1. ASSUME NEW k \in Lanes, k # l
        PROVE  IF db'[k].state = "none" THEN db'[k].rows = {}
               ELSE \E d \in Calls : Holds(d, k)' /\ ~Durable(d)'
    <3>1. CASE db[k].state = "none"
      BY <1>7, <2>1, <3>1 DEF HolderInv
    <3>2. CASE db[k].state # "none"
      <4>1. PICK d \in Calls : Holds(d, k) /\ ~Durable(d)
        BY <3>2 DEF HolderInv
      <4>2. d # r[1]
        BY <1>4, <2>1, <4>1 DEF Holds, c
      <4>3. Holds(d, k)' /\ ~Durable(d)'
        BY <1>2, <1>7, <2>1, <4>1, <4>2, SettlesElsewhere
      <4> QED BY <1>7, <2>1, <3>2, <4>3
    <3> QED BY <3>1, <3>2
  <2>2. db'[l].state # "none"
    BY <1>7
  <2> QED BY <1>1, <1>11, <2>1, <2>2 DEF HolderInv
<1>13. OpenInv'
  <2>1. ASSUME NEW d \in Transactions, opener[d] # "none", <<d, opener[d]>> \notin ToSet(line'),
               d # c, concurrent
        PROVE  session \in {"open", "closing"} /\ ~Ended(d)' =>
                    \/ db'[LaneOf(d)].state # "none"
                    \/ req'[<<d, opener[d]>>] = "error"
    <3>0. d \in Calls /\ LaneOf(d) # l /\ LaneOf(d) \in Lanes
      BY <1>2, <1>4, <2>1 DEF Transactions, LaneOf, Lanes
    <3>1. ~In(<<d, opener[d]>>)
      BY <1>1, <2>1, <3>0
    <3>2. session \in {"open", "closing"} /\ ~Ended(d) =>
               \/ db[LaneOf(d)].state # "none"
               \/ req[<<d, opener[d]>>] = "error"
      BY <2>1, <3>1 DEF OpenInv
    <3>3. Ended(d) => Ended(d)'
      BY <1>1, <2>1, <3>0
    <3> QED BY <1>1, <1>7, <2>1, <3>0, <3>2, <3>3
  <2>2. ~concurrent => l = None /\ \A d \in Calls : LaneOf(d) = None
    BY <1>4 DEF LaneOf
  <2>3. \A d \in Transactions : d \in Calls
    BY DEF Transactions
  <2>4. db'[l].state # "none"
    BY <1>7
  <2> QED BY <1>1, <1>4, <2>1, <2>2, <2>3, <2>4 DEF OpenInv, In
<1>14. CommitInv'
  <2>1. ASSUME NEW d \in Calls, Durable(d)
        PROVE  IF d \in Transactions
               THEN /\ opener[d] # "none" /\ <<d, opener[d]>> \notin ToSet(line')
                    /\ Sent(d, "commit")' \/ finish[d] # "none"
               ELSE Sent(d, "query")' /\ <<d, "query">> \notin ToSet(line')
    BY <1>1, <2>1, NameFacts DEF CommitInv
  <2> QED BY <1>1, <1>2, <1>8, <2>1 DEF CommitInv, In
<1>15. KeepInv'
  <2>1. ASSUME NEW d \in Calls, Confirmed(d)', Whole(d)' PROVE Durable(d)
    <3>1. d # c
      BY <1>1, <1>9, <2>1 DEF Confirmed, Over
    <3>2. \A n \in Tasks \cup {"begin"} : n \in Names /\ <<d, n>> \in Requests
      BY NameFacts, RequestFacts
    <3>3. Whole(d)
      BY <1>1, <2>1, <3>1, <3>2 DEF Whole
    <3>4. Confirmed(d)
      BY <1>1, <2>1, <3>1, NameFacts DEF Confirmed
    <3> QED BY <3>3, <3>4 DEF KeepInv
  <2>2. \A d \in Calls : Got(d, "query")' => Got(d, "query")
    BY <1>1, <1>2, NameFacts
  <2> QED BY <1>8, <2>1, <2>2 DEF KeepInv
<1> QED BY <1>12, <1>13, <1>14, <1>15

\* An answer that ends the transaction: what it writes is whole.
LEMMA ClosedCommits ==
  ASSUME ClientInv, Types', NEW r \in Requests, Served(r), NEW outcome \in {"ok", "error"},
         Settles(r, outcome), Closed(r, outcome)
  PROVE  CommitInv' /\ KeepInv'
<1> USE DEF ClientInv
<1> DEFINE c == r[1]
           l == Lane(r)
           new == Conn(r).rows \cup ({r} \cap Work(c))
<1>1. /\ c \in Calls /\ r = <<c, r[2]>> /\ r[2] \in Names
      /\ UNCHANGED <<program, active, opener, finish, session>>
      /\ concurrent' = concurrent /\ Transactions' = Transactions
      /\ session \in {"open", "closing", "lost"} /\ (req[r] = "sent" => session # "lost")
      /\ \A q \in Requests : (req[q] = "error" => req'[q] = "error")
      /\ \A d \in Calls, n \in Names :
           /\ Sent(d, n)' = Sent(d, n) /\ (Waits(d, n)' => Waits(d, n))
           /\ Got(d, n) => Got(d, n)'
           /\ Got(d, n)' => Got(d, n) \/ (d = c /\ n = r[2] /\ outcome = "ok" /\ req[r] = "sent")
      /\ \A d \in Calls : opener[d] # "none" =>
           /\ opener[d] \in Tasks \cup {"begin"} /\ <<d, opener[d]>> \in Requests
           /\ <<d, opener[d]>> \in ToSet(line') <=> In(<<d, opener[d]>>) /\ <<d, opener[d]>> # r
      /\ \A d \in Calls : Sent(d, "query") /\ ~In(<<d, "query">>) => <<d, "query">> \notin ToSet(line')
      /\ \A d \in Calls : Spent(d) => Spent(d)' /\ \A n \in Tasks : Got(d, n)' = Got(d, n)
      /\ ~Over(c)
  BY SettlesFacts
<1>2. /\ l \in Lanes /\ l = LaneOf(c) /\ In(r) /\ Conn(r) = db[l]
      /\ db[l].state = "none" => db[l].rows = {}
      /\ c \in Transactions /\ opener[c] # "none"
      /\ db[l].state # "none" => Holds(c, l) /\ ~Durable(c)
      /\ IF opener[c] = r[2]
         THEN db[l].state = "none" /\ ~Durable(c) /\ \A n \in Names : ~Got(c, n)
         ELSE ~In(<<c, opener[c]>>)
  BY ConnFacts DEF Closed
<1>3. /\ r[2] \in {"commit", "rollback"} \/ (r[2] = "finish" /\ program.transactionEnd)
      /\ \/ /\ commits' = commits
            /\ \/ r[2] = "rollback" \/ outcome = "error"
               \/ r[2] = "commit" /\ db[l].state = "aborted"
               \/ r[2] = "commit" /\ db[l].state = "none" /\ ~concurrent
         \/ /\ commits' = commits \cup {new}
            /\ r[2] # "rollback"
            /\ db[l].state # "none" \/ opener[c] = r[2]
  BY <1>2 DEF Closed, Ends
<1>4. /\ req'[r] = IF req[r] = "error" THEN "error" ELSE outcome
      /\ req[r] \in {"sent", "error"} /\ Sent(c, r[2]) /\ CallInv(c)
  BY <1>1 DEF Settles, Sent
<1>5. r \in Work(c) <=> r[2] = "finish"
  <2>1. r[2] = "finish" => <<c, r[2]>> \in Work(c)
    BY DEF Work
  <2>2. r \in Work(c) => r[2] \in Tasks
    BY DEF Work, Tasks
  <2> QED BY <1>1, <1>3, <2>1, <2>2, NameFacts
<1> HIDE DEF c, l
<1>6. /\ \A q \in new : q[1] = c /\ q[2] \in Tasks
      /\ r[2] = "finish" => r \in new
      /\ db[l].rows \subseteq new
  <2>1. \A q \in db[l].rows : q[1] = c /\ q[2] \in Tasks
    BY <1>2 DEF Holds
  <2> QED BY <1>1, <1>2, <1>5, <2>1, NameFacts
<1> HIDE DEF new
<1>7. ASSUME db[l].state # "none" \/ opener[c] = r[2], NEW n \in Tasks, Got(c, n)'
      PROVE  <<c, n>> \in new
  <2>1. CASE Got(c, n)
    <3>1. db[l].state # "none"
      BY <1>2, <1>7, <2>1, NameFacts
    <3> QED BY <1>2, <1>6, <2>1, <3>1 DEF Holds
  <2>2. CASE ~Got(c, n)
    BY <1>1, <1>3, <1>6, <1>7, <2>2, NameFacts
  <2> QED BY <2>1, <2>2
<1>8. ASSUME r[2] # "rollback" PROVE Spent(c)'
  <2>1. \A n \in Tasks : ~Waits(c, n)'
    <3>1. ASSUME NEW n \in Tasks, Waits(c, n)' PROVE FALSE
      <4>1. Waits(c, n)
        BY <1>1, <3>1, NameFacts
      <4>2. r[2] = "finish" /\ n = "finish"
        BY <1>3, <1>4, <1>8, <4>1 DEF CallInv, Awaiting
      <4>3. req'[r] \in {"ok", "error"} /\ r = <<c, n>>
        BY <1>1, <1>4, <4>2
      <4> QED BY <3>1, <4>3 DEF Waits
    <3> QED BY <3>1
  <2>2. ~active[c] /\ finish[c] # "draining"
    <3>1. CASE r[2] = "commit"
      BY <1>2, <1>4, <3>1 DEF CallInv, Phase, Ending
    <3>2. CASE r[2] = "finish"
      BY <1>4, <3>2 DEF CallInv, Phase, Asked
    <3> QED BY <1>3, <1>8, <3>1, <3>2
  <2> QED BY <1>1, <1>2, <2>1, <2>2 DEF Spent
<1>9. ~Durable(c) \/ commits' = commits
  BY <1>2, <1>3
<1>10. \A d \in Calls : Durable(d) => Durable(d)'
  BY <1>3 DEF Durable
<1>11. \A d \in Calls : d # c => (Durable(d)' => Durable(d))
  BY <1>3, <1>6 DEF Durable
<1>12. ASSUME NEW d \in Calls, Durable(d)'
       PROVE  IF d \in Transactions
              THEN /\ opener[d] # "none" /\ <<d, opener[d]>> \notin ToSet(line')
                   /\ Sent(d, "commit")' \/ finish[d] # "none"
              ELSE Sent(d, "query")' /\ <<d, "query">> \notin ToSet(line')
  <2>1. CASE Durable(d)
    BY <1>1, <2>1, NameFacts DEF CommitInv
  <2>2. CASE ~Durable(d)
    <3>1. d = c /\ r[2] # "rollback"
      BY <1>3, <1>11, <1>12, <2>2 DEF Durable
    <3>2. Sent(c, "commit")' \/ finish[c] # "none"
      BY <1>1, <1>3, <1>4, <3>1, NameFacts DEF CallInv, Asked
    <3>3. <<c, opener[c]>> \notin ToSet(line')
      BY <1>1, <1>2
    <3> QED BY <1>2, <3>1, <3>2, <3>3
  <2> QED BY <2>1, <2>2
<1>13. CommitInv'
  <2>1. ASSUME NEW s \in commits'
        PROVE  \E d \in Calls : /\ \A q \in s : q[1] = d /\ q[2] \in Tasks \cup {"query"}
                                /\ \A n \in Tasks : Got(d, n)' => <<d, n>> \in s
                                /\ Spent(d)'
    <3>1. CASE s \in commits
      <4>1. PICK d \in Calls : /\ \A q \in s : q[1] = d /\ q[2] \in Tasks \cup {"query"}
                               /\ \A n \in Tasks : Got(d, n) => <<d, n>> \in s
                               /\ Spent(d)
        BY <3>1 DEF CommitInv
      <4>2. Spent(d)' /\ \A n \in Tasks : Got(d, n)' = Got(d, n)
        BY <1>1, <4>1
      <4> QED BY <4>1, <4>2
    <3>2. CASE s \notin commits
      <4>1. s = new /\ r[2] # "rollback" /\ (db[l].state # "none" \/ opener[c] = r[2])
        BY <1>3, <2>1, <3>2
      <4>2. \A n \in Tasks : Got(c, n)' => <<c, n>> \in s
        BY <1>7, <4>1
      <4> QED BY <1>1, <1>6, <1>8, <4>1, <4>2
    <3> QED BY <3>1, <3>2
  <2>2. ASSUME NEW s \in commits', NEW t \in commits', NEW p \in s, NEW q \in t, p[1] = q[1]
        PROVE  s = t
    <3>1. CASE s \in commits /\ t \in commits
      BY <2>2, <3>1 DEF CommitInv
    <3>2. \A a \in commits' : a \notin commits => a = new /\ ~Durable(c)
      BY <1>3, <1>9
    <3>3. s \in commits => t \in commits \/ p[1] # c
      BY <2>2, <3>2 DEF Durable
    <3>4. t \in commits => s \in commits \/ q[1] # c
      BY <2>2, <3>2 DEF Durable
    <3>5. (s \notin commits => p[1] = c) /\ (t \notin commits => q[1] = c)
      BY <1>6, <2>2, <3>2
    <3> QED BY <2>2, <3>1, <3>2, <3>3, <3>4, <3>5
  <2> QED BY <1>1, <1>12, <2>1, <2>2 DEF CommitInv, In
<1>14. ASSUME Confirmed(c)', Whole(c)' PROVE Durable(c)'
  <2>1. req[r] = "sent" /\ outcome = "ok" /\ (r[2] = "commit" \/ r[2] = "finish")
    BY <1>1, <1>14, NameFacts DEF Confirmed, Over
  <2>2. /\ \E n \in Tasks : Got(c, n)'
        /\ \A n \in Tasks \cup {"begin"} : req'[<<c, n>>] # "error"
    BY <1>14 DEF Whole
  <2>3. PICK n \in Tasks : Got(c, n)'
    BY <2>2
  <2>4. \A m \in Tasks \cup {"begin"} : m \in Names /\ <<c, m>> \in Requests
    BY <1>1, NameFacts, RequestFacts
  <2>5. \A m \in Tasks \cup {"begin"} : req[<<c, m>>] # "error"
    BY <1>1, <2>2, <2>4
  <2>6. CASE commits' = commits \cup {new} /\ (db[l].state # "none" \/ opener[c] = r[2])
    <3>1. <<c, n>> \in new
      BY <1>3, <1>7, <2>1, <2>3, <2>6
    <3> QED BY <2>6, <3>1 DEF Durable
  <2>7. CASE r[2] = "commit" /\ db[l].state = "aborted"
    BY <1>2, <2>5, <2>7 DEF Holds
  <2>8. CASE r[2] = "commit" /\ db[l].state = "none" /\ ~concurrent
    <3>1. opener[c] # "commit" /\ ~In(<<c, opener[c]>>) /\ opener[c] \in Tasks \cup {"begin"}
      BY <1>1, <1>2, <2>8, NameFacts
    <3>2. session \in {"open", "closing"}
      BY <1>1, <2>1
    <3>3. ~Ended(c)
      <4>1. In(<<c, "commit">>) /\ req[<<c, "commit">>] = "sent"
        BY <1>1, <1>2, <2>1, <2>8
      <4>2. ~Sent(c, "rollback")
        BY <1>4, <4>1 DEF CallInv, Ending
      <4>3. program.transactionEnd => ~Sent(c, "finish")
        BY <1>4, <2>8 DEF CallInv, Asked, Ending
      <4> QED BY <4>1, <4>2, <4>3 DEF Ended
    <3>4. db[LaneOf(c)].state # "none" \/ req[<<c, opener[c]>>] = "error"
      BY <1>2, <3>1, <3>2, <3>3 DEF OpenInv
    <3> QED BY <1>2, <2>5, <2>8, <3>1, <3>4
  <2> QED BY <1>3, <2>1, <2>6, <2>7, <2>8
<1>15. KeepInv'
  <2>1. ASSUME NEW d \in Calls, d # c, Confirmed(d)', Whole(d)' PROVE Durable(d)'
    <3>1. \A n \in Tasks \cup {"begin"} : n \in Names /\ <<d, n>> \in Requests
      BY NameFacts, RequestFacts
    <3>2. Whole(d)
      BY <1>1, <2>1, <3>1 DEF Whole
    <3>3. Confirmed(d)
      BY <1>1, <2>1, NameFacts DEF Confirmed
    <3> QED BY <1>10, <3>2, <3>3 DEF KeepInv
  <2>2. \A d \in Calls : Got(d, "query")' => Got(d, "query")
    BY <1>1, <1>3, NameFacts
  <2> QED BY <1>10, <1>14, <2>1, <2>2 DEF KeepInv
<1> QED BY <1>13, <1>15

\* An answer that ends the transaction: its lane is free.
LEMMA ClosedKeeps ==
  ASSUME ClientInv, Types', NEW r \in Requests, Served(r), NEW outcome \in {"ok", "error"},
         Settles(r, outcome), Closed(r, outcome)
  PROVE  HolderInv' /\ OpenInv'
<1> DEFINE c == r[1]
           l == Lane(r)
<1>1. /\ c \in Calls /\ r = <<c, r[2]>> /\ r[2] \in Names
      /\ UNCHANGED <<program, pc, opener, session>>
      /\ concurrent' = concurrent /\ Transactions' = Transactions
      /\ session \in {"open", "closing", "lost"}
      /\ \A q \in Requests : (req[q] = "error" => req'[q] = "error")
      /\ \A d \in Calls : LaneOf(d)' = LaneOf(d)
      /\ \A d \in Calls, n \in Names : Sent(d, n)' = Sent(d, n)
      /\ \A q \in Requests : q \in ToSet(line') => (In(q) /\ q # r) \/ r[2] = "begin"
      /\ \A d \in Calls : opener[d] # "none" =>
           (<<d, opener[d]>> \in ToSet(line') <=> In(<<d, opener[d]>>) /\ <<d, opener[d]>> # r)
      /\ \A d \in Calls : Ended(d) => Ended(d)' \/ (d = c /\ r[2] = "begin" /\ outcome = "ok")
  BY SettlesFacts
<1>0. c \in Transactions
  BY DEF Closed
<1>2. /\ l \in Lanes /\ l = LaneOf(c) /\ In(r) /\ Conn(r) = db[l]
      /\ db[l].state = "none" => db[l].rows = {}
      /\ c \in Transactions
      /\ \A q \in Requests : In(q) /\ q[1] = c /\ q # r => Precedes(line, r, q)
      /\ db[l].state # "none" => Holds(c, l)
  BY <1>0, FirstServed
<1> USE DEF ClientInv
<1>3. /\ r[2] \in {"commit", "rollback"} \/ (r[2] = "finish" /\ program.transactionEnd)
      /\ db' = [db EXCEPT ![Lane(r)] = [state |-> "none", rows |-> {}]]
      /\ \/ commits' = commits
         \/ commits' = commits \cup {Conn(r).rows \cup ({r} \cap Work(r[1]))}
  BY DEF Closed, Ends
<1>4. r \notin ToSet(line') /\ req[r] # "unsent"
  BY DEF Settles
<1> HIDE DEF c, l
<1>5. db'[l].state = "none" /\ db'[l].rows = {} /\ \A k \in Lanes : k # l => db'[k] = db[k]
  BY <1>2, <1>3 DEF Types, DbTypes, l
<1>6. \A q \in Conn(r).rows \cup ({r} \cap Work(r[1])) : q[1] = c
  <2>1. \A q \in db[l].rows : q[1] = c
    BY <1>2 DEF Holds
  <2> QED BY <1>1, <1>2, <2>1
<1>7. HolderInv'
  <2>1. ASSUME NEW k \in Lanes, k # l
        PROVE  IF db'[k].state = "none" THEN db'[k].rows = {}
               ELSE \E d \in Calls : Holds(d, k)' /\ ~Durable(d)'
    <3>1. CASE db[k].state = "none"
      BY <1>5, <2>1, <3>1 DEF HolderInv
    <3>2. CASE db[k].state # "none"
      <4>1. PICK d \in Calls : Holds(d, k) /\ ~Durable(d)
        BY <3>2 DEF HolderInv
      <4>2. d # c /\ d # r[1]
        BY <1>2, <2>1, <4>1 DEF Holds, c
      <4>3. commits' = commits \/ \E s : commits' = commits \cup {s} /\ \A q \in s : q[1] # d
        BY <1>3, <1>6, <4>2
      <4>4. Holds(d, k)' /\ ~Durable(d)'
        BY <1>5, <2>1, <4>1, <4>2, <4>3, SettlesElsewhere
      <4> QED BY <1>5, <2>1, <3>2, <4>4
    <3> QED BY <3>1, <3>2
  <2> QED BY <1>5, <2>1 DEF HolderInv
<1>8. ASSUME NEW n \in Tasks PROVE <<c, n>> \notin ToSet(line')
  <2>1. SUFFICES ASSUME <<c, n>> \in ToSet(line') PROVE FALSE
    OBVIOUS
  <2>2. <<c, n>> \in Requests /\ In(<<c, n>>) /\ <<c, n>> # r
    BY <1>1, <1>3, <2>1, NameFacts, RequestFacts
  <2>3. Precedes(line, r, <<c, n>>)
    BY <1>2, <2>2
  <2>4. <<c, n>>[1] = r[1] /\ <<c, n>>[2] = n
    BY DEF c
  <2>5. /\ r[2] # "rollback" /\ (r[2] = "commit" => n = "rollback")
        /\ r[2] = "finish" => n \in {"commit", "rollback"}
    BY <2>2, <2>3, <2>4 DEF OrderInv
  <2> QED BY <1>3, <2>5, NameFacts
<1>9. Ended(c)'
  <2>1. Sent(c, r[2])' /\ <<c, r[2]>> \notin ToSet(line')
    BY <1>1, <1>4 DEF Sent
  <2> QED BY <1>1, <1>3, <2>1 DEF Ended, In
<1>10. ASSUME NEW d \in Transactions, opener[d] # "none", <<d, opener[d]>> \notin ToSet(line'), d # c
       PROVE  /\ session \in {"open", "closing"} /\ ~Ended(d)' =>
                    \/ db'[LaneOf(d)].state # "none"
                    \/ req'[<<d, opener[d]>>] = "error" /\ (concurrent \/ session # "open")
              /\ ~concurrent /\ (\E n \in Tasks : <<d, n>> \in ToSet(line')) => db'[None].state # "none"
  <2>0. d \in Calls
    BY DEF Transactions
  <2>1. CASE concurrent
    <3>0. LaneOf(d) # l /\ LaneOf(d) \in Lanes
      BY <1>2, <1>10, <2>0, <2>1 DEF LaneOf, Lanes
    <3>1. ~In(<<d, opener[d]>>)
      BY <1>1, <1>10, <2>0
    <3>2. session \in {"open", "closing"} /\ ~Ended(d) =>
               \/ db[LaneOf(d)].state # "none"
               \/ req[<<d, opener[d]>>] = "error"
      BY <1>10, <3>1 DEF OpenInv
    <3>3. Ended(d) => Ended(d)'
      BY <1>1, <1>10, <2>0
    <3>4. <<d, opener[d]>> \in Requests
      BY <1>10, <2>0, NameFacts, RequestFacts DEF CallInv, Asked
    <3> QED BY <1>1, <1>5, <2>0, <2>1, <3>0, <3>2, <3>3, <3>4
  <2>2. CASE ~concurrent
    <3>1. \A n \in Tasks : <<d, n>> \notin ToSet(line')
      <4>1. ASSUME NEW n \in Tasks, <<d, n>> \in ToSet(line') PROVE FALSE
        <5>1. <<d, n>> \in Requests /\ In(<<d, n>>)
          BY <1>1, <1>3, <2>0, <4>1, NameFacts, RequestFacts
        <5>2. <<d, n>>[1] = r[1]
          BY <1>2, <2>2, <5>1 DEF LineInv
        <5> QED BY <1>10, <5>2 DEF c
      <4> QED BY <4>1
    <3>2. ASSUME session \in {"open", "closing"} PROVE Ended(d)'
      <4>1. ~Running(d)
        <5>1. Running(d) => r[1] = d
          BY <1>2, <2>0, <2>2, <3>2 DEF LineInv
        <5> QED BY <1>10, <5>1 DEF c
      <4>2. pc[d] = "done"
        BY <1>10, <2>0, <4>1 DEF Running, CallInv, Phase
      <4>3. Over(d)
        BY <1>10, <3>2, <4>2 DEF DoneInv
      <4>4. \A n \in Names : Got(d, n) => Sent(d, n) /\ ~In(<<d, n>>)
        BY <2>0, RequestFacts DEF LineInv, Got, Sent
      <4>5. Ended(d)
        BY <4>3, <4>4, NameFacts DEF Over, Ended
      <4> QED BY <1>1, <1>10, <2>0, <4>5
    <3> QED BY <2>2, <3>1, <3>2
  <2> QED BY <2>1, <2>2
<1>11. OpenInv'
  <2>1. \A d \in Transactions : d \in Calls
    BY DEF Transactions
  <2>2. LaneOf(c) = l
    BY <1>2
  <2> QED BY <1>1, <1>8, <1>9, <1>10, <2>1 DEF OpenInv, In
<1> QED BY <1>7, <1>11

\* An answer to a statement outside any transaction.
LEMMA SingleKeeps ==
  ASSUME ClientInv, Types', NEW r \in Requests, Served(r), NEW outcome \in {"ok", "error"},
         Settles(r, outcome), Single(r, outcome)
  PROVE  HolderInv' /\ OpenInv' /\ CommitInv' /\ KeepInv'
<1> USE DEF ClientInv
<1> DEFINE c == r[1]
<1>1. /\ c \in Calls /\ r = <<c, r[2]>> /\ r[2] \in Names
      /\ UNCHANGED <<program, opener, finish, session>>
      /\ concurrent' = concurrent /\ Transactions' = Transactions
      /\ \A q \in Requests : (req[q] = "error" => req'[q] = "error")
      /\ \A d \in Calls : LaneOf(d)' = LaneOf(d) /\ (d # c => Over(d)' = Over(d))
      /\ \A d \in Calls, n \in Names :
           /\ Sent(d, n)' = Sent(d, n) /\ (Waits(d, n)' => Waits(d, n))
           /\ Got(d, n) => Got(d, n)'
           /\ Got(d, n)' => Got(d, n) \/ (d = c /\ n = r[2] /\ outcome = "ok" /\ req[r] = "sent")
      /\ \A q \in Requests : q \in ToSet(line') => (In(q) /\ q # r) \/ r[2] = "begin"
      /\ \A d \in Calls : opener[d] # "none" =>
           /\ <<d, opener[d]>> \in Requests
           /\ <<d, opener[d]>> \in ToSet(line') <=> In(<<d, opener[d]>>) /\ <<d, opener[d]>> # r
      /\ \A d \in Calls : Sent(d, "query") /\ ~In(<<d, "query">>) => <<d, "query">> \notin ToSet(line')
      /\ \A d \in Calls : Ended(d) => Ended(d)' \/ (d = c /\ r[2] = "begin" /\ outcome = "ok")
      /\ \A d \in Calls : Spent(d) => Spent(d)' /\ \A n \in Tasks : Got(d, n)' = Got(d, n)
  BY SettlesFacts
<1>2. /\ c \notin Transactions /\ r[2] = "query" /\ UNCHANGED db /\ commits' = commits \cup {{r}}
  BY DEF Single
<1>3. r \notin ToSet(line') /\ In(r) /\ req[r] # "unsent"
  BY DEF Settles
<1> HIDE DEF c
<1>4. r = <<c, "query">> /\ Sent(c, "query")'
  BY <1>1, <1>2, <1>3 DEF Sent
<1>5. ~Durable(c)
  BY <1>1, <1>2, <1>3, <1>4 DEF CommitInv
<1>6. /\ Durable(c)' /\ \A d \in Calls : Durable(d) => Durable(d)'
      /\ \A d \in Calls : d # c => (Durable(d)' => Durable(d))
  BY <1>1, <1>2 DEF Durable, c
<1>7. HolderInv'
  <2>1. ASSUME NEW k \in Lanes, db[k].state # "none"
        PROVE  \E d \in Calls : Holds(d, k)' /\ ~Durable(d)'
    <3>1. PICK d \in Calls : Holds(d, k) /\ ~Durable(d)
      BY <2>1 DEF HolderInv
    <3>2. d # r[1]
      BY <1>2, <3>1 DEF Holds, c
    <3>3. commits' = commits \cup {{r}} /\ \A q \in {r} : q[1] # d
      BY <1>2, <3>2
    <3>4. Holds(d, k)' /\ ~Durable(d)'
      BY <1>2, <3>1, <3>2, <3>3, SettlesElsewhere
    <3> QED BY <3>4
  <2> QED BY <1>2, <2>1 DEF HolderInv
<1>8. OpenInv'
  <2>1. ASSUME NEW d \in Transactions, opener[d] # "none", <<d, opener[d]>> \notin ToSet(line')
        PROVE  /\ session \in {"open", "closing"} /\ ~Ended(d)' =>
                    \/ db[LaneOf(d)].state # "none"
                    \/ req'[<<d, opener[d]>>] = "error" /\ (concurrent \/ session # "open")
               /\ ~concurrent /\ (\E n \in Tasks : <<d, n>> \in ToSet(line')) => db[None].state # "none"
    <3>0. d \in Calls /\ d # c
      BY <1>2, <2>1 DEF Transactions
    <3>1. ~In(<<d, opener[d]>>)
      BY <1>1, <2>1, <3>0
    <3>2. /\ session \in {"open", "closing"} /\ ~Ended(d) =>
               \/ db[LaneOf(d)].state # "none"
               \/ req[<<d, opener[d]>>] = "error" /\ (concurrent \/ session # "open")
          /\ ~concurrent /\ (\E n \in Tasks : In(<<d, n>>)) => db[None].state # "none"
      BY <2>1, <3>1 DEF OpenInv
    <3>3. Ended(d) => Ended(d)'
      BY <1>1, <3>0
    <3>4. \A n \in Tasks : <<d, n>> \in ToSet(line') => In(<<d, n>>)
      BY <1>1, <1>2, <3>0, NameFacts, RequestFacts
    <3> QED BY <1>1, <2>1, <3>0, <3>2, <3>3, <3>4
  <2>2. \A d \in Transactions : d \in Calls
    BY DEF Transactions
  <2> QED BY <1>1, <1>2, <2>1, <2>2 DEF OpenInv, In
<1>8a. \A n \in Tasks : ~Sent(c, n)
  <2>1. Phase(c) /\ Asked(c)
    BY <1>1 DEF CallInv
  <2>2. opener[c] = "none"
    BY <1>2, <2>1 DEF Phase
  <2> QED BY <2>1, <2>2, NameFacts DEF Asked
<1>9. Spent(c)'
  BY <1>1, <1>2, <1>8a, NameFacts DEF Spent, Waits, Sent
<1>10. \A n \in Tasks : ~Got(c, n)'
  BY <1>1, <1>8a, NameFacts DEF Got, Sent
<1>11. CommitInv'
  <2>1. ASSUME NEW s \in commits'
        PROVE  \E d \in Calls : /\ \A q \in s : q[1] = d /\ q[2] \in Tasks \cup {"query"}
                                /\ \A n \in Tasks : Got(d, n)' => <<d, n>> \in s
                                /\ Spent(d)'
    <3>1. CASE s \in commits
      <4>1. PICK d \in Calls : /\ \A q \in s : q[1] = d /\ q[2] \in Tasks \cup {"query"}
                               /\ \A n \in Tasks : Got(d, n) => <<d, n>> \in s
                               /\ Spent(d)
        BY <3>1 DEF CommitInv
      <4>2. Spent(d)' /\ \A n \in Tasks : Got(d, n)' = Got(d, n)
        BY <1>1, <4>1
      <4> QED BY <4>1, <4>2
    <3>2. CASE s = {r}
      <4>1. \A q \in s : q[1] = c /\ q[2] = "query"
        BY <1>2, <3>2 DEF c
      <4> QED BY <1>1, <1>9, <1>10, <4>1
    <3> QED BY <1>2, <2>1, <3>1, <3>2
  <2>2. ASSUME NEW s \in commits', NEW t \in commits', NEW p \in s, NEW q \in t, p[1] = q[1]
        PROVE  s = t
    <3>1. CASE s \in commits /\ t \in commits
      BY <2>2, <3>1 DEF CommitInv
    <3>2. \A a \in commits : \A b \in a : b[1] # c
      BY <1>5 DEF Durable
    <3>3. \A b \in {r} : b[1] = c
      BY DEF c
    <3> QED BY <1>2, <2>2, <3>1, <3>2, <3>3
  <2>3. ASSUME NEW d \in Calls, Durable(d)'
        PROVE  IF d \in Transactions
               THEN /\ opener[d] # "none" /\ <<d, opener[d]>> \notin ToSet(line')
                    /\ Sent(d, "commit")' \/ finish[d] # "none"
               ELSE Sent(d, "query")' /\ <<d, "query">> \notin ToSet(line')
    <3>1. CASE Durable(d)
      BY <1>1, <3>1, NameFacts DEF CommitInv
    <3>2. CASE ~Durable(d)
      <4>1. d = c
        BY <1>6, <2>3, <3>2
      <4> QED BY <1>2, <1>3, <1>4, <4>1
    <3> QED BY <3>1, <3>2
  <2> QED BY <1>1, <2>1, <2>2, <2>3 DEF CommitInv, In
<1>12. KeepInv'
  <2>1. ASSUME NEW d \in Calls, Confirmed(d)', Whole(d)' PROVE Durable(d)'
    <3>1. \A n \in Tasks \cup {"begin"} : n \in Names /\ <<d, n>> \in Requests
      BY NameFacts, RequestFacts
    <3>2. Whole(d)
      BY <1>1, <1>2, <2>1, <3>1, NameFacts DEF Whole
    <3>3. Confirmed(d)
      BY <1>1, <1>2, <2>1, NameFacts DEF Confirmed
    <3> QED BY <1>6, <3>2, <3>3 DEF KeepInv
  <2>2. \A d \in Calls : Got(d, "query")' => Durable(d)'
    BY <1>1, <1>2, <1>6, NameFacts DEF KeepInv
  <2> QED BY <2>1, <2>2 DEF KeepInv
<1> QED BY <1>7, <1>8, <1>11, <1>12

\* An answer keeps every part of the invariant.
LEMMA AnsweredKeeps ==
  ASSUME ClientInv, Types', NEW r \in Requests, Answered(r)
  PROVE  /\ (\A d \in Calls : CallInv(d)') /\ LineInv' /\ OrderInv' /\ DoneInv' /\ HolderInv'
         /\ OpenInv' /\ CommitInv' /\ KeepInv'
<1>1. /\ Served(r)
      /\ \E outcome \in {"ok", "error"} :
           /\ Settles(r, outcome)
           /\ Stays(r, outcome) \/ Opened(r, outcome) \/ Closed(r, outcome) \/ Single(r, outcome)
  BY AnsweredEffect
<1>2. PICK outcome \in {"ok", "error"} :
           /\ Settles(r, outcome)
           /\ Stays(r, outcome) \/ Opened(r, outcome) \/ Closed(r, outcome) \/ Single(r, outcome)
  BY <1>1
<1>3. (\A d \in Calls : CallInv(d)') /\ LineInv' /\ OrderInv' /\ DoneInv'
  BY <1>1, <1>2, SettlesKeepsLine
<1>4. HolderInv' /\ OpenInv' /\ CommitInv' /\ KeepInv'
  BY <1>1, <1>2, StaysKeeps, OpenedKeeps, ClosedCommits, ClosedKeeps, SingleKeeps
<1> QED BY <1>3, <1>4
-----------------------------------------------------------------------------
(***************************************************************************)
(* Steps of the session and of time.                                       *)
(***************************************************************************)
\* Requests fail, and those that had not been sent leave the line.
Errs ==
  /\ Moves /\ UNCHANGED <<db, commits>>
  /\ \A q \in Requests : New(q) => req'[q] = "error"
  /\ \/ UNCHANGED <<session, line>>
     \/ session' = "lost" /\ \A q \in Requests : req'[q] \notin {"held", "gated", "sent"}
  /\ poisoned' => session' # "open"
  /\ \A q \in Requests : q \in ToSet(line') <=> In(q) /\ (session' # session => req[q] # "gated")
  /\ \A p, q \in Requests : Precedes(line', p, q) => Precedes(line, p, q)

\* A time-out is such a step.
LEMMA TimesOutErrs ==
  ASSUME ClientInv, NEW r \in Requests, TimesOut(r)
  PROVE  Errs
BY TimesOutMoves DEF Errs, ClientInv, LineInv, In

\* A loss is such a step.
LEMMA LoseErrs ==
  ASSUME ClientInv, Lose
  PROVE  Errs
<1>1. /\ Moves /\ UNCHANGED <<db, commits>> /\ session' = "lost" /\ poisoned' = TRUE
      /\ \A q \in Requests : New(q) => req'[q] = "error"
      /\ \A q \in Requests : req'[q] \notin {"held", "gated", "sent"}
      /\ line' = Among(line, {r \in Requests : req[r] # "gated"})
  BY LoseMoves
<1>2. session # "lost"
  BY DEF Lose
<1>3. line \in Seq(Requests) /\ IsInjective(line)
  BY DEF ClientInv, Types, WireTypes
<1>4. ToSet(line') = ToSet(line) \cap {r \in Requests : req[r] # "gated"}
  BY <1>1, <1>3, AmongMembers
<1>5. \A p, q \in Requests : Precedes(line', p, q) => Precedes(line, p, q)
  BY <1>1, <1>3, PrecedesAmong
<1> QED BY <1>1, <1>2, <1>4, <1>5 DEF Errs, In

\* They keep every part of the invariant.
LEMMA ErrsKeeps ==
  ASSUME ClientInv, Types', Errs
  PROVE  /\ (\A d \in Calls : CallInv(d)') /\ LineInv' /\ OrderInv' /\ DoneInv' /\ HolderInv'
         /\ OpenInv' /\ CommitInv' /\ KeepInv'
<1> USE DEF ClientInv
<1>1. /\ UNCHANGED <<program, pc, active, opener, finish, db, commits>>
      /\ \A q \in Requests : New(q) => req[q] \in {"held", "gated", "sent"} /\ req'[q] = "error"
      /\ \/ UNCHANGED <<session, line>>
         \/ session' = "lost" /\ \A q \in Requests : req'[q] \notin {"held", "gated", "sent"}
      /\ poisoned' => session' # "open"
      /\ \A q \in Requests : q \in ToSet(line') <=> In(q) /\ (session' # session => req[q] # "gated")
      /\ \A p, q \in Requests : Precedes(line', p, q) => Precedes(line, p, q)
  BY DEF Errs, Moves
<1>2. concurrent' = concurrent /\ Transactions' = Transactions
  BY <1>1 DEF concurrent, Transactions
<1>3. /\ \A q \in Requests : Lane(q)' = Lane(q) /\ (req[q] = "error" => req'[q] = "error")
      /\ \A d \in Calls : LaneOf(d)' = LaneOf(d)
  BY <1>1, <1>2 DEF Lane, LaneOf, New
<1>4. \A d \in Calls, n \in Names :
        /\ Sent(d, n)' = Sent(d, n) /\ Got(d, n)' = Got(d, n)
        /\ Waits(d, n)' => Waits(d, n)
  BY <1>1, RequestFacts DEF Sent, Got, Waits, New
<1>5. \A d \in Calls : Over(d)' = Over(d) /\ Durable(d)' = Durable(d) /\ (Spent(d) => Spent(d)')
                       /\ Confirmed(d)' = Confirmed(d) /\ (Ended(d) => Ended(d)')
  <2>1. \A d \in Calls : Over(d)' = Over(d) /\ Confirmed(d)' = Confirmed(d)
    BY <1>1, <1>4, NameFacts DEF Over, Confirmed
  <2>2. \A d \in Calls, n \in Names : ~In(<<d, n>>) => ~In(<<d, n>>)'
    BY <1>1, RequestFacts DEF In
  <2>3. \A d \in Calls : Ended(d) => Ended(d)'
    BY <1>1, <1>4, <2>2, NameFacts DEF Ended
  <2>4. \A d \in Calls : Spent(d) => Spent(d)'
    BY <1>1, <1>2, <1>4, NameFacts DEF Spent
  <2>5. \A d \in Calls : Durable(d)' = Durable(d)
    BY <1>1 DEF Durable
  <2> QED BY <2>1, <2>3, <2>4, <2>5
<1>6. \A d \in Calls : opener[d] # "none" =>
        /\ <<d, opener[d]>> \in Requests
        /\ <<d, opener[d]>> \in ToSet(line') <=> In(<<d, opener[d]>>)
  <2>1. \A d \in Calls : opener[d] # "none" =>
          <<d, opener[d]>> \in Requests /\ req[<<d, opener[d]>>] # "gated"
    BY NameFacts, RequestFacts DEF CallInv, Asked
  <2> QED BY <1>1, <2>1
<1>7. \A d \in Calls : CallInv(d)'
  BY MovesCalls DEF Errs
<1>8. LineInv'
  <2>1. \A q \in Requests : q \in ToSet(line') => req'[q] \in {"gated", "sent", "error"} /\ ~Over(q[1])'
    BY <1>1, <1>5, RequestFacts DEF LineInv, New
  <2>2. \A q \in Requests : req'[q] \in {"gated", "sent"} => q \in ToSet(line')
    BY <1>1 DEF LineInv, New
  <2>3. session' = "closed" => line' = <<>>
    BY <1>1 DEF LineInv
  <2>4. session' = "lost" => \A q \in Requests : req'[q] \notin {"held", "gated", "sent"}
    BY <1>1 DEF LineInv, New
  <2>5. session' # "lost" => session # "lost"
    BY <1>1
  <2>6. ~concurrent =>
          /\ \A p, q \in Requests : p \in ToSet(line') /\ q \in ToSet(line') => p[1] = q[1]
          /\ session' # "lost" => \A c \in Calls : Running(c) =>
               \A q \in Requests : q \in ToSet(line') => q[1] = c
    BY <1>1, <2>5 DEF LineInv
  <2> QED BY <1>1, <1>2, <2>1, <2>2, <2>3, <2>4, <2>6 DEF LineInv, In, Running
<1>9. OrderInv'
  <2>1. \A d \in Calls : opener[d] # "none" /\ <<d, opener[d]>> \in ToSet(line') =>
          \A n \in Names : ~Got(d, n)'
    BY <1>4, <1>6 DEF OrderInv
  <2> QED BY <1>1, <2>1 DEF OrderInv, In
<1>10. DoneInv'
  BY <1>1, <1>2, <1>5 DEF DoneInv, Transactions
<1>11. HolderInv'
  <2>1. ASSUME NEW d \in Calls, NEW k \in Lanes, Holds(d, k) PROVE Holds(d, k)'
    <3>1. /\ d \in Transactions /\ k = LaneOf(d) /\ opener[d] # "none" /\ ~Over(d)
          /\ ~In(<<d, opener[d]>>)
          /\ \A q \in Requests : In(q) /\ Lane(q) = k => q[1] = d
          /\ \A n \in Tasks : Got(d, n) => <<d, n>> \in db[k].rows
          /\ \A q \in db[k].rows : q[1] = d /\ q[2] \in Tasks
          /\ db[k].state # "open" => \E n \in Tasks : req[<<d, n>>] = "error"
      BY <2>1 DEF Holds
    <3>2. \A n \in Tasks : (req[<<d, n>>] = "error" => req'[<<d, n>>] = "error") /\ Got(d, n)' = Got(d, n)
      BY <1>3, <1>4, NameFacts, RequestFacts
    <3>3. \A q \in Requests : q \in ToSet(line') => In(q)
      BY <1>1
    <3> QED BY <1>1, <1>2, <1>3, <1>5, <1>6, <3>1, <3>2, <3>3 DEF Holds, In
  <2> QED BY <1>1, <1>5, <2>1 DEF HolderInv
<1>12. OpenInv'
  <2>1. ASSUME NEW d \in Transactions, opener[d] # "none", <<d, opener[d]>> \notin ToSet(line')
        PROVE  /\ session' \in {"open", "closing"} /\ ~Ended(d)' =>
                    \/ db[LaneOf(d)].state # "none"
                    \/ req'[<<d, opener[d]>>] = "error" /\ (concurrent \/ session' # "open")
               /\ ~concurrent /\ (\E n \in Tasks : <<d, n>> \in ToSet(line')) => db[None].state # "none"
    <3>0. d \in Calls
      BY DEF Transactions
    <3>1. ~In(<<d, opener[d]>>) /\ <<d, opener[d]>> \in Requests
      BY <1>6, <2>1, <3>0
    <3>2. /\ session \in {"open", "closing"} /\ ~Ended(d) =>
               \/ db[LaneOf(d)].state # "none"
               \/ req[<<d, opener[d]>>] = "error" /\ (concurrent \/ session # "open")
          /\ ~concurrent /\ (\E n \in Tasks : In(<<d, n>>)) => db[None].state # "none"
      BY <2>1, <3>1 DEF OpenInv
    <3>3. \A n \in Tasks : <<d, n>> \in ToSet(line') => In(<<d, n>>)
      BY <1>1, <3>0, NameFacts, RequestFacts
    <3>4. session' \in {"open", "closing"} => session' = session
      BY <1>1
    <3> QED BY <1>3, <1>5, <3>0, <3>1, <3>2, <3>3, <3>4
  <2>2. \A d \in Transactions : d \in Calls
    BY DEF Transactions
  <2> QED BY <1>1, <1>2, <1>3, <2>1, <2>2 DEF OpenInv, In
<1>13. CommitInv'
  <2>1. ASSUME NEW d \in Calls, Durable(d)
        PROVE  IF d \in Transactions
               THEN /\ opener[d] # "none" /\ <<d, opener[d]>> \notin ToSet(line')
                    /\ Sent(d, "commit")' \/ finish[d] # "none"
               ELSE Sent(d, "query")' /\ <<d, "query">> \notin ToSet(line')
    <3>1. <<d, "query">> \in Requests
      BY NameFacts, RequestFacts
    <3> QED BY <1>1, <1>4, <1>6, <2>1, <3>1, NameFacts DEF CommitInv
  <2>2. \A d \in Calls, n \in Tasks : Got(d, n)' = Got(d, n)
    BY <1>4, NameFacts
  <2> QED BY <1>1, <1>2, <1>5, <2>1, <2>2 DEF CommitInv, In
<1>14. KeepInv'
  <2>1. ASSUME NEW d \in Calls, Whole(d)' PROVE Whole(d)
    <3>1. \A n \in Tasks \cup {"begin"} : n \in Names /\ <<d, n>> \in Requests
      BY NameFacts, RequestFacts
    <3> QED BY <1>3, <1>4, <2>1, <3>1 DEF Whole
  <2>2. \A d \in Calls : Got(d, "query")' = Got(d, "query")
    BY <1>4, NameFacts
  <2> QED BY <1>5, <2>1, <2>2 DEF KeepInv
<1> QED BY <1>7, <1>8, <1>9, <1>10, <1>11, <1>12, <1>13, <1>14

\* The workload is gone, and what was open with it.
Ceases ==
  /\ UNCHANGED <<program, pc, told, active, opener, committed, finish, awaited, req, commits>>
  /\ line' = <<>> /\ db' = [l \in DOMAIN db |-> Nothing]
  /\ \A q \in Requests : req[q] \notin {"gated", "sent"}
  /\ \/ session' = "closed"
     \/ session' = "lost" /\ \A q \in Requests : req[q] # "held"

\* The session that closes, and the workload that gives up.
LEMMA Cease ==
  ASSUME ClientInv, SessionCloses \/ Abandon
  PROVE  Ceases
<1> USE DEF ClientInv
<1>1. CASE SessionCloses
  <2>1. /\ UNCHANGED <<program, pc, told, active, opener, committed, finish, awaited, req, commits>>
        /\ line = <<>> /\ line' = line /\ db' = [l \in DOMAIN db |-> Nothing] /\ session' = "closed"
    BY <1>1 DEF SessionCloses, callVars, txVars, wireVars
  <2>2. \A q \in Requests : ~In(q)
    BY <2>1 DEF In, ToSet
  <2> QED BY <2>1, <2>2 DEF LineInv, Ceases
<1>2. CASE Abandon
  <2>1. /\ UNCHANGED <<program, pc, told, active, opener, committed, finish, awaited, req, commits>>
        /\ line' = <<>> /\ db' = [l \in DOMAIN db |-> Nothing] /\ session = "lost" /\ session' = session
    BY <1>2 DEF Abandon, callVars, txVars, endVars
  <2> QED BY <2>1 DEF LineInv, Ceases
<1> QED BY <1>1, <1>2

\* They keep every part of the invariant.
LEMMA CeasesKeeps ==
  ASSUME ClientInv, Types', Ceases
  PROVE  /\ (\A d \in Calls : CallInv(d)') /\ LineInv' /\ OrderInv' /\ DoneInv' /\ HolderInv'
         /\ OpenInv' /\ CommitInv' /\ KeepInv'
<1> USE DEF ClientInv
<1>1. /\ UNCHANGED <<program, pc, told, active, opener, committed, finish, awaited, req, commits>>
      /\ line' = <<>> /\ db' = [l \in DOMAIN db |-> Nothing]
      /\ \A q \in Requests : req[q] \notin {"gated", "sent"}
      /\ session' = "closed" \/ (session' = "lost" /\ \A q \in Requests : req[q] # "held")
  BY DEF Ceases
<1>2. /\ concurrent' = concurrent /\ Transactions' = Transactions
      /\ \A d \in Calls : Over(d)' = Over(d) /\ Durable(d)' = Durable(d) /\ Spent(d)' = Spent(d)
                          /\ Confirmed(d)' = Confirmed(d) /\ Whole(d)' = Whole(d)
  BY <1>1 DEF concurrent, Transactions, Over, Durable, Spent, Confirmed, Whole, Sent, Got, Waits
<1>3. \A q : q \notin ToSet(line')
  BY <1>1 DEF ToSet
<1>4. \A d \in Calls : CallInv(d)'
  BY <1>1, SameCall DEF Same
<1>5. LineInv'
  BY <1>1, <1>3 DEF LineInv, In
<1>6. OrderInv'
  <2>1. \A p, q : ~Precedes(line', p, q)
    BY <1>1 DEF Precedes
  <2> QED BY <1>3, <2>1 DEF OrderInv, In
<1>7. DoneInv'
  BY <1>1 DEF DoneInv
<1>8. HolderInv'
  BY <1>1 DEF HolderInv, Types, DbTypes, Nothing
<1>9. OpenInv'
  BY <1>1, <1>3 DEF OpenInv, In
<1>10. CommitInv'
  <2>1. ASSUME NEW d \in Calls, Durable(d)
        PROVE  IF d \in Transactions
               THEN opener[d] # "none" /\ (Sent(d, "commit")' \/ finish[d] # "none")
               ELSE Sent(d, "query")'
    BY <1>1, <2>1 DEF CommitInv, Sent
  <2> QED BY <1>1, <1>2, <1>3, <2>1 DEF CommitInv, In, Got
<1>11. KeepInv'
  BY <1>1, <1>2 DEF KeepInv, Got
<1> QED BY <1>4, <1>5, <1>6, <1>7, <1>8, <1>9, <1>10, <1>11
-----------------------------------------------------------------------------
(***************************************************************************)
(* Types, and the queue of the exclusive operations.                       *)
(***************************************************************************)

\* Where a call may be.
Steps == {"idle", "queued", "asking", "callback", "draining", "committing", "settling",
          "rollingBack", "retiring", "done"}
Queue == pc \in [Calls -> Steps] /\ told \in [Calls -> {"none", "ok", "error"}]
         /\ tail \in Seq(Calls \cup {Close}) /\ TailInv

\* A running call stays at the head.
LEMMA QueueStays ==
  ASSUME Queue, UNCHANGED <<program, told, tail>>, pc' \in [Calls -> Steps],
         \A d \in Calls :
           /\ Running(d)' => Running(d) \/ (~concurrent => tail # <<>> /\ Head(tail) = d)
           /\ pc'[d] = "queued" => pc[d] = "queued"
  PROVE  Queue'
BY DEF Queue, TailInv, concurrent

\* A call that is over leaves the head to the next.
LEMMA QueueDone ==
  ASSUME Queue, NEW c \in Calls, Running(c), NEW outcome \in {"ok", "error"}, Done(c, outcome),
         program' = program
  PROVE  Queue'
<1>1. /\ pc' = [pc EXCEPT ![c] = "done"] /\ told' = [told EXCEPT ![c] = outcome]
      /\ tail' = (IF concurrent THEN tail ELSE Tail(tail)) /\ concurrent' = concurrent
  BY DEF Done, concurrent
<1>2. pc' \in [Calls -> Steps] /\ told' \in [Calls -> {"none", "ok", "error"}]
  BY <1>1 DEF Queue, Steps
<1>3. CASE concurrent
  BY <1>1, <1>2, <1>3 DEF Queue, TailInv
<1>4. CASE ~concurrent
  <2>1. tail \in Seq(Calls \cup {Close}) /\ tail # <<>> /\ Head(tail) = c
    BY <1>4 DEF Queue, TailInv
  <2>2. tail' \in Seq(Calls \cup {Close}) /\ ToSet(tail) = {c} \cup ToSet(tail')
    BY <1>1, <1>4, <2>1, TailMembers
  <2>3. \A d \in Calls : ~Running(d)' /\ (pc'[d] = "queued" => pc[d] = "queued" /\ d # c)
    BY <1>1, <1>4, <2>1 DEF Queue, TailInv, Running
  <2> QED BY <1>1, <1>2, <1>4, <2>2, <2>3 DEF Queue, TailInv
<1> QED BY <1>3, <1>4

\* A call is appended.
LEMMA QueueGrows ==
  ASSUME Queue, NEW x \in Calls \cup {Close}, UNCHANGED <<program, told>>, pc' \in [Calls -> Steps],
         tail' = IF concurrent THEN tail ELSE Append(tail, x),
         \A d \in Calls : pc'[d] = pc[d] \/ (d = x /\ pc'[d] = "queued")
  PROVE  Queue'
<1>1. tail \in Seq(Calls \cup {Close}) /\ concurrent' = concurrent
  BY DEF Queue, concurrent
<1>2. /\ Append(tail, x) \in Seq(Calls \cup {Close}) /\ ToSet(Append(tail, x)) = ToSet(tail) \cup {x}
  BY <1>1, AppendMembers
<1>3. tail # <<>> => Append(tail, x) # <<>> /\ Head(Append(tail, x)) = Head(tail)
  BY <1>1
<1> QED BY <1>1, <1>2, <1>3 DEF Queue, TailInv, Running

\* The queue, of the types.
LEMMA TypedQueue ==
  Types /\ TailInv => Queue
BY DEF Types, CallTypes, Queue, Steps

\* Pending statements are requests.
LEMMA PendingRequests ==
  ASSUME NEW c \in Calls
  PROVE  Pending(c) \in SUBSET Requests
BY NameFacts, RequestFacts DEF Pending, Work, Tasks

\* Types and queue, of the steps that send nothing,
LEMMA QuietTypes ==
  ASSUME Types, LineInv, TailInv, NEW c \in Calls,
         \/ Call(c) \/ EndQuery(c) \/ StartTransaction(c) \/ Finish(c) \/ FinishFails(c)
         \/ Finished(c) \/ Return(c) \/ Throw(c) \/ Committed(c) \/ Catches(c)
         \/ RolledBack(c) \/ Retired(c) \/ Retires(c)
  PROVE  Types' /\ TailInv'
<1>1. /\ UNCHANGED <<program, opener, req, line, db, commits>>
      /\ session' \in {session, "closing"} /\ poisoned' \in {poisoned, TRUE}
  BY DEF Call, EndQuery, StartTransaction, Finish, FinishFails, Finished, Return, Throw,
       Committed,
         Catches, RolledBack, Retired, Retires, CloseSession, callVars, txVars, endVars, wireVars,
         dbVars
<1>2. WireTypes' /\ DbTypes'
  BY <1>1 DEF Types, WireTypes, DbTypes
<1>3. /\ active' \in [Calls -> BOOLEAN] /\ committed' \in [Calls -> BOOLEAN]
      /\ finish' \in [Calls -> {"none", "draining", "executing", "committing", "failed", "ok"}]
      /\ awaited' \in [Calls -> SUBSET Requests]
  <2> USE DEF Types, CallTypes
  <2>1. Call(c) \/ EndQuery(c) \/ StartTransaction(c) \/ Committed(c) \/ Catches(c) \/ RolledBack(c)
          \/ Retired(c) \/ Retires(c) => UNCHANGED <<active, committed, finish, awaited>>
    BY DEF Call, EndQuery, StartTransaction, Committed, Catches, RolledBack, Retired, Retires,
         txVars
  <2>2. CASE Finish(c)
    BY <2>2, PendingRequests DEF Finish
  <2>3. CASE FinishFails(c)
    BY <2>3 DEF FinishFails
  <2>4. CASE Finished(c)
    BY <2>4 DEF Finished
  <2>5. CASE Return(c)
    BY <2>5, PendingRequests DEF Return
  <2>6. CASE Throw(c)
    BY <2>6 DEF Throw
  <2> QED BY <2>1, <2>2, <2>3, <2>4, <2>5, <2>6
<1>4. Queue
  BY TypedQueue
<1>5. Queue'
  <2>1. CASE Call(c)
    <3>1. CASE closing
      <4>1. /\ pc[c] = "idle" /\ pc' = [pc EXCEPT ![c] = "done"] /\ tail' = tail
            /\ told' = [told EXCEPT ![c] = "error"] /\ concurrent' = concurrent
        BY <1>1, <2>1, <3>1 DEF Call, concurrent
      <4> QED BY <1>4, <4>1 DEF Queue, TailInv, Running, Steps
    <3>2. CASE ~closing
      <4>1. /\ pc' = [pc EXCEPT ![c] = "queued"] /\ told' = told
            /\ tail' = IF concurrent THEN tail ELSE Append(tail, c)
        BY <2>1, <3>2 DEF Call
      <4>2. pc' \in [Calls -> Steps] /\ \A d \in Calls : pc'[d] = pc[d] \/ (d = c /\ pc'[d] = "queued")
        BY <1>4, <4>1 DEF Queue, Steps
      <4> QED BY <1>1, <1>4, <4>1, <4>2, QueueGrows
    <3> QED BY <3>1, <3>2
  <2>2. CASE EndQuery(c)
    BY <1>1, <1>4, <2>2, QueueDone DEF EndQuery, Running
  <2>3. CASE Committed(c) \/ RolledBack(c) \/ Retired(c)
    BY <1>1, <1>4, <2>3, QueueDone DEF Committed, RolledBack, Retired, Running
  <2>4. CASE StartTransaction(c)
    <3>1. /\ pc[c] = "queued" /\ (~concurrent => Head(tail) = c) /\ UNCHANGED <<told, tail>>
          /\ pc' = [pc EXCEPT ![c] = "callback"]
      BY <2>4 DEF StartTransaction, MayStart
    <3>2. ~concurrent => tail # <<>>
      <4>1. ~concurrent => c \in ToSet(tail)
        BY <1>4, <3>1 DEF Queue, TailInv
      <4> QED BY <4>1 DEF ToSet
    <3>3. pc' \in [Calls -> Steps] /\ \A d \in Calls :
            /\ Running(d)' => Running(d) \/ d = c
            /\ pc'[d] = "queued" => pc[d] = "queued"
      BY <1>4, <3>1 DEF Queue, Steps, Running
    <3> QED BY <1>1, <1>4, <3>1, <3>2, <3>3, QueueStays
  <2>5. CASE Finish(c) \/ FinishFails(c) \/ Finished(c)
    <3>1. UNCHANGED <<pc, told, tail>>
      BY <2>5 DEF Finish, FinishFails, Finished, callVars
    <3> QED BY <1>1, <1>4, <3>1 DEF Queue, TailInv, Running, concurrent
  <2>6. CASE Return(c) \/ Throw(c) \/ Catches(c) \/ Retires(c)
    <3>1. /\ UNCHANGED <<told, tail>> /\ Running(c)
          /\ \E s \in {"draining", "settling", "retiring"} : pc' = [pc EXCEPT ![c] = s]
      BY <2>6 DEF Return, Throw, Catches, Retires, Running
    <3>2. pc' \in [Calls -> Steps] /\ \A d \in Calls :
            /\ Running(d)' => Running(d)
            /\ pc'[d] = "queued" => pc[d] = "queued"
      BY <1>4, <3>1 DEF Queue, Steps, Running
    <3> QED BY <1>1, <1>4, <3>1, <3>2, QueueStays
  <2> QED BY <2>1, <2>2, <2>3, <2>4, <2>5, <2>6
<1> QED BY <1>1, <1>2, <1>3, <1>5 DEF Types, CallTypes, Queue, Steps

\* of close(),
LEMMA CloseTypes ==
  ASSUME Types, TailInv, CallClose \/ StartClose \/ EndClose
  PROVE  Types' /\ TailInv'
<1>1. /\ UNCHANGED <<program, pc, told, active, opener, committed, finish, awaited, req, line, db, commits>>
      /\ session' \in {session, "closing"} /\ poisoned' = poisoned
  BY DEF CallClose, StartClose, EndClose, CloseSession, callVars, txVars, wireVars, dbVars
<1>2. Queue /\ pc \in [Calls -> Steps]
  BY TypedQueue DEF Types, CallTypes, Steps
<1>3. Queue'
  <2>1. CASE CallClose
    BY <1>1, <1>2, <2>1, QueueGrows DEF CallClose
  <2>2. CASE tail' = tail
    BY <1>1, <1>2, <2>2 DEF Queue, TailInv, Running, concurrent
  <2> QED BY <2>1, <2>2 DEF StartClose, EndClose, callVars
<1> QED BY <1>1, <1>3 DEF Types, CallTypes, WireTypes, DbTypes, Queue, Steps

\* A sending step keeps the line without repetition.
LEMMA AsksLine ==
  ASSUME Types, LineInv, NEW c \in Calls, Asks(c)
  PROVE  line' \in Seq(Requests) /\ IsInjective(line')
<1>1. PICK r \in Requests : Puts(c, r)
  BY DEF Asks
<1>2. CASE line' = line
  BY <1>2 DEF Types, WireTypes
<1>3. CASE line' = Append(line, r) /\ New(r)
  <2>1. req[r] = "unsent"
    BY <1>1, <1>3 DEF Puts
  <2>2. r \notin ToSet(line)
    BY <2>1 DEF LineInv, In
  <2> QED BY <1>3, <2>2, AppendMembers DEF Types, WireTypes
<1> QED BY <1>1, <1>2, <1>3 DEF Puts

\* What is sent has a type.
LEMMA SendTypes ==
  ASSUME NEW r \in Requests, NEW known \in [Requests -> {"unsent", "held", "gated", "sent", "ok", "error"}],
         Send(r, known)
  PROVE  req' \in [Requests -> {"unsent", "held", "gated", "sent", "ok", "error"}]
BY DEF Send

\* What execute() does to the requests has a type.
LEMMA ExecuteTypes ==
  ASSUME Types, NEW c \in Calls, NEW n \in Tasks, Execute(c, n)
  PROVE  /\ req' \in [Requests -> {"unsent", "held", "gated", "sent", "ok", "error"}]
         /\ opener' \in [Calls -> Names \cup {"none"}]
<1> DEFINE r == <<c, n>>
           b == <<c, "begin">>
           held == [req EXCEPT ![r] = IF Refusing THEN "error" ELSE "held"]
<1>1. r \in Requests /\ b \in Requests /\ n \in Names /\ "begin" \in Names
  BY NameFacts, RequestFacts
<1>2. req \in [Requests -> {"unsent", "held", "gated", "sent", "ok", "error"}]
      /\ opener \in [Calls -> Names \cup {"none"}]
  BY DEF Types, WireTypes, CallTypes
<1>3. held \in [Requests -> {"unsent", "held", "gated", "sent", "ok", "error"}]
  BY <1>2
<1>4. /\ opener' = opener \/ opener' = [opener EXCEPT ![c] = n] \/ opener' = [opener EXCEPT ![c] = "begin"]
      /\ \/ Send(r, req) \/ Send(b, held)
         \/ req' = [req EXCEPT ![r] = "error"] \/ req' = [req EXCEPT ![r] = "held"]
  BY DEF Execute, Unencodable
<1> HIDE DEF r, b, held
<1>5. opener' \in [Calls -> Names \cup {"none"}]
  BY <1>1, <1>2, <1>4
<1>6. req' \in [Requests -> {"unsent", "held", "gated", "sent", "ok", "error"}]
  BY <1>1, <1>2, <1>3, <1>4, SendTypes
<1> QED BY <1>5, <1>6

\* Types and queue, of the steps that send,
LEMMA AsksTypes ==
  ASSUME Types, LineInv, TailInv, NEW c \in Calls, CallInv(c), Asks(c),
         \/ StartQuery(c) \/ Query(c) \/ FinishExecutes(c) \/ FinishCommits(c)
         \/ CommitsOrReturns(c) /\ started(c) /\ ~committed[c]
         \/ RollsBackOrThrows(c) /\ started(c) /\ ~committed[c]
  PROVE  Types' /\ TailInv'
<1>1. /\ UNCHANGED <<program, told, tail, active, committed, awaited, session, poisoned, db, commits>>
      /\ finish' \in {finish, [finish EXCEPT ![c] = "executing"], [finish EXCEPT ![c] = "committing"]}
  BY DEF StartQuery, Query, FinishExecutes, FinishCommits, CommitsOrReturns, RollsBackOrThrows,
         callVars, txVars, endVars, dbVars
<1>2. line' \in Seq(Requests) /\ IsInjective(line')
  BY AsksLine
<1>3. /\ req' \in [Requests -> {"unsent", "held", "gated", "sent", "ok", "error"}]
      /\ opener' \in [Calls -> Names \cup {"none"}]
  <2>1. req \in [Requests -> {"unsent", "held", "gated", "sent", "ok", "error"}]
        /\ opener \in [Calls -> Names \cup {"none"}]
    BY DEF Types, WireTypes, CallTypes
  <2>2. \A n \in {"query", "commit", "rollback"} : <<c, n>> \in Requests
    BY NameFacts, RequestFacts
  <2>3. CASE \E n \in {"query", "commit", "rollback"} : Send(<<c, n>>, req) /\ opener' = opener
    BY <2>1, <2>2, <2>3, SendTypes
  <2>4. StartQuery(c) => Send(<<c, "query">>, req) /\ opener' = opener
    BY DEF StartQuery, txVars
  <2>5. FinishCommits(c) => Send(<<c, "commit">>, req) /\ opener' = opener
    BY DEF FinishCommits
  <2>6. CommitsOrReturns(c) /\ started(c) /\ ~committed[c] => Send(<<c, "commit">>, req) /\ opener' = opener
    BY DEF CommitsOrReturns, txVars
  <2>7. RollsBackOrThrows(c) /\ started(c) /\ ~committed[c] => Send(<<c, "rollback">>, req) /\ opener' = opener
    BY DEF RollsBackOrThrows, txVars
  <2>8. CASE FinishExecutes(c)
    BY <2>8, ExecuteTypes, NameFacts DEF FinishExecutes
  <2>9. CASE Query(c)
    <3>1. PICK k \in 1 .. program.issues : Execute(c, Statements[k])
      BY <2>9 DEF Query
    <3>2. program.issues \in 0 .. Len(Statements) /\ Len(Statements) \in Nat
          /\ DOMAIN Statements = 1 .. Len(Statements)
      BY ProgramFacts, ClientAssumption DEF Types, CallTypes
    <3>3. Statements[k] \in Tasks
      <4>1. k \in 1 .. Len(Statements)
        BY <3>2
      <4>2. Statements[k] \in ToSet(Statements)
        BY <3>2, <4>1 DEF ToSet
      <4> QED BY <4>2, NameFacts
    <3> QED BY <3>1, <3>3, ExecuteTypes
  <2> QED BY <2>3, <2>4, <2>5, <2>6, <2>7, <2>8, <2>9
<1>4. Queue
  BY TypedQueue
<1>5. Queue'
  <2>1. CASE pc' = pc
    BY <1>1, <1>4, <2>1 DEF Queue, TailInv, Running, concurrent
  <2>2. CASE Running(c) /\ \E s \in {"committing", "rollingBack"} : pc' = [pc EXCEPT ![c] = s]
    <3>1. pc' \in [Calls -> Steps] /\ \A d \in Calls :
            /\ Running(d)' => Running(d)
            /\ pc'[d] = "queued" => pc[d] = "queued"
      BY <1>4, <2>2 DEF Queue, Steps, Running
    <3> QED BY <1>1, <1>4, <3>1, QueueStays
  <2>3. CASE StartQuery(c)
    <3>1. /\ pc[c] = "queued" /\ (~concurrent => Head(tail) = c) /\ pc' = [pc EXCEPT ![c] = "asking"]
      BY <2>3 DEF StartQuery, MayStart
    <3>2. ~concurrent => tail # <<>>
      <4>1. ~concurrent => c \in ToSet(tail)
        BY <1>4, <3>1 DEF Queue, TailInv
      <4> QED BY <4>1 DEF ToSet
    <3>3. pc' \in [Calls -> Steps] /\ \A d \in Calls :
            /\ Running(d)' => Running(d) \/ d = c
            /\ pc'[d] = "queued" => pc[d] = "queued"
      BY <1>4, <3>1 DEF Queue, Steps, Running
    <3> QED BY <1>1, <1>4, <3>1, <3>2, <3>3, QueueStays
  <2>4. Query(c) \/ FinishExecutes(c) \/ FinishCommits(c) => pc' = pc
    BY DEF Query, FinishExecutes, FinishCommits, callVars
  <2>5. CommitsOrReturns(c) /\ started(c) /\ ~committed[c] =>
          Running(c) /\ pc' = [pc EXCEPT ![c] = "committing"]
    BY DEF CommitsOrReturns, Drained, Running
  <2>6. RollsBackOrThrows(c) /\ started(c) /\ ~committed[c] =>
          Running(c) /\ pc' = [pc EXCEPT ![c] = "rollingBack"]
    BY DEF RollsBackOrThrows, Settled, Running
  <2> QED BY <2>1, <2>2, <2>3, <2>4, <2>5, <2>6
<1>6. finish' \in [Calls -> {"none", "draining", "executing", "committing", "failed", "ok"}]
  BY <1>1 DEF Types, CallTypes
<1> QED BY <1>1, <1>2, <1>3, <1>5, <1>6 DEF Types, CallTypes, WireTypes, DbTypes, Queue, Steps

\* of the calls that return at once,
LEMMA ReturnTypes ==
  ASSUME Types, TailInv, NEW c \in Calls, ~(started(c) /\ ~committed[c]),
         CommitsOrReturns(c) \/ RollsBackOrThrows(c)
  PROVE  Types' /\ TailInv'
<1>1. /\ UNCHANGED <<program, active, opener, committed, finish, awaited, session, poisoned, db,
                     commits, req, line>>
      /\ Running(c) /\ (Done(c, "ok") \/ Done(c, "error"))
  BY DEF CommitsOrReturns, RollsBackOrThrows, Drained, Settled, Running, txVars, endVars,
       dbVars, wireVars
<1>2. Queue
  BY TypedQueue
<1>3. Queue'
  BY <1>1, <1>2, QueueDone
<1> QED BY <1>1, <1>3 DEF Types, CallTypes, WireTypes, DbTypes, Queue, Steps

\* The steps of the workload leave the calls and their queue alone.
LEMMA MovesTypes ==
  ASSUME Types, TailInv, Moves, WireTypes', DbTypes'
  PROVE  Types' /\ TailInv'
BY DEF Moves, Types, CallTypes, TailInv, Running, concurrent

\* of an answer,
LEMMA AnsweredTypes ==
  ASSUME ClientInv, NEW r \in Requests, Answered(r)
  PROVE  Types' /\ TailInv'
<1>0. Types /\ TailInv
  BY DEF ClientInv
<1>1. Served(r) /\ \E o \in {"ok", "error"} : Answer(r, o)
  BY DEF Answered, Refused, ExecutesBegin, Executes, Fails, Commits, CommitFails, RollsBack
<1>2. req' \in [Requests -> {"unsent", "held", "gated", "sent", "ok", "error"}]
  <2>1. PICK o \in {"ok", "error"} : Answer(r, o)
    BY <1>1
  <2> QED BY <1>0, <2>1 DEF Answer, Types, WireTypes
<1>3. PICK outcome \in {"ok", "error"} :
              /\ Settles(r, outcome)
              /\ Stays(r, outcome) \/ Opened(r, outcome) \/ Closed(r, outcome) \/ Single(r, outcome)
  BY AnsweredEffect
<1>4. WireTypes' /\ session' = session /\ poisoned' = poisoned /\ Moves
  BY <1>2, <1>3 DEF Settles, WireTypes
<1>5. Lane(r) \in Lanes
  BY RequestFacts DEF Lane, Lanes
<1>6. Conn(r).rows \in SUBSET Requests
  BY <1>0, <1>5 DEF Conn, Types, DbTypes
<1>7. /\ db' = db \/ \E s \in {"none", "open", "aborted", "broken"}, rows \in SUBSET Requests :
                       db' = [db EXCEPT ![Lane(r)] = [state |-> s, rows |-> rows]]
      /\ commits' = commits \/ \E s \in SUBSET Requests : commits' = commits \cup {s}
  <2>1. CASE Stays(r, outcome)
    BY <2>1 DEF Stays
  <2>2. CASE Single(r, outcome)
    BY <2>2 DEF Single
  <2>3. CASE Opened(r, outcome)
    BY <1>6, <2>3 DEF Opened
  <2>4. CASE Closed(r, outcome)
    BY <1>6, <2>4 DEF Closed
  <2> QED BY <1>3, <2>1, <2>2, <2>3, <2>4
<1>8. db' \in [Lanes -> [state : {"none", "open", "aborted", "broken"}, rows : SUBSET Requests]]
  BY <1>0, <1>7 DEF Types, DbTypes
<1>9. commits' \subseteq SUBSET Requests
  BY <1>0, <1>7 DEF Types, DbTypes
<1> QED BY <1>0, <1>4, <1>8, <1>9, MovesTypes DEF DbTypes, Types

\* of a time-out and of a loss,
LEMMA ErrsTypes ==
  ASSUME ClientInv, Lose \/ \E r \in Requests : TimesOut(r)
  PROVE  Types' /\ TailInv'
<1> USE DEF ClientInv
<1>1. req' \in [Requests -> {"unsent", "held", "gated", "sent", "ok", "error"}]
  BY DEF Lose, TimesOut, Types, WireTypes
<1>2. CASE Lose
  <2>1. /\ Moves /\ UNCHANGED <<db, commits>> /\ session' = "lost" /\ poisoned' = TRUE
        /\ line' = Among(line, {r \in Requests : req[r] # "gated"})
    BY <1>2, LoseMoves
  <2>2. line' \in Seq(Requests) /\ IsInjective(line')
    BY <2>1, AmongMembers DEF Types, WireTypes
  <2> QED BY <1>1, <2>1, <2>2, MovesTypes DEF Types, WireTypes, DbTypes
<1>3. CASE \E r \in Requests : TimesOut(r)
  <2>1. Moves /\ UNCHANGED <<line, db, commits, session, poisoned>>
    BY <1>3, TimesOutMoves
  <2> QED BY <1>1, <2>1, MovesTypes DEF Types, WireTypes, DbTypes
<1> QED BY <1>2, <1>3

\* and of the end.
LEMMA CeasesTypes ==
  ASSUME ClientInv, SessionCloses \/ Abandon
  PROVE  Types' /\ TailInv'
<1>1. /\ UNCHANGED <<program, pc, told, tail, active, opener, committed, finish, awaited, req, commits>>
      /\ line' = <<>> /\ db' = [l \in DOMAIN db |-> Nothing]
      /\ session' \in {"closed", session} /\ poisoned' \in {TRUE, poisoned}
  BY DEF SessionCloses, Abandon, callVars, txVars, wireVars, endVars
<1>2. line' \in Seq(Requests) /\ IsInjective(line')
  BY <1>1 DEF IsInjective
<1>3. db' \in [Lanes -> [state : {"none", "open", "aborted", "broken"}, rows : SUBSET Requests]]
  BY <1>1 DEF ClientInv, Types, DbTypes, Nothing
<1> QED BY <1>1, <1>2, <1>3 DEF ClientInv, Types, CallTypes, WireTypes, DbTypes, TailInv, Running, concurrent
-----------------------------------------------------------------------------
(***************************************************************************)
(* The invariant.                                                          *)
(***************************************************************************)

\* Nothing is sent, open or queued.
LEMMA ClientInvInit ==
  ASSUME ClientInit, Encodable
  PROVE  ClientInv
<1>1. /\ program \in Programs
      /\ pc = [c \in Calls |-> "idle"] /\ told = [c \in Calls |-> "none"] /\ tail = <<>>
      /\ active = [c \in Calls |-> TRUE] /\ opener = [c \in Calls |-> "none"]
      /\ committed = [c \in Calls |-> FALSE] /\ finish = [c \in Calls |-> "none"]
      /\ awaited = [c \in Calls |-> {}]
      /\ poisoned = FALSE /\ session = "open"
      /\ req = [r \in Requests |-> "unsent"] /\ line = <<>>
      /\ db = [l \in Lanes |-> Nothing] /\ commits = {}
  BY DEF ClientInit, Lanes
<1>2. /\ \A r \in Requests : ~In(r)
      /\ \A c \in Calls, n \in Names : ~Sent(c, n) /\ ~Got(c, n) /\ ~Waits(c, n)
      /\ \A p, q : ~Precedes(line, p, q)
  BY <1>1, RequestFacts DEF In, ToSet, Sent, Got, Waits, Precedes
<1>3. Types
  <2>1. line \in Seq(Requests) /\ IsInjective(line) /\ tail \in Seq(Calls \cup {Close})
    BY <1>1 DEF IsInjective
  <2> QED BY <1>1, <2>1 DEF Types, CallTypes, WireTypes, DbTypes, Nothing
<1>4. \A c \in Calls : pc[c] = "idle" /\ ~Running(c) /\ ~Over(c) /\ opener[c] = "none"
  BY <1>1, <1>2, NameFacts DEF Running, Over
<1>5. TailInv
  BY <1>4 DEF TailInv
<1>6. \A c \in Calls : CallInv(c)
  <2>1. \A c \in Calls : Phase(c)
    BY <1>1, <1>2, <1>4, NameFacts DEF Phase
  <2>2. \A c \in Calls : Asked(c)
    BY <1>1, <1>2, <1>4, NameFacts, RequestFacts DEF Asked
  <2>3. \A c \in Calls : Ending(c)
    BY <1>1, <1>2, <1>4, NameFacts DEF Ending
  <2>4. \A c \in Calls : Awaiting(c)
    BY <1>2, NameFacts DEF Awaiting
  <2> QED BY <2>1, <2>2, <2>3, <2>4 DEF CallInv
<1>7. LineInv /\ OrderInv /\ DoneInv
  <2>1. \A r \in Requests : req[r] = "unsent"
    BY <1>1
  <2>2. LineInv
    BY <1>1, <1>2, <1>4, <2>1 DEF LineInv
  <2>3. OrderInv
    BY <1>2, <1>4 DEF OrderInv
  <2>4. DoneInv
    BY <1>4 DEF DoneInv, Transactions
  <2> QED BY <2>2, <2>3, <2>4
<1>8. HolderInv
  BY <1>1 DEF HolderInv, Nothing
<1>9. OpenInv
  BY <1>4 DEF OpenInv, Transactions
<1>10. CommitInv /\ KeepInv
  BY <1>1, <1>2, NameFacts DEF CommitInv, KeepInv, Durable, Whole, Confirmed
<1> QED BY <1>3, <1>5, <1>6, <1>7, <1>8, <1>9, <1>10 DEF ClientInv

\* The invariant but for the types and the queue.
Kept == /\ (\A d \in Calls : CallInv(d)') /\ LineInv' /\ OrderInv' /\ DoneInv' /\ HolderInv'
        /\ OpenInv' /\ CommitInv' /\ KeepInv'

\* A step of a call keeps the invariant.
LEMMA CallKeeps ==
  ASSUME ClientInv, NEW c \in Calls, Call(c) \/ Start(c) \/ Callback(c) \/ Continue(c)
  PROVE  Types' /\ TailInv' /\ Kept
<1> USE DEF ClientInv
<1>1. CASE \/ Call(c) \/ EndQuery(c) \/ StartTransaction(c) \/ Finish(c) \/ FinishFails(c)
           \/ Finished(c) \/ Return(c) \/ Throw(c) \/ Committed(c) \/ Catches(c)
           \/ RolledBack(c) \/ Retired(c)
  <2>1. Types' /\ TailInv'
    BY <1>1, QuietTypes
  <2>2. Quiet
    BY <1>1, QuietCall
  <2> QED BY <2>1, <2>2, QuietKeeps DEF Quiet, Kept
<1>2. CASE Retires(c)
  <2>1. Types' /\ TailInv'
    BY <1>2, QuietTypes
  <2>2. Quiet
    BY <1>2, QuietSession
  <2> QED BY <2>1, <2>2, QuietKeeps DEF Quiet, Kept
<1>3. CASE (CommitsOrReturns(c) \/ RollsBackOrThrows(c)) /\ ~(started(c) /\ ~committed[c])
  <2>1. Types' /\ TailInv'
    BY <1>3, ReturnTypes
  <2>2. Quiet
    BY <1>3, QuietReturn
  <2> QED BY <2>1, <2>2, QuietKeeps DEF Quiet, Kept
<1>4. CASE \/ StartQuery(c) \/ Query(c) \/ FinishExecutes(c) \/ FinishCommits(c)
           \/ CommitsOrReturns(c) /\ started(c) /\ ~committed[c]
           \/ RollsBackOrThrows(c) /\ started(c) /\ ~committed[c]
  <2>1. Asks(c)
    BY <1>4, StartQueryAsks, QueryAsks, FinishExecutesAsks, FinishCommitsAsks, CommitAsks,
         RollbackAsks
  <2>2. Types' /\ TailInv'
    BY <1>4, <2>1, AsksTypes
  <2> QED BY <2>1, <2>2, AsksKeeps DEF Kept
<1> QED BY <1>1, <1>2, <1>3, <1>4 DEF Start, Callback, Continue

\* So does every step.
LEMMA ClientInvNext ==
  ASSUME ClientInv, [ClientNext]_vars
  PROVE  ClientInv'
<1> USE DEF ClientInv
<1>1. program' = program /\ Types' /\ TailInv' /\ Kept
  <2>1. CASE \E c \in Calls : Call(c) \/ Start(c) \/ Callback(c) \/ Continue(c)
    <3>1. PICK c \in Calls : Call(c) \/ Start(c) \/ Callback(c) \/ Continue(c)
      BY <2>1
    <3>2. program' = program
      BY <3>1 DEF Call, Start, StartQuery, StartTransaction, Callback, Query, Finish, Return,
           Throw,
              Continue, EndQuery, FinishFails, FinishExecutes, FinishCommits, Finished,
              CommitsOrReturns, Committed, Catches, RollsBackOrThrows, RolledBack, Retires, Retired
    <3> QED BY <3>1, <3>2, CallKeeps
  <2>2. CASE \E r \in Requests : Answered(r)
    <3>1. PICK r \in Requests : Answered(r)
      BY <2>2
    <3>2. Types' /\ TailInv'
      BY <3>1, AnsweredTypes
    <3>3. program' = program
      BY <3>1, AnsweredEffect DEF Settles, Moves
    <3> QED BY <3>1, <3>2, <3>3, AnsweredKeeps DEF Kept
  <2>3. CASE Lose \/ \E r \in Requests : TimesOut(r)
    <3>1. Types' /\ TailInv'
      BY <2>3, ErrsTypes
    <3>2. Errs
      BY <2>3, LoseErrs, TimesOutErrs
    <3> QED BY <3>1, <3>2, ErrsKeeps DEF Kept, Errs, Moves
  <2>4. CASE CallClose \/ StartClose \/ EndClose
    <3>1. Types' /\ TailInv'
      BY <2>4, CloseTypes
    <3>2. Quiet
      BY <2>4, QuietSession
    <3> QED BY <3>1, <3>2, QuietKeeps DEF Kept, Quiet
  <2>5. CASE SessionCloses \/ Abandon
    <3>1. Types' /\ TailInv'
      BY <2>5, CeasesTypes
    <3>2. Ceases
      BY <2>5, Cease
    <3> QED BY <3>1, <3>2, CeasesKeeps DEF Kept, Ceases
  <2>6. CASE UNCHANGED vars
    <3>1. /\ UNCHANGED <<program, pc, told, tail, active, opener, committed, finish, awaited>>
          /\ UNCHANGED <<poisoned, session, req, line, db, commits>>
      BY <2>6 DEF vars, callVars, txVars, endVars, wireVars, dbVars
    <3>2. Types' /\ TailInv'
      BY <3>1 DEF Types, CallTypes, WireTypes, DbTypes, TailInv, Running, concurrent
    <3>3. \A d \in Calls : Same(d)
      BY <3>1 DEF Same
    <3>4. Quiet
      BY <3>1, <3>3, SameCall, SameOnward DEF Quiet, LineInv
    <3> QED BY <3>1, <3>2, <3>4, QuietKeeps DEF Kept, Quiet
  <2> QED BY <2>1, <2>2, <2>3, <2>4, <2>5, <2>6 DEF ClientNext, AllDone
<1>2. Encodable'
  BY <1>1 DEF Encodable, concurrent
<1> QED BY <1>1, <1>2 DEF Kept

(***************************************************************************)
(* A client that sends whatever a transaction on PGlite is given keeps the *)
(* order of its requests, the transaction open on each lane and what the   *)
(* calls have been told in step, whatever times out or is lost.            *)
(***************************************************************************)
THEOREM ClientInvariant == ClientSpec /\ Encodable => []ClientInv
<1>1. ClientInit /\ Encodable => ClientInv
  BY ClientInvInit
<1>2. ClientInv /\ [ClientNext]_vars => ClientInv'
  BY ClientInvNext
<1> QED BY <1>1, <1>2, PTL DEF ClientSpec
-----------------------------------------------------------------------------
(***************************************************************************)
(* What becomes durable together is the work of one call with every        *)
(* statement it was told had succeeded, and a call writes once             *)
(* (index.ts:469, ARCHITECTURE.md:258).                                    *)
(***************************************************************************)
THEOREM ClientAllOrNothing == ClientSpec /\ Encodable => []AllOrNothing
<1>1. ASSUME ClientInv PROVE AllOrNothing
  <2>1. CommitInv
    BY <1>1 DEF ClientInv
  <2>2. \A c \in Calls : \A r \in Work(c) \cup {<<c, "query">>} : r[1] = c
    BY DEF Work
  <2>3. ASSUME NEW c \in Calls PROVE Cardinality(WrittenBy(c)) <= 1
    <3>1. ASSUME NEW s \in WrittenBy(c), NEW t \in WrittenBy(c) PROVE s = t
      <4>1. PICK q \in s : q[1] = c
        BY <2>2 DEF WrittenBy
      <4>2. PICK r \in t : r[1] = c
        BY <2>2 DEF WrittenBy
      <4>3. s \in commits /\ t \in commits
        BY DEF WrittenBy
      <4> QED BY <2>1, <4>1, <4>2, <4>3 DEF CommitInv
    <3>2. CASE WrittenBy(c) = {}
      <4>1. Cardinality(WrittenBy(c)) = 0
        BY <3>2, FS_EmptySet
      <4> QED BY <4>1
    <3>3. CASE WrittenBy(c) # {}
      <4>1. PICK s \in WrittenBy(c) : TRUE
        BY <3>3
      <4>2. WrittenBy(c) = {s}
        BY <3>1, <4>1
      <4>3. Cardinality(WrittenBy(c)) = 1
        BY <4>2, FS_Singleton
      <4> QED BY <4>3
    <3> QED BY <3>2, <3>3
  <2>4. ASSUME NEW s \in commits
        PROVE  \E c \in Calls : /\ s \subseteq Work(c) \cup {<<c, "query">>}
                                /\ {r \in Work(c) : Succeeded(r)} \subseteq s
    <3>1. PICK c \in Calls : /\ \A r \in s : r[1] = c /\ r[2] \in Tasks \cup {"query"}
                             /\ \A n \in Tasks : Got(c, n) => <<c, n>> \in s
      BY <2>1 DEF CommitInv
    <3>2. \A r \in s : r = <<c, r[2]>>
      <4>1. s \subseteq Requests
        BY <1>1 DEF ClientInv, Types, DbTypes
      <4> QED BY <3>1, <4>1, RequestFacts
    <3>3. s \subseteq Work(c) \cup {<<c, "query">>}
      BY <3>1, <3>2 DEF Work, Tasks
    <3>4. {r \in Work(c) : Succeeded(r)} \subseteq s
      BY <3>1 DEF Work, Tasks, Succeeded, Got
    <3> QED BY <3>3, <3>4
  <2> QED BY <2>3, <2>4 DEF AllOrNothing
<1>2. ClientInv => AllOrNothing
  BY <1>1
<1> QED BY <1>2, ClientInvariant, PTL

\* A call has written when something of it is durable.
Written == \A c \in Calls : Durable(c) <=> WrittenBy(c) # {}

\* The two say the same.
LEMMA DurableWritten ==
  ASSUME ClientInv
  PROVE  Written
<1>1. ASSUME NEW c \in Calls, Durable(c) PROVE WrittenBy(c) # {}
  <2>1. PICK s \in commits : \E r \in s : r[1] = c
    BY <1>1 DEF Durable
  <2>2. PICK r \in s : r[1] = c
    BY <2>1
  <2>3. r \in Requests
    BY DEF ClientInv, Types, DbTypes
  <2>4. r = <<c, r[2]>> /\ r[2] \in Tasks \cup {"query"}
    BY <2>2, <2>3, RequestFacts DEF ClientInv, CommitInv
  <2>5. r \in Work(c) \cup {<<c, "query">>}
    BY <2>4 DEF Work, Tasks
  <2> QED BY <2>5 DEF WrittenBy
<1>2. ASSUME NEW c \in Calls, WrittenBy(c) # {} PROVE Durable(c)
  BY <1>2 DEF WrittenBy, Work, Durable
<1> QED BY <1>1, <1>2 DEF Written

(***************************************************************************)
(* A transaction whose callback fails, before anything was asked to        *)
(* commit, leaves nothing behind (API.md:396).                             *)
(***************************************************************************)
THEOREM ClientFailureRollsBack == ClientSpec /\ Encodable => []FailureRollsBack
<1>1. ClientInv => FailureRollsBack
  BY DurableWritten DEF ClientInv, CommitInv, FailureRollsBack, Transactions, Written, Sent
<1> QED BY <1>1, ClientInvariant, PTL

(***************************************************************************)
(* While the session is in service, no transaction that is over is open on *)
(* the database (index.ts:765).                                            *)
(***************************************************************************)
THEOREM ClientNothingLeftOpen == ClientSpec /\ Encodable => []NothingLeftOpen
<1>1. ASSUME ClientInv, session = "open", NEW c \in Transactions, pc[c] = "done"
      PROVE  /\ \A l \in DOMAIN db : db[l].rows \cap Work(c) = {}
             /\ db[Lane(<<c, "begin">>)].state # "none" =>
                  \E d \in Transactions : pc[d] \notin {"idle", "queued", "done"}
  <2> USE DEF ClientInv
  <2>1. DOMAIN db = Lanes /\ c \in Calls
    BY <1>1 DEF Types, DbTypes, Transactions
  <2>2. ASSUME NEW l \in Lanes, db[l].state # "none"
        PROVE  \E d \in Transactions : Holds(d, l) /\ Running(d)
    <3>1. PICK d \in Calls : Holds(d, l)
      BY <1>1, <2>2 DEF HolderInv
    <3>2. d \in Transactions /\ opener[d] # "none" /\ ~Over(d)
      BY <3>1 DEF Holds
    <3>3. pc[d] # "done"
      BY <1>1, <3>2 DEF DoneInv
    <3> QED BY <1>1, <3>1, <3>2, <3>3 DEF Running, CallInv, Phase
  <2>3. ASSUME NEW l \in Lanes, NEW q \in db[l].rows, q \in Work(c) PROVE FALSE
    <3>1. db[l].state # "none"
      BY <1>1, <2>3 DEF HolderInv
    <3>2. PICK d \in Transactions : Holds(d, l) /\ Running(d)
      BY <2>2, <3>1
    <3>3. q[1] = d /\ q[1] = c
      BY <2>3, <3>2 DEF Holds, Work
    <3> QED BY <1>1, <3>2, <3>3 DEF Running
  <2>4. Lane(<<c, "begin">>) \in Lanes
    BY <2>1 DEF Lane, Lanes
  <2>5. \A d \in Transactions : Running(d) => pc[d] \notin {"idle", "queued", "done"}
    BY DEF Running
  <2> QED BY <2>1, <2>2, <2>3, <2>4, <2>5
<1>2. ClientInv => NothingLeftOpen
  BY <1>1 DEF NothingLeftOpen
<1> QED BY <1>2, ClientInvariant, PTL

-----------------------------------------------------------------------------
(***************************************************************************)
(* The ledger.                                                             *)
(***************************************************************************)
durable == {c \in Calls : WrittenBy(c) # {}}

\* The steps that tell a call.
LEMMA TellsLedger ==
  ASSUME ClientInv, Written, NEW c \in Calls, Call(c) \/ Start(c) \/ Callback(c) \/ Continue(c)
  PROVE  /\ UNCHANGED <<program, commits>> /\ (session' = session \/ session' = "closing")
         /\ session = "lost" <=> session' = "lost"
         /\ \/ told' = told
            \/ /\ told[c] = "none" /\ req' = req
               /\ \/ told' = [told EXCEPT ![c] = "error"]
                  \/ (c \in HasToKeep => Durable(c)) /\ told' = [told EXCEPT ![c] = "ok"]
<1> USE DEF ClientInv
<1>1. /\ UNCHANGED <<program, commits>>
      /\ session' = session \/ (session = "open" /\ session' = "closing")
  BY DEF Call, Start, StartQuery, StartTransaction, Callback, Query, Finish, Return, Throw,
         Continue, EndQuery, FinishFails, FinishExecutes, FinishCommits, Finished,
         CommitsOrReturns, Committed, Catches, RollsBackOrThrows, RolledBack, Retires, Retired,
         CloseSession, callVars, txVars, endVars, wireVars, dbVars
<1>2. \/ told' = told
      \/ pc[c] # "done" /\ req' = req /\ told' = [told EXCEPT ![c] = "error"]
      \/ EndQuery(c) \/ Committed(c)
      \/ CommitsOrReturns(c) /\ ~(started(c) /\ ~committed[c])
  BY DEF Call, Start, StartQuery, StartTransaction, Callback, Query, Finish, Return, Throw,
         Continue, FinishFails, FinishExecutes, FinishCommits, Finished, Done, Settled,
         CommitsOrReturns, Catches, RollsBackOrThrows, RolledBack, Retires, Retired,
         callVars, txVars, endVars, wireVars, dbVars
<1>3. told[c] = "none" <=> pc[c] # "done"
  BY DEF CallInv, Phase
<1>4. c \in HasToKeep => Got(c, "query") \/ Whole(c)
  <2>1. ASSUME c \in HasToKeep, ~Got(c, "query") PROVE Whole(c)
    <3>1. PICK r \in Work(c) : Succeeded(r)
      BY <2>1 DEF HasToKeep, Got, Succeeded
    <3>2. \E n \in Tasks : Got(c, n)
      BY <3>1 DEF Work, Tasks, Got, Succeeded
    <3>3. \A n \in Tasks : <<c, n>> \in Work(c)
      BY DEF Work, Tasks
    <3>4. \A n \in Tasks \cup {"begin"} : req[<<c, n>>] # "error"
      BY <2>1, <3>3 DEF HasToKeep, Failed
    <3> QED BY <3>2, <3>4 DEF Whole
  <2> QED BY <2>1
<1>5. CASE EndQuery(c)
  <2>1. /\ pc[c] = "asking" /\ req' = req /\ req[<<c, "query">>] \in {"ok", "error"}
        /\ told' = [told EXCEPT ![c] = req[<<c, "query">>]]
    BY <1>5 DEF EndQuery, Done, wireVars
  <2>2. req[<<c, "query">>] = "ok" => Durable(c)
    BY DEF KeepInv, Got
  <2> QED BY <1>1, <1>3, <2>1, <2>2
<1>6. CASE Committed(c) \/ (CommitsOrReturns(c) /\ ~(started(c) /\ ~committed[c]))
  <2>1. /\ pc[c] \in {"committing", "draining"} /\ req' = req
        /\ told' = [told EXCEPT ![c] = "ok"]
        /\ Got(c, "commit") \/ opener[c] = "none" \/ committed[c]
    BY <1>6 DEF Committed, CommitsOrReturns, Drained, Done, wireVars, started, Succeeded, Got
  <2>2. c \in Transactions /\ ~Got(c, "query")
    BY <2>1 DEF CallInv, Phase, Sent, Got
  <2>3. Confirmed(c) \/ opener[c] = "none"
    BY <2>1 DEF CallInv, Asked, Ending, Confirmed
  <2>4. opener[c] = "none" => ~Whole(c)
    BY NameFacts DEF CallInv, Asked, Sent, Got, Whole
  <2>5. c \in HasToKeep => Durable(c)
    BY <1>4, <2>2, <2>3, <2>4 DEF KeepInv
  <2> QED BY <1>1, <1>3, <2>1, <2>5
<1> QED BY <1>1, <1>2, <1>3, <1>5, <1>6

\* The steps that commit.
LEMMA CommitsLedger ==
  ASSUME ClientInv, NEW r \in Requests, Answered(r)
  PROVE  /\ UNCHANGED <<program, told, session>>
         /\ \/ \A d \in Calls : Durable(d)' = Durable(d)
            \/ /\ r[1] \in Calls /\ told[r[1]] # "ok"
               /\ told[r[1]] = "none" \/ r[1] \notin Transactions \/ session = "lost"
               /\ \A d \in Calls : Durable(d)' <=> Durable(d) \/ d = r[1]
<1> USE DEF ClientInv
<1> DEFINE c == r[1]
<1>1. /\ Served(r)
      /\ \E outcome \in {"ok", "error"} :
              /\ Settles(r, outcome)
              /\ Stays(r, outcome) \/ Opened(r, outcome) \/ Closed(r, outcome) \/ Single(r, outcome)
  BY AnsweredEffect
<1>2. PICK outcome \in {"ok", "error"} :
              /\ Settles(r, outcome)
              /\ Stays(r, outcome) \/ Opened(r, outcome) \/ Closed(r, outcome) \/ Single(r, outcome)
  BY <1>1
<1>3. /\ UNCHANGED <<program, told, session>> /\ In(r)
  BY <1>2 DEF Settles, Moves
<1>4. /\ c \in Calls /\ Conn(r) = db[Lane(r)] /\ r = <<c, r[2]>>
      /\ db[Lane(r)].state = "none" => db[Lane(r)].rows = {}
      /\ c \notin Transactions => r[2] = "query"
      /\ c \in Transactions =>
           /\ opener[c] # "none" /\ (db[Lane(r)].state # "none" => Holds(c, Lane(r)))
  BY <1>1, ConnFacts, RequestFacts
<1> HIDE DEF c
<1>5. told[c] # "ok"
  <2>1. ~Over(c) /\ req[r] # "ok"
    BY <1>3, <1>4 DEF LineInv, c
  <2>2. c \in Transactions => opener[c] # "none" /\ ~Over(c)
    BY <1>4, <2>1
  <2>3. c \notin Transactions => ~Got(c, "query")
    BY <1>4, <2>1 DEF Got
  <2> QED BY <1>4, <2>2, <2>3 DEF CallInv, Phase
<1>6. told[c] = "none" \/ c \notin Transactions \/ session = "lost"
  <2>1. session # "closed"
    BY <1>3 DEF LineInv, In, ToSet
  <2>2. ASSUME told[c] # "none", c \in Transactions, session # "lost" PROVE FALSE
    <3>1. pc[c] = "done" /\ session \in {"open", "closing"}
      BY <1>4, <2>1, <2>2 DEF CallInv, Phase, Types, DbTypes
    <3>2. Over(c)
      BY <1>4, <2>2, <3>1 DEF DoneInv
    <3> QED BY <1>3, <3>2 DEF LineInv, c
  <2> QED BY <2>2
<1>7. commits' = commits \/ \E s : commits' = commits \cup {s} /\ \A q \in s : q[1] = c
  <2>1. CASE Closed(r, outcome)
    <3>1. \A q \in Conn(r).rows \cup ({r} \cap Work(r[1])) : q[1] = c
      BY <1>4, <2>1 DEF Holds, Closed, c
    <3> QED BY <2>1, <3>1 DEF Closed
  <2>2. CASE Single(r, outcome)
    BY <2>2 DEF Single, c
  <2> QED BY <1>2, <2>1, <2>2 DEF Stays, Opened
<1>8. \/ \A d \in Calls : Durable(d)' = Durable(d)
      \/ \A d \in Calls : Durable(d)' <=> Durable(d) \/ d = c
  <2>1. CASE commits' = commits
    BY <2>1 DEF Durable
  <2>2. CASE commits' # commits
    <3>1. PICK s : commits' = commits \cup {s} /\ \A q \in s : q[1] = c
      BY <1>7, <2>2
    <3> QED BY <1>4, <3>1 DEF Durable
  <2> QED BY <2>1, <2>2
<1> QED BY <1>3, <1>4, <1>5, <1>6, <1>8 DEF c

\* A step of the client is one of the ledger, or none.
LEMMA LedgerStep ==
  ASSUME ClientInv, Written, Written', [ClientNext]_vars
  PROVE  [Ledger!LedgerNext]_(Ledger!ledgerVars)
<1> USE DEF ClientInv
<1>1. HasToKeep' \in SUBSET Calls
  BY DEF HasToKeep
<1>2. /\ \A c \in Calls : (c \in durable <=> Durable(c)) /\ (c \in durable' <=> Durable(c)')
      /\ durable \subseteq Calls /\ durable' \subseteq Calls
  BY DEF Written, durable
<1>3. \A c \in Calls : told[c] \in {"none", "ok", "error"}
  BY DEF Types, CallTypes
<1>4. ASSUME UNCHANGED <<program, told, commits>>, (session' = "lost") = (session = "lost")
      PROVE  Ledger!LedgerNext
  <2>1. Transactions' = Transactions /\ durable' = durable
    BY <1>4 DEF Transactions, durable, WrittenBy, Work
  <2> QED BY <1>1, <1>4, <2>1 DEF Ledger!LedgerNext, Ledger!Work, durable
<1>5. CASE \E c \in Calls : Call(c) \/ Start(c) \/ Callback(c) \/ Continue(c)
  <2>1. PICK c \in Calls : Call(c) \/ Start(c) \/ Callback(c) \/ Continue(c)
    BY <1>5
  <2>2. /\ UNCHANGED <<program, commits>> /\ (session = "lost" <=> session' = "lost")
        /\ \/ told' = told
           \/ /\ told[c] = "none" /\ req' = req
              /\ \/ told' = [told EXCEPT ![c] = "error"]
                 \/ (c \in HasToKeep => Durable(c)) /\ told' = [told EXCEPT ![c] = "ok"]
    BY <2>1, TellsLedger
  <2>3. CASE told' = told
    BY <1>4, <2>2, <2>3
  <2>4. CASE told' # told
    <3>1. Transactions' = Transactions /\ durable' = durable /\ HasToKeep' = HasToKeep
      BY <2>2, <2>4 DEF Transactions, durable, WrittenBy, Work, HasToKeep, Succeeded, Failed
    <3>2. \/ told' = [told EXCEPT ![c] = "error"]
          \/ (c \in HasToKeep => c \in durable) /\ told' = [told EXCEPT ![c] = "ok"]
      BY <1>2, <2>2, <2>4
    <3>3. Ledger!Tell(c)
      BY <2>2, <2>4, <3>1, <3>2 DEF Ledger!Tell, durable
    <3> QED BY <3>3 DEF Ledger!LedgerNext
  <2> QED BY <2>3, <2>4
<1>6. CASE \E r \in Requests : Answered(r)
  <2>1. PICK r \in Requests : Answered(r)
    BY <1>6
  <2>2. /\ UNCHANGED <<program, told, session>>
        /\ \/ \A d \in Calls : Durable(d)' = Durable(d)
           \/ /\ r[1] \in Calls /\ told[r[1]] # "ok"
              /\ told[r[1]] = "none" \/ r[1] \notin Transactions \/ session = "lost"
              /\ \A d \in Calls : Durable(d)' <=> Durable(d) \/ d = r[1]
    BY <2>1, CommitsLedger
  <2>3. Transactions' = Transactions
    BY <2>2 DEF Transactions
  <2>4. CASE \A d \in Calls : Durable(d)' = Durable(d)
    <3>1. durable' = durable
      BY <1>2, <2>4
    <3> QED BY <1>1, <2>2, <2>3, <3>1 DEF Ledger!LedgerNext, Ledger!Work, durable
  <2>5. CASE ~\A d \in Calls : Durable(d)' = Durable(d)
    <3>1. durable' = durable \cup {r[1]} /\ r[1] \in Calls
      BY <1>2, <2>2, <2>5
    <3>2. Ledger!Commit(r[1])
      BY <1>1, <1>3, <2>2, <2>3, <2>5, <3>1 DEF Ledger!Commit, Ledger!Work, durable
    <3> QED BY <3>1, <3>2 DEF Ledger!LedgerNext
  <2> QED BY <2>4, <2>5
<1>7. CASE Lose
  <2>1. UNCHANGED <<program, told, commits>> /\ session # "lost" /\ session' = "lost"
    BY <1>7 DEF Lose, callVars, dbVars
  <2>2. Transactions' = Transactions /\ durable' = durable
    BY <2>1 DEF Transactions, durable, WrittenBy, Work
  <2>3. Ledger!Lose
    BY <1>1, <2>1, <2>2 DEF Ledger!Lose, Ledger!Work, durable
  <2> QED BY <2>3 DEF Ledger!LedgerNext
<1>8. CASE \/ \E r \in Requests : TimesOut(r)
           \/ CallClose \/ StartClose \/ EndClose \/ SessionCloses \/ Abandon \/ UNCHANGED vars
  <2>1. UNCHANGED <<program, told, commits>>
    BY <1>8 DEF TimesOut, CallClose, StartClose, EndClose, SessionCloses, Abandon, vars,
         callVars, dbVars
  <2>2. (session' = "lost") = (session = "lost")
    BY <1>8 DEF TimesOut, CallClose, StartClose, EndClose, SessionCloses, Abandon,
         CloseSession, vars, endVars
  <2> QED BY <1>4, <2>1, <2>2
<1> QED BY <1>5, <1>6, <1>7, <1>8 DEF ClientNext, AllDone

(***************************************************************************)
(* The client keeps the ledger: a call is told once, of success only when  *)
(* its work is durable, and a transaction commits nothing after it was     *)
(* told (index.ts:682 to 776).                                             *)
(***************************************************************************)
THEOREM ClientKeepsLedger == ClientSpec /\ Encodable => KeepsTransactionLedger
<1>1. ASSUME ClientInit PROVE Ledger!LedgerInit
  <2>1. /\ told = [c \in Calls |-> "none"] /\ commits = {} /\ session = "open"
        /\ req = [r \in Requests |-> "unsent"]
    BY <1>1 DEF ClientInit
  <2>2. HasToKeep = {}
    <3>1. \A c \in Calls : \A r \in Work(c) \cup {<<c, "query">>} : r \in Requests
      BY NameFacts, RequestFacts DEF Work, Tasks
    <3> QED BY <2>1, <3>1 DEF HasToKeep, Succeeded
  <2>3. {c \in Calls : WrittenBy(c) # {}} = {}
    BY <2>1 DEF WrittenBy
  <2> QED BY <2>1, <2>2, <2>3 DEF Ledger!LedgerInit, Transactions
<1>2. ClientInv => Written
  BY DurableWritten
<1>3. ClientInv /\ Written /\ Written' /\ [ClientNext]_vars
        => [Ledger!LedgerNext]_(Ledger!ledgerVars)
  BY LedgerStep
<1> QED BY <1>1, <1>2, <1>3, ClientInvariant, PTL
     DEF ClientSpec, KeepsTransactionLedger, Ledger!LedgerSpec
=============================================================================
