---------------------------- MODULE SessionProofs ----------------------------
(***************************************************************************)
(* What holds of every session, whatever its calls, its lanes and its      *)
(* time-outs: the order of a lane, what is drained before it is followed,  *)
(* what close() leaves behind, and the ledger of the outcomes.             *)
(***************************************************************************)
EXTENDS Session, SubsequencesProofs, FiniteSetTheorems

AllCalls == Requests \cup {Close}

ClientTypes ==
  /\ program \in Programs
  /\ pc \in [Requests -> {"idle", "gated", "sent", "refused"}]
  /\ answer \in [Requests -> {"none", "ok", "error", "refused", "timeout", "lost"}]
  /\ requestId \in [Requests -> Nat]
  /\ timedOut \subseteq pending /\ pending \subseteq Requests
  /\ links \in [added : Nat, resolved : Nat]
  /\ ticket \in [AllCalls -> Nat]
  /\ closer \in {"none", "gated", "sent", "reading", "done"}

WorkTypes ==
  /\ loop \in {"reading", "serving", "closed", "aborted"}
  /\ serving \in AllCalls \cup {None}
  /\ run \in [Requests -> {"none", "queued", "waiting", "executing", "done"}]
  /\ previous \in [Requests -> Requests \cup {None}]
  /\ laneTails \in [Lanes -> Requests \cup {None}]
  /\ ran \subseteq Requests /\ lost \in BOOLEAN

Replies == [id : AllCalls \cup {None}, ok : BOOLEAN]

QueueTypes ==
  /\ waiting \in Seq(AllCalls) /\ woken \in Seq(AllCalls)
  /\ input \in Seq(AllCalls) /\ queue \in Seq(Requests) /\ output \in Seq(Replies)

Types == ClientTypes /\ WorkTypes /\ QueueTypes

\* Who waits is gated, and waits once.
GateInv ==
  /\ IsInjective(waiting) /\ IsInjective(woken) /\ ToSet(waiting) \cap ToSet(woken) = {}
  /\ \A r \in Requests : r \in ToSet(waiting) \cup ToSet(woken) => pc[r] = "gated"
  /\ Close \in ToSet(waiting) \cup ToSet(woken) => closer \in {"gated", "done"}

\* What is sent has a number of its own.
SentInv ==
  /\ \A r \in Requests : requestId[r] > 0 => pc[r] = "sent"
  /\ \A r \in Requests : pc[r] = "sent" => requestId[r] > 0
  /\ \A r \in Requests : pc[r] # "sent" => run[r] = "none" /\ r \notin pending
  /\ \A r, q \in Requests : requestId[r] > 0 /\ requestId[r] = requestId[q] => r = q
  /\ \A r \in Requests : requestId[r] <= Cardinality({q \in Requests : requestId[q] > 0})

\* The input has what is sent and not served yet, in the order it was sent.
InputInv ==
  /\ \A i \in 1..Len(input) : input[i] # Close =>
       pc[input[i]] = "sent" /\ run[input[i]] = "none"
  /\ \A i, j \in 1..Len(input) : i < j =>
       input[i] # Close /\ (input[j] # Close => requestId[input[i]] < requestId[input[j]])
  /\ \A i \in 1..Len(input), q \in Requests : input[i] # Close /\ run[q] # "none" =>
       requestId[q] < requestId[input[i]]
  /\ \A i \in 1..Len(input) : input[i] = Close => closer \in {"sent", "reading"}
  /\ \A q \in Requests : pc[q] = "sent" /\ run[q] = "none" /\ closer # "done" =>
       \E i \in 1..Len(input) : input[i] = q
  /\ closer = "done" => input = <<>>
  /\ (serving = Close \/ loop = "closed") => input = <<>> /\ closer \notin {"none", "gated"}

WorkInv ==
  /\ loop # "serving" => serving = None
  /\ IsInjective(queue) /\ \A r \in ToSet(queue) : run[r] = "waiting"
  /\ \A r, q \in ToSet(queue) : Op(r) = "listen" /\ Op(q) = "listen" => r = q
  /\ \A r \in Requests : run[r] = "waiting" => concurrent /\ Op(r) \in OnPool \cup {"listen"}
  /\ loop = "closed" => InFlight = {}
  /\ ~concurrent /\ loop # "aborted" => InFlight \subseteq {serving}
  /\ loop = "aborted" => lost

\* What is pending is answered: it is on its way, in flight or in the output.
OutputInv ==
  /\ \A i \in 1..Len(output) : output[i].id \in Requests =>
       /\ run[output[i].id] = "done" /\ (closer # "done" => output[i].id \in pending)
       /\ output[i].ok => output[i].id \in ran
  /\ \A i, j \in 1..Len(output) : output[i].id = output[j].id => i = j
  /\ \A i \in 1..Len(output) : output[i].id \notin Requests => loop = "closed"
  /\ \A q \in Requests : pc[q] = "sent" /\ q \notin pending /\ closer # "done" => run[q] = "done"
  /\ ~lost => \A q \in pending : run[q] = "done" => \E i \in 1..Len(output) : output[i].id = q

AnswerInv ==
  /\ \A r \in Requests : pc[r] \in {"idle", "gated"} => answer[r] = "none"
  /\ \A r \in Requests : answer[r] = "refused" => pc[r] = "refused"
  /\ \A r \in pending \ timedOut : answer[r] = "none"
  /\ \A r \in Requests : answer[r] \in {"ok", "error"} => run[r] = "done"
  /\ \A r \in ran : run[r] = "done"
  /\ ~lost => \A r \in Requests : answer[r] # "lost"

DrainInv ==
  ~concurrent =>
    /\ timedOut # {} => links.resolved < links.added
    /\ links.resolved <= links.added
    /\ woken # <<>> => timedOut = {}
    /\ \A x \in ToSet(waiting) : links.resolved < ticket[x]

SameLane(q, r) == concurrent /\ Lane(r) # None /\ Lane(r) = Lane(q)
Earlier(q, r)  == 0 < requestId[q] /\ requestId[q] < requestId[r]

LaneInv ==
  loop # "aborted" =>
    /\ LaneOrder
    /\ \A r, q \in Requests : SameLane(q, r) /\ Earlier(q, r) /\ run[r] # "none" =>
         run[q] = "done" \/ (previous[r] # None /\ requestId[q] <= requestId[previous[r]])
    /\ \A r \in Requests : previous[r] # None =>
         Lane(previous[r]) = Lane(r) /\ run[previous[r]] # "none"
    /\ \A l \in Lanes : laneTails[l] # None =>
         Lane(laneTails[l]) = l /\ run[laneTails[l]] # "none"
    /\ \A q \in Requests : Lane(q) # None /\ run[q] \notin {"none", "done"} =>
         laneTails[Lane(q)] # None /\ requestId[q] <= requestId[laneTails[Lane(q)]]

\* PGlite serves one request at a time.
SerialInv ==
  ~concurrent => \A r, q \in Requests : Earlier(q, r) /\ run[r] # "none" => run[q] = "done"

Withdraws(r, q) == Op(r) = "unlisten" /\ Op(q) = "listen" /\ Sub(q) = Sub(r) /\ Earlier(q, r)

UnlistenInv ==
  /\ concurrent => \A r, q \in Requests : Withdraws(r, q) => run[q] = "done"
  /\ concurrent => \A r, q \in Requests :
       Withdraws(r, q) /\ run[r] \in {"executing", "done"} => Sub(r) \notin subs
  /\ ~concurrent => subs = {} /\ \A r \in Requests :
       Op(r) = "listen" => run[r] # "executing"

SessionInv ==
  /\ Types /\ GateInv /\ SentInv /\ InputInv /\ WorkInv /\ OutputInv /\ AnswerInv
  /\ DrainInv /\ LaneInv /\ SerialInv /\ UnlistenInv

-----------------------------------------------------------------------------
(***************************************************************************)
(* The admission of a call: it enters, new or resumed, and is refused,     *)
(* waits, is sent or, if it is a close that is over, is dropped.           *)
(***************************************************************************)
Entry(x) ==
  \/ x \in Requests /\ pc[x] = "idle" /\ woken = <<>> /\ woken' = woken
  \/ x = Close /\ closer = "none" /\ woken = <<>> /\ woken' = woken
  \/ woken # <<>> /\ x = Head(woken) /\ woken' = Tail(woken)

elsewhere == <<program, timedOut, links, workVars, engineVars, output, lost>>

EntryRefused(x) ==
  /\ Entry(x) /\ x # Close /\ closing /\ Refuse(x)
  /\ UNCHANGED <<requestId, pending, waiting, ticket, closer, input, elsewhere>>

EntryGated(x) ==
  /\ Entry(x) /\ Gate(x) /\ Blocked(x)
  /\ IF x = Close THEN closer \in {"none", "gated"} /\ closer' = "gated" /\ UNCHANGED pc
                  ELSE ~closing /\ pc' = [pc EXCEPT ![x] = "gated"] /\ UNCHANGED closer
  /\ UNCHANGED <<answer, requestId, pending, input, elsewhere>>

EntrySent(x) ==
  /\ Entry(x) /\ Send(x)
  /\ IF x = Close THEN closer \in {"none", "gated"} ELSE ~closing
  /\ ~Blocked(x) \/ (~concurrent /\ woken # <<>>)
  /\ UNCHANGED <<answer, waiting, ticket, elsewhere>>

EntryDropped ==
  /\ Entry(Close) /\ closer = "done"
  /\ UNCHANGED <<pc, answer, requestId, pending, waiting, ticket, closer, input, elsewhere>>

Enters(x) == EntryRefused(x) \/ EntryGated(x) \/ EntrySent(x) \/ (x = Close /\ EntryDropped)

\* Who enters was idle, or the first of those whose wait is over.
LEMMA EntryFacts ==
  ASSUME Types, GateInv, NEW x, Entry(x)
  PROVE  /\ x \in AllCalls /\ woken' \in Seq(AllCalls) /\ IsInjective(woken')
         /\ ToSet(woken') \subseteq ToSet(woken) /\ x \notin ToSet(waiting) \cup ToSet(woken')
         /\ x \in Requests => pc[x] \in {"idle", "gated"}
         /\ x = Close => closer \in {"none", "gated", "done"}
<1> USE SessionAssumption DEF Types, ClientTypes, QueueTypes, GateInv, AllCalls
<1>1. CASE woken # <<>> /\ x = Head(woken) /\ woken' = Tail(woken)
  <2>1. /\ x \in AllCalls /\ woken' \in Seq(AllCalls) /\ x \in ToSet(woken)
        /\ ToSet(woken) = {x} \cup ToSet(woken') /\ IsInjective(woken') /\ x \notin ToSet(woken')
    BY <1>1, TailMembers
  <2> QED BY <2>1
<1>2. CASE woken = <<>> /\ woken' = woken
  <2>1. ToSet(woken) = {}
    BY <1>2 DEF ToSet
  <2> QED BY <1>2, <2>1 DEF Entry
<1> QED BY <1>1, <1>2 DEF Entry

\* A call, a close and a resumption enter.
LEMMA AdmissionEnters ==
  ASSUME Types, GateInv, (\E r \in Requests : Call(r)) \/ CallClose \/ Resume
  PROVE  \E x \in AllCalls : Enters(x)
<1> USE DEF elsewhere, AllCalls, closing
<1>1. ASSUME NEW r \in Requests, Call(r)
      PROVE  Enters(r)
  <2>0. r # Close /\ Entry(r)
    BY <1>1, SessionAssumption DEF Call, Entry, Quiet
  <2> QED BY <1>1, <2>0 DEF Call, Enters, EntryRefused, EntryGated, EntrySent
<1>2. ASSUME CallClose
      PROVE  Enters(Close)
  <2>0. Entry(Close)
    BY <1>2 DEF CallClose, Entry, Quiet
  <2> QED BY <1>2, <2>0 DEF CallClose, Enters, EntryRefused, EntryGated, EntrySent
<1>3. ASSUME Resume
      PROVE  Enters(Head(woken)) /\ Head(woken) \in AllCalls
  <2> DEFINE x == Head(woken)
  <2>0. Entry(x)
    BY <1>3 DEF Resume, Entry
  <2>1. x \in AllCalls /\ x \in ToSet(woken)
    BY <1>3, TailMembers DEF Resume, Types, QueueTypes
  <2>2. (x # Close => pc[x] = "gated") /\ (x = Close => closer \in {"gated", "done"})
    BY <2>1 DEF GateInv
  <2>3. x # Close => [pc EXCEPT ![x] = "gated"] = pc
    BY <2>1, <2>2 DEF Types, ClientTypes
  <2> HIDE DEF x
  <2>4. \/ x # Close /\ closing /\ Refuse(x)
           /\ UNCHANGED <<requestId, pending, waiting, ticket, closer, input>>
        \/ x # Close /\ ~closing /\ concurrent /\ Blocked(x) /\ Gate(x)
           /\ UNCHANGED <<pc, answer, requestId, pending, closer, input>>
        \/ x # Close /\ ~closing /\ ~(concurrent /\ Blocked(x)) /\ Send(x)
           /\ UNCHANGED <<answer, waiting, ticket>>
        \/ x = Close /\ closer = "done"
           /\ UNCHANGED <<pc, requestId, pending, closer, input, answer, waiting, ticket>>
        \/ x = Close /\ closer # "done" /\ Send(x) /\ UNCHANGED <<answer, waiting, ticket>>
    BY <1>3 DEF Resume, x
  <2>5. UNCHANGED elsewhere /\ woken # <<>>
    BY <1>3 DEF Resume
  <2>6. Close \notin Requests /\ (x = Close => (concurrent => ~Blocked(x)))
    BY SessionAssumption DEF Blocked
  <2> QED BY <2>0, <2>1, <2>2, <2>3, <2>4, <2>5, <2>6
          DEF Enters, EntryRefused, EntryGated, EntrySent, EntryDropped, x
<1> QED BY <1>1, <1>2, <1>3

\* What the end of a wait does to those who wait.
Drained(P, n) ==
  /\ waiting' \in Seq(AllCalls) /\ woken' \in Seq(AllCalls)
  /\ IsInjective(waiting') /\ IsInjective(woken')
  /\ ToSet(waiting') = {x \in ToSet(waiting) : ~Freed(x, P, n)}
  /\ ToSet(woken') = ToSet(woken) \cup {x \in ToSet(waiting) : Freed(x, P, n)}

\* A drain splits those who wait in two, and keeps their order.
LEMMA DrainFacts ==
  ASSUME Types, GateInv, NEW P, NEW n, Drain(P, n)
  PROVE  Drained(P, n)
<1> DEFINE freed == {x \in ToSet(waiting) : Freed(x, P, n)}
<1>1. waiting' = Among(waiting, ToSet(waiting) \ freed) /\ woken' = woken \o Among(waiting, freed)
  BY DEF Drain
<1> DEFINE more == Among(waiting, freed)
<1>2. /\ ToSet(waiting) \ freed = {x \in ToSet(waiting) : ~Freed(x, P, n)}
      /\ freed \subseteq ToSet(waiting)
  OBVIOUS
<1> HIDE DEF freed
<1>3. /\ more \in Seq(AllCalls) /\ ToSet(more) = ToSet(waiting) \cap freed /\ IsInjective(more)
      /\ waiting' \in Seq(AllCalls) /\ IsInjective(waiting')
      /\ ToSet(waiting') = ToSet(waiting) \cap (ToSet(waiting) \ freed)
  BY <1>1, AmongMembers DEF Types, ClientTypes, QueueTypes, GateInv
<1> HIDE DEF more
<1>4. woken' = woken \o more
  BY <1>1 DEF more
<1>5. woken' \in Seq(AllCalls) /\ ToSet(woken') = ToSet(woken) \cup ToSet(more) /\ IsInjective(woken')
  BY <1>2, <1>3, <1>4, ConcatMembers DEF Types, ClientTypes, QueueTypes, GateInv
<1> QED BY <1>2, <1>3, <1>5 DEF Drained, freed

-----------------------------------------------------------------------------
(***************************************************************************)
(* The other steps, as far as the invariants see them.                     *)
(***************************************************************************)
\* A request comes to its end.
Ends(r, ok) ==
  /\ run[r] \in {"queued", "executing"} /\ run' = [run EXCEPT ![r] = "done"]
  /\ Respond(r, ok)
  /\ ran' \in {ran, ran \cup {r}} /\ subs' \in {subs, subs \cup {Sub(r)}}
  /\ ok => r \in ran'
  /\ run[r] = "queued" => Runnable(r) /\ Invalid(r) /\ UNCHANGED <<ran, subs>>
  /\ subs' # subs => Op(r) = "listen" /\ loop # "aborted"
  /\ UNCHANGED <<program, clientVars, input, queue, lost>>

\* A refusal, a success and a failure are ends.
LEMMA ReplyEnds ==
  ASSUME NEW r \in Requests, StartFails(r) \/ Succeeds(r) \/ Fails(r)
  PROVE  \E ok \in BOOLEAN : Ends(r, ok)
<1>1. CASE StartFails(r)
  BY <1>1 DEF StartFails, Ends, SetRun, Runnable, engineVars
<1>2. CASE Succeeds(r)
  BY <1>2 DEF Succeeds, Ends, SetRun
<1>3. CASE Fails(r)
  BY <1>3 DEF Fails, Ends, SetRun
<1> QED BY <1>1, <1>2, <1>3

\* Every step is one of these.
AnyStep ==
  \/ \E x \in AllCalls : Enters(x) \/ Serve(x)
  \/ \E r \in Requests : \/ TimesOut(r) \/ Receive(r) \/ Schedule(r)
                         \/ StartWaits(r) \/ StartExecutes(r)
                         \/ \E ok \in BOOLEAN : Ends(r, ok)
  \/ GateOpens \/ ReceiveClose \/ ReceiveEnd \/ ReadFails
  \/ EngineCloses \/ Grant \/ Abort \/ UNCHANGED vars

\* The steps of the specification are these.
LEMMA StepCases ==
  ASSUME Types, GateInv, [SessionNext]_vars
  PROVE  AnyStep
<1>1. CASE (\E r \in Requests : Call(r)) \/ CallClose \/ Resume
  BY <1>1, AdmissionEnters DEF AnyStep
<1>2. CASE \E r \in Requests : StartFails(r) \/ Reply(r)
  BY <1>2, ReplyEnds DEF AnyStep, Reply
<1>3. CASE \/ GateOpens \/ (\E r \in Requests : Receive(r)) \/ ReceiveClose \/ ReceiveEnd
           \/ ReadFails \/ Serve(Close) \/ EngineCloses \/ Grant \/ Abort \/ UNCHANGED vars
  BY <1>3 DEF AnyStep, AllCalls
<1>4. CASE \E r \in Requests : TimesOut(r) \/ Schedule(r) \/ Serve(r)
  BY <1>4 DEF AnyStep, AllCalls
<1>5. CASE \E r \in Requests : StartWaits(r) \/ StartExecutes(r)
  BY <1>5 DEF AnyStep
<1> QED BY <1>1, <1>2, <1>3, <1>4, <1>5 DEF SessionNext, ClientStep, Work, Reply

\* The session itself does not change.
Fixed == program' = program /\ concurrent' = concurrent /\ Lanes' = Lanes

\* No step changes the session.
LEMMA SessionFixed ==
  ASSUME AnyStep
  PROVE  Fixed
<1>1. program' = program
  <2>1. ASSUME NEW x \in AllCalls, Enters(x) \/ Serve(x) PROVE program' = program
    BY <2>1 DEF Enters, EntryRefused, EntryGated, EntrySent, EntryDropped, elsewhere, Serve
  <2>2. ASSUME NEW r \in Requests, NEW ok \in BOOLEAN,
               \/ TimesOut(r) \/ Receive(r) \/ Schedule(r) \/ StartWaits(r) \/ StartExecutes(r)
               \/ Ends(r, ok)
        PROVE  program' = program
    BY <2>2 DEF TimesOut, Receive, Schedule, StartWaits, StartExecutes, Ends
  <2>3. CASE GateOpens \/ ReceiveClose \/ ReceiveEnd \/ ReadFails \/ EngineCloses
    BY <2>3 DEF GateOpens, ReceiveClose, ReceiveEnd, ReadFails, EngineCloses, Finish
  <2>4. CASE Grant \/ Abort \/ UNCHANGED vars
    BY <2>4 DEF Grant, Abort, vars
  <2> QED BY <2>1, <2>2, <2>3, <2>4 DEF AnyStep
<1> QED BY <1>1 DEF Fixed, concurrent, Lanes

\* The client keeps its types.
LEMMA ClientTypesStep ==
  ASSUME Types, AnyStep
  PROVE  ClientTypes'
<1> USE DEF AllCalls
<1>0. ClientTypes
  BY DEF Types
<1>1. ASSUME NEW x \in AllCalls, Enters(x)
      PROVE  ClientTypes'
  <2>2. CASE EntryRefused(x)
    BY <1>0, <2>2 DEF EntryRefused, Refuse, elsewhere, ClientTypes
  <2>3. CASE EntryGated(x)
    <3>1. /\ ticket' = [ticket EXCEPT ![x] = links.added] /\ pc' \in {pc, [pc EXCEPT ![x] = "gated"]}
          /\ closer' \in {closer, "gated"}
          /\ UNCHANGED <<program, answer, requestId, timedOut, pending, links>>
      BY <2>3 DEF EntryGated, Gate, elsewhere
    <3> QED BY <1>0, <3>1 DEF ClientTypes
  <2>4. CASE EntrySent(x)
    <3> DEFINE n == Cardinality({q \in Requests : requestId[q] > 0})
    <3>1. n \in Nat
      <4>1. IsFiniteSet({q \in Requests : requestId[q] > 0})
        BY SessionAssumption, FS_Subset
      <4> QED BY <4>1, FS_CardinalityType
    <3>2. /\ closer' \in {closer, "sent"} /\ UNCHANGED <<program, answer, timedOut, links, ticket>>
          /\ \/ UNCHANGED <<pc, requestId, pending>>
             \/ /\ x \in Requests /\ pc' = [pc EXCEPT ![x] = "sent"]
                /\ requestId' = [requestId EXCEPT ![x] = 1 + n] /\ pending' = pending \cup {x}
      BY <2>4 DEF EntrySent, Send, elsewhere
    <3> HIDE DEF n
    <3> QED BY <1>0, <3>1, <3>2 DEF ClientTypes
  <2>5. CASE EntryDropped
    BY <1>0, <2>5 DEF EntryDropped, elsewhere, ClientTypes
  <2> QED BY <1>1, <2>2, <2>3, <2>4, <2>5 DEF Enters
<1>2. ASSUME NEW P \in SUBSET pending, NEW n \in Nat, Drain(P, n),
             UNCHANGED <<program, pc, requestId, ticket, closer>>,
             answer' \in [Requests -> {"none", "ok", "error", "refused", "timeout", "lost"}]
      PROVE  ClientTypes'
  <2>1. /\ pending' = P /\ timedOut' = timedOut \cap P
        /\ links' = [links EXCEPT !.resolved = n]
    BY <1>2 DEF Drain
  <2> QED BY <1>0, <1>2, <2>1 DEF ClientTypes
<1>3. ASSUME NEW r \in Requests, Receive(r)
      PROVE  ClientTypes'
  <2>1. ResolvedAfter(pending \ {r}) \in Nat
    BY <1>0 DEF ResolvedAfter, ClientTypes
  <2>2. /\ Drain(pending \ {r}, ResolvedAfter(pending \ {r}))
        /\ UNCHANGED <<program, pc, requestId, ticket, closer>>
    BY <1>3 DEF Receive
  <2>3. answer' \in [Requests -> {"none", "ok", "error", "refused", "timeout", "lost"}]
    BY <1>0, <1>3 DEF Receive, ClientTypes
  <2> QED BY <1>2, <2>1, <2>2, <2>3
<1>4. CASE GateOpens
  <2>1. /\ Drain({}, links.resolved + 1) /\ links.resolved + 1 \in Nat
        /\ UNCHANGED <<program, pc, answer, requestId, ticket, closer>>
    BY <1>0, <1>4 DEF GateOpens, ClientTypes
  <2>2. answer' \in [Requests -> {"none", "ok", "error", "refused", "timeout", "lost"}]
    BY <1>0, <2>1 DEF ClientTypes
  <2> QED BY <1>2, <2>1, <2>2
<1>5. ASSUME NEW r \in Requests, TimesOut(r)
      PROVE  ClientTypes'
  BY <1>0, <1>5 DEF TimesOut, ClientTypes
<1>6. CASE ReceiveEnd \/ ReadFails
  <2>1. /\ links' = [links EXCEPT !.resolved = links.added] /\ pending' = {} /\ timedOut' = {}
        /\ closer' = "done" /\ UNCHANGED <<program, pc, requestId, ticket>>
    BY <1>6 DEF ReceiveEnd, ReadFails, Finish
  <2>2. answer' \in [Requests -> {"none", "ok", "error", "refused", "timeout", "lost"}]
    BY <1>0, <1>6 DEF ReceiveEnd, ReadFails, Finish, ClientTypes
  <2> QED BY <1>0, <2>1, <2>2 DEF ClientTypes
<1>7. CASE ReceiveClose
  BY <1>0, <1>7 DEF ReceiveClose, ClientTypes
<1>8. ASSUME NEW r \in Requests, NEW ok \in BOOLEAN,
             Schedule(r) \/ StartWaits(r) \/ StartExecutes(r) \/ Ends(r, ok)
      PROVE  ClientTypes'
  BY <1>0, <1>8 DEF Schedule, StartWaits, StartExecutes, Ends, clientVars, ClientTypes
<1>9. ASSUME NEW x \in AllCalls, Serve(x)
      PROVE  ClientTypes'
  BY <1>0, <1>9 DEF Serve, clientVars, ClientTypes
<1>10. CASE EngineCloses \/ Grant \/ Abort \/ UNCHANGED vars
  BY <1>0, <1>10 DEF EngineCloses, Grant, Abort, vars, clientVars, ClientTypes
<1> QED BY <1>1, <1>3, <1>4, <1>5, <1>6, <1>7, <1>8, <1>9, <1>10 DEF AnyStep

\* So do the workload and the database.
LEMMA WorkTypesStep ==
  ASSUME Types, AnyStep
  PROVE  WorkTypes'
<1>0. WorkTypes
  BY DEF Types
<1>a. Lanes' = Lanes
  BY SessionFixed DEF Fixed
<1>1. CASE UNCHANGED <<workVars, ran, lost>>
  BY <1>0, <1>a, <1>1 DEF workVars, WorkTypes
<1>2. ASSUME NEW x \in AllCalls, Enters(x)
      PROVE  WorkTypes'
  BY <1>1, <1>2 DEF Enters, EntryRefused, EntryGated, EntrySent, EntryDropped, elsewhere,
     engineVars
<1>3. CASE (\E r \in Requests : Receive(r) \/ TimesOut(r)) \/ ReceiveEnd \/ ReadFails
           \/ ReceiveClose \/ GateOpens \/ UNCHANGED vars
  BY <1>1, <1>3 DEF Receive, TimesOut, ReceiveEnd, ReadFails, ReceiveClose, GateOpens, Finish,
     engineVars, vars
<1>4. ASSUME NEW r \in Requests, Schedule(r)
      PROVE  WorkTypes'
  <2>1. Lane(r) # None => Lane(r) \in Lanes
    BY DEF Lane, Lanes
  <2>2. /\ run' = [run EXCEPT ![r] = "queued"] /\ UNCHANGED <<loop, serving, ran, lost>>
        /\ \/ UNCHANGED <<previous, laneTails>>
           \/ /\ Lane(r) # None /\ previous' = [previous EXCEPT ![r] = laneTails[Lane(r)]]
              /\ laneTails' = [laneTails EXCEPT ![Lane(r)] = r]
    BY <1>4 DEF Schedule, engineVars
  <2> QED BY <1>0, <1>a, <2>1, <2>2 DEF WorkTypes
<1>5. ASSUME NEW x \in AllCalls, Serve(x)
      PROVE  WorkTypes'
  <2>1. /\ loop' = "serving" /\ serving' = x /\ UNCHANGED <<previous, laneTails, ran, lost>>
        /\ run' \in {run, [run EXCEPT ![x] = "queued"]}
    BY <1>5 DEF Serve, engineVars
  <2> QED BY <1>0, <1>a, <2>1 DEF WorkTypes
<1>6. ASSUME NEW r \in Requests, NEW ok \in BOOLEAN, Ends(r, ok)
      PROVE  WorkTypes'
  <2>1. /\ loop' \in {loop, "reading"} /\ serving' \in {serving, None}
        /\ laneTails' = [l \in Lanes |-> IF laneTails[l] = r THEN None ELSE laneTails[l]]
        /\ previous' = previous /\ run' = [run EXCEPT ![r] = "done"]
        /\ ran' \in {ran, ran \cup {r}} /\ UNCHANGED lost
    BY <1>6 DEF Ends, Respond
  <2> QED BY <1>0, <1>a, <2>1 DEF WorkTypes
<1>7. ASSUME NEW r \in Requests, StartWaits(r) \/ StartExecutes(r)
      PROVE  WorkTypes'
  <2>1. /\ run' \in {[run EXCEPT ![r] = "waiting"], [run EXCEPT ![r] = "executing"]}
        /\ UNCHANGED <<loop, serving, previous, laneTails, ran, lost>>
    BY <1>7 DEF StartWaits, StartExecutes, SetRun
  <2> QED BY <1>0, <1>a, <2>1 DEF WorkTypes
<1>8. CASE EngineCloses
  BY <1>0, <1>a, <1>8 DEF EngineCloses, WorkTypes
<1>9. CASE Grant
  <2>1. /\ run' \in [Requests -> {"none", "queued", "waiting", "executing", "done"}]
        /\ UNCHANGED <<loop, serving, previous, laneTails, ran, lost>>
    BY <1>0, <1>9 DEF Grant, SetRun, WorkTypes
  <2> QED BY <1>0, <1>a, <2>1 DEF WorkTypes
<1>10. CASE Abort
  <2>1. run' \in [Requests -> {"none", "queued", "waiting", "executing", "done"}]
    BY <1>0, <1>10 DEF Abort, WorkTypes
  <2> QED BY <1>0, <1>a, <1>10, <2>1 DEF Abort, WorkTypes
<1> QED BY <1>2, <1>3, <1>4, <1>5, <1>6, <1>7, <1>8, <1>9, <1>10 DEF AnyStep

\* And the queues.
LEMMA QueueTypesStep ==
  ASSUME Types, GateInv, AnyStep
  PROVE  QueueTypes'
<1>0. /\ waiting \in Seq(AllCalls) /\ woken \in Seq(AllCalls)
      /\ input \in Seq(AllCalls) /\ queue \in Seq(Requests) /\ output \in Seq(Replies)
  BY DEF Types, QueueTypes
<1>1. ASSUME NEW x \in AllCalls, Enters(x)
      PROVE  QueueTypes'
  <2>1. woken' \in Seq(AllCalls)
    BY <1>1, EntryFacts DEF Enters, EntryRefused, EntryGated, EntrySent, EntryDropped
  <2>2. /\ input' \in {input, Append(input, x)} /\ waiting' \in {waiting, Append(waiting, x)}
        /\ UNCHANGED <<queue, output>>
    BY <1>1 DEF Enters, EntryRefused, EntryGated, EntrySent, EntryDropped, Send, Gate, elsewhere,
       engineVars
  <2>3. waiting' \in Seq(AllCalls)
    BY <1>0, <2>2, GrowsInSeq
  <2>4. input' \in Seq(AllCalls)
    BY <1>0, <2>2, GrowsInSeq
  <2> QED BY <1>0, <2>1, <2>2, <2>3, <2>4 DEF QueueTypes
<1>2. ASSUME NEW P, NEW n, Drain(P, n), UNCHANGED <<input, queue>>,
             output' = output \/ (output # <<>> /\ output' = Tail(output))
      PROVE  QueueTypes'
  <2>1. waiting' \in Seq(AllCalls) /\ woken' \in Seq(AllCalls)
    BY <1>2, DrainFacts DEF Drained
  <2>2. output' \in Seq(Replies)
    BY <1>0, <1>2, ShrinksInSeq
  <2> QED BY <1>0, <1>2, <2>1, <2>2 DEF QueueTypes
<1>3. ASSUME NEW r \in Requests, Receive(r)
      PROVE  QueueTypes'
  BY <1>2, <1>3 DEF Receive, engineVars
<1>4. CASE GateOpens
  BY <1>2, <1>4 DEF GateOpens, engineVars
<1>5. CASE ReceiveEnd \/ ReadFails
  <2>1. woken' = woken \o waiting /\ waiting' = <<>> /\ input' = <<>> /\ output' = <<>>
        /\ queue' = queue
    BY <1>5 DEF ReceiveEnd, ReadFails, Finish, engineVars
  <2>2. woken' \in Seq(AllCalls)
    BY <1>0, <2>1
  <2>3. waiting' \in Seq(AllCalls) /\ input' \in Seq(AllCalls) /\ output' \in Seq(Replies)
    BY <2>1
  <2> QED BY <1>0, <2>1, <2>2, <2>3 DEF QueueTypes
<1>6. CASE UNCHANGED <<waiting, woken>>
  <2>1. ASSUME input' = input \/ (input # <<>> /\ input' = Tail(input)), UNCHANGED <<queue, output>>
        PROVE  QueueTypes'
    <3>1. input' \in Seq(AllCalls)
      BY <1>0, <2>1, ShrinksInSeq
    <3> QED BY <1>0, <1>6, <2>1, <3>1 DEF QueueTypes
  <2>2. ASSUME NEW r \in Requests, Schedule(r) \/ StartExecutes(r) \/ TimesOut(r)
        PROVE  QueueTypes'
    BY <2>1, <2>2 DEF Schedule, StartExecutes, TimesOut, engineVars
  <2>3. ASSUME NEW x \in AllCalls, Serve(x)
        PROVE  QueueTypes'
    BY <2>1, <2>3 DEF Serve, engineVars
  <2>4. CASE UNCHANGED vars
    BY <2>1, <2>4 DEF vars, engineVars
  <2>5. ASSUME NEW r \in Requests, NEW ok \in BOOLEAN, Ends(r, ok)
        PROVE  QueueTypes'
    <3>1. Response(r, ok) \in Replies
      BY DEF Response, Replies, AllCalls
    <3>2. output' \in {output, Append(output, Response(r, ok))}
          /\ UNCHANGED <<input, queue>>
      BY <2>5 DEF Ends, Respond
    <3>3. output' \in Seq(Replies)
      BY <1>0, <3>1, <3>2, GrowsInSeq
    <3> QED BY <1>0, <1>6, <3>2, <3>3 DEF QueueTypes
  <2>6. ASSUME NEW r \in Requests, StartWaits(r)
        PROVE  QueueTypes'
    <3>1. queue' \in {queue, Append(queue, r)} /\ UNCHANGED <<input, output>>
      BY <2>6 DEF StartWaits
    <3>2. queue' \in Seq(Requests)
      BY <1>0, <3>1, GrowsInSeq
    <3> QED BY <1>0, <1>6, <3>1, <3>2 DEF QueueTypes
  <2>7. CASE EngineCloses
    <3>1. Response(Close, TRUE) \in Replies /\ EndOfOutput \in Replies
      BY DEF Response, EndOfOutput, Replies, AllCalls
    <3>2. output' = output \o <<Response(Close, TRUE), EndOfOutput>> /\ UNCHANGED <<input, queue>>
      BY <2>7 DEF EngineCloses
    <3>3. <<Response(Close, TRUE), EndOfOutput>> \in Seq(Replies)
      BY <3>1, PairInSeq
    <3>4. output' \in Seq(Replies)
      BY <1>0, <3>2, <3>3, JoinsInSeq
    <3> QED BY <1>0, <1>6, <3>2, <3>4 DEF QueueTypes
  <2>8. CASE Grant
    BY <1>0, <1>6, <2>8 DEF Grant, QueueTypes
  <2>9. CASE Abort
    BY <1>0, <1>6, <2>9 DEF Abort, QueueTypes
  <2>10. CASE ReceiveClose
    BY <1>0, <1>6, <2>10 DEF ReceiveClose, QueueTypes, engineVars
  <2> QED BY <1>1, <1>3, <1>4, <1>5, <2>2, <2>3, <2>4, <2>5, <2>6, <2>7, <2>8, <2>9, <2>10
          DEF AnyStep
<1>7. CASE \/ (\E x \in AllCalls : Serve(x))
           \/ (\E r \in Requests : \/ Schedule(r) \/ TimesOut(r)
                                   \/ StartWaits(r) \/ StartExecutes(r)
                                   \/ \E ok \in BOOLEAN : Ends(r, ok))
           \/ EngineCloses \/ Grant \/ Abort \/ ReceiveClose \/ UNCHANGED vars
  <2>1. UNCHANGED <<waiting, woken>>
    BY <1>7 DEF Serve, Schedule, TimesOut, StartWaits, StartExecutes, Ends, EngineCloses, Grant,
       Abort, ReceiveClose, vars, clientVars
  <2> QED BY <1>6, <2>1
<1> QED BY <1>1, <1>3, <1>4, <1>5, <1>7 DEF AnyStep

-----------------------------------------------------------------------------
(***************************************************************************)
(* Each invariant is kept by every step.                                   *)
(***************************************************************************)
LEMMA GateInvStep ==
  ASSUME Types, GateInv, AnyStep
  PROVE  GateInv'
<1>0. /\ waiting \in Seq(AllCalls) /\ woken \in Seq(AllCalls)
      /\ pc \in [Requests -> {"idle", "gated", "sent", "refused"}]
  BY DEF Types, QueueTypes, ClientTypes
<1>1. ASSUME NEW x \in AllCalls, Enters(x)
      PROVE  GateInv'
  <2>0. Entry(x)
    BY <1>1 DEF Enters, EntryRefused, EntryGated, EntrySent, EntryDropped
  <2>1. /\ IsInjective(woken') /\ ToSet(woken') \subseteq ToSet(woken)
        /\ x \notin ToSet(waiting) /\ x \notin ToSet(woken')
    BY <2>0, EntryFacts
  <2>2. x = Close => x \notin Requests
    BY SessionAssumption
  <2>3. CASE EntryRefused(x)
    <3>1. /\ x \in Requests /\ pc' = [pc EXCEPT ![x] = "refused"] /\ waiting' = waiting
          /\ closer' = closer
      BY <2>3 DEF EntryRefused, Refuse, AllCalls
    <3> QED BY <1>0, <2>1, <3>1 DEF GateInv
  <2>4. CASE EntryGated(x)
    <3>1. /\ waiting' = Append(waiting, x)
          /\ x = Close => closer' = "gated" /\ pc' = pc
          /\ x # Close => x \in Requests /\ pc' = [pc EXCEPT ![x] = "gated"] /\ closer' = closer
      BY <2>4 DEF EntryGated, Gate, AllCalls
    <3>2. IsInjective(waiting') /\ ToSet(waiting') = ToSet(waiting) \cup {x}
      BY <1>0, <2>1, <3>1, AppendMembers DEF GateInv
    <3> QED BY <1>0, <2>1, <2>2, <3>1, <3>2 DEF GateInv
  <2>5. CASE EntrySent(x)
    <3>1. /\ waiting' = waiting
          /\ x = Close => pc' = pc
          /\ x # Close => x \in Requests /\ pc' = [pc EXCEPT ![x] = "sent"] /\ closer' = closer
      BY <2>5 DEF EntrySent, Send, AllCalls
    <3> QED BY <1>0, <2>1, <2>2, <3>1 DEF GateInv
  <2>6. CASE EntryDropped
    BY <2>1, <2>6 DEF EntryDropped, GateInv
  <2> QED BY <1>1, <2>3, <2>4, <2>5, <2>6 DEF Enters
<1>2. ASSUME NEW P, NEW n, Drain(P, n), UNCHANGED <<pc, closer>>
      PROVE  GateInv'
  <2>1. Drained(P, n)
    BY <1>2, DrainFacts
  <2> QED BY <1>2, <2>1 DEF Drained, GateInv
<1>3. ASSUME NEW r \in Requests, Receive(r)
      PROVE  GateInv'
  BY <1>2, <1>3 DEF Receive
<1>4. CASE GateOpens
  BY <1>2, <1>4 DEF GateOpens
<1>5. CASE ReceiveEnd \/ ReadFails
  <2>1. woken' = woken \o waiting /\ waiting' = <<>> /\ closer' = "done" /\ pc' = pc
    BY <1>5 DEF ReceiveEnd, ReadFails, Finish
  <2>2. ToSet(waiting') = {} /\ IsInjective(waiting')
    BY <2>1 DEF ToSet, IsInjective
  <2>3. ToSet(woken') = ToSet(woken) \cup ToSet(waiting) /\ IsInjective(woken')
    BY <1>0, <2>1, ConcatMembers DEF GateInv
  <2> QED BY <2>1, <2>2, <2>3 DEF GateInv
<1>6. CASE ReceiveClose
  BY <1>6 DEF ReceiveClose, GateInv
<1>7. CASE UNCHANGED <<waiting, woken, pc, closer>>
  BY <1>7 DEF GateInv
<1>8. ASSUME NEW r \in Requests, NEW ok \in BOOLEAN,
             \/ TimesOut(r) \/ Schedule(r) \/ StartWaits(r) \/ StartExecutes(r) \/ Ends(r, ok)
      PROVE  GateInv'
  BY <1>7, <1>8 DEF TimesOut, Schedule, StartWaits, StartExecutes, Ends, clientVars
<1>9. ASSUME NEW x \in AllCalls, Serve(x)
      PROVE  GateInv'
  BY <1>7, <1>9 DEF Serve, clientVars
<1>10. CASE EngineCloses \/ Grant \/ Abort \/ UNCHANGED vars
  BY <1>7, <1>10 DEF EngineCloses, Grant, Abort, vars, clientVars
<1> QED BY <1>1, <1>3, <1>4, <1>5, <1>6, <1>8, <1>9, <1>10 DEF AnyStep

\* How far a request is in the workload only grows, and starts at the head of the input.
RunGoesOn ==
  /\ \A r \in Requests : run[r] # "none" => run'[r] # "none"
  /\ \A r \in Requests : run[r] = "done" => run'[r] = "done"
  /\ \A r \in Requests : run[r] = "none" /\ run'[r] # "none" =>
       input # <<>> /\ r = Head(input) /\ input' = Tail(input)

\* The head of the input is not served yet, and all that is served was sent before it.
LEMMA HeadIsNew ==
  ASSUME Types, InputInv, input # <<>>, Head(input) # Close
  PROVE  /\ Head(input) \in Requests /\ pc[Head(input)] = "sent" /\ run[Head(input)] = "none"
         /\ \A q \in Requests : run[q] # "none" => requestId[q] < requestId[Head(input)]
<1>1. 1 \in 1..Len(input) /\ Head(input) = input[1] /\ Head(input) \in AllCalls
  BY DEF Types, QueueTypes
<1> QED BY <1>1 DEF InputInv, AllCalls

\* Every step makes the workload go on.
LEMMA RunSteps ==
  ASSUME Types, InputInv, WorkInv, AnyStep
  PROVE  RunGoesOn
<1>0. run \in [Requests -> {"none", "queued", "waiting", "executing", "done"}]
  BY DEF Types, WorkTypes
<1>1. CASE run' = run
  BY <1>1 DEF RunGoesOn
<1>2. ASSUME NEW x \in AllCalls, Enters(x)
      PROVE  RunGoesOn
  BY <1>1, <1>2 DEF Enters, EntryRefused, EntryGated, EntrySent, EntryDropped, elsewhere, workVars
<1>3. CASE (\E r \in Requests : Receive(r) \/ TimesOut(r)) \/ ReceiveEnd \/ ReadFails
           \/ ReceiveClose \/ GateOpens \/ EngineCloses \/ UNCHANGED vars
  BY <1>1, <1>3 DEF Receive, TimesOut, ReceiveEnd, ReadFails, ReceiveClose, GateOpens, Finish,
     EngineCloses, workVars, vars
<1>4. ASSUME NEW r \in Requests, NEW ok \in BOOLEAN,
             StartWaits(r) \/ StartExecutes(r) \/ Ends(r, ok)
      PROVE  RunGoesOn
  <2>1. /\ run[r] \in {"queued", "executing"}
        /\ \E how \in {"waiting", "executing", "done"} : run' = [run EXCEPT ![r] = how]
        /\ run[r] # "done"
    BY <1>4 DEF StartWaits, StartExecutes, SetRun, Ends, Runnable
  <2> QED BY <1>0, <2>1 DEF RunGoesOn
<1>5. ASSUME NEW x \in AllCalls, Schedule(x) \/ Serve(x)
      PROVE  RunGoesOn
  <2>1. /\ input # <<>> /\ x = Head(input) /\ input' = Tail(input)
        /\ run' \in {run, [run EXCEPT ![x] = "queued"]}
    BY <1>5 DEF Schedule, Serve
  <2>2. x # Close => run[x] = "none"
    BY <2>1, HeadIsNew
  <2>3. x = Close => run' = run
    BY <1>5 DEF Schedule, Serve
  <2>4. ASSUME x # Close, run' = [run EXCEPT ![x] = "queued"]
        PROVE  RunGoesOn
    <3>1. x \in Requests /\ run'[x] = "queued" /\ \A r \in Requests \ {x} : run'[r] = run[r]
      BY <1>0, <2>4 DEF AllCalls
    <3>2. run[x] = "none" /\ input # <<>> /\ x = Head(input) /\ input' = Tail(input)
      BY <2>1, <2>2, <2>4
    <3> QED BY <3>1, <3>2 DEF RunGoesOn
  <2> QED BY <1>1, <2>1, <2>3, <2>4
<1>6. CASE Grant
  <2>1. queue # <<>> /\ Head(queue) \in ToSet(queue)
    BY <1>6, TailMembers DEF Grant, Types, QueueTypes
  <2>2. run[Head(queue)] = "waiting"
    BY <2>1 DEF WorkInv
  <2>3. \A r \in Requests : run'[r] = run[r] \/ (run[r] = "waiting" /\ run'[r] = "executing")
    BY <1>0, <1>6, <2>2 DEF Grant, SetRun
  <2> QED BY <2>3 DEF RunGoesOn
<1>7. CASE Abort
  BY <1>0, <1>7 DEF Abort, RunGoesOn
<1> QED BY <1>2, <1>3, <1>4, <1>5, <1>6, <1>7 DEF AnyStep, AllCalls

\* What only an admission changes.
Stays == UNCHANGED <<pc, requestId>> /\ pending' \subseteq pending

\* Only an admission sends.
LEMMA ClientSteps ==
  ASSUME Types, AnyStep
  PROVE  (\E x \in AllCalls : Enters(x)) \/ Stays
<1>1. ASSUME NEW r \in Requests, Receive(r) \/ TimesOut(r)
      PROVE  Stays
  <2>1. UNCHANGED <<pc, requestId>>
    BY <1>1 DEF Receive, TimesOut
  <2>2. pending' = pending \ {r} \/ pending' = pending
    BY <1>1 DEF Receive, TimesOut, Drain
  <2> QED BY <2>1, <2>2 DEF Stays
<1>2. CASE GateOpens \/ ReceiveEnd \/ ReadFails
  <2>1. UNCHANGED <<pc, requestId>>
    BY <1>2 DEF GateOpens, ReceiveEnd, ReadFails, Finish
  <2>2. pending' = {}
    BY <1>2 DEF GateOpens, ReceiveEnd, ReadFails, Drain, Finish
  <2> QED BY <2>1, <2>2 DEF Stays
<1>3. CASE UNCHANGED clientVars \/ ReceiveClose
  BY <1>3 DEF clientVars, ReceiveClose, Stays
<1>4. ASSUME NEW r \in Requests, NEW ok \in BOOLEAN,
             \/ Schedule(r) \/ StartWaits(r) \/ StartExecutes(r) \/ Ends(r, ok)
      PROVE  Stays
  BY <1>4 DEF Schedule, StartWaits, StartExecutes, Ends, clientVars, Stays
<1>5. ASSUME NEW x \in AllCalls, Serve(x)
      PROVE  Stays
  BY <1>5 DEF Serve, clientVars, Stays
<1>6. CASE EngineCloses \/ Grant \/ Abort \/ UNCHANGED vars
  BY <1>3, <1>6 DEF EngineCloses, Grant, Abort, vars
<1> QED BY <1>1, <1>2, <1>3, <1>4, <1>5, <1>6 DEF AnyStep

\* The request that is sent gets the next number.
SentNow(x) ==
  /\ x \in Requests /\ pc' = [pc EXCEPT ![x] = "sent"] /\ pending' = pending \cup {x}
  /\ requestId' = [requestId EXCEPT ![x] = 1 + Cardinality({q \in Requests : requestId[q] > 0})]
  /\ input' = Append(input, x) /\ UNCHANGED <<run, closer>> /\ ~closing /\ pc[x] # "sent"
  /\ ~Blocked(x) \/ (~concurrent /\ woken # <<>>)

\* The other admissions leave the request as it was.
NotSentNow(x) ==
  /\ UNCHANGED <<requestId, pending, run>> /\ (x \in Requests => pc[x] # "sent")
  /\ pc' = pc \/ \E how \in {"gated", "refused"} : pc' = [pc EXCEPT ![x] = how]
  /\ \/ UNCHANGED <<input, closer>>
     \/ x = Close /\ closer \in {"none", "gated"} /\ closer' = "gated" /\ UNCHANGED input
     \/ /\ x = Close /\ closer \in {"none", "gated"} /\ closer' = "sent"
        /\ input' = Append(input, Close)

\* An admission sends now, or does not.
LEMMA EntrySteps ==
  ASSUME Types, GateInv, NEW x \in AllCalls, Enters(x)
  PROVE  SentNow(x) \/ NotSentNow(x)
<1>0. Entry(x)
  BY DEF Enters, EntryRefused, EntryGated, EntrySent, EntryDropped
<1>1. x \in Requests => pc[x] # "sent"
  BY <1>0, EntryFacts
<1>2. Close \notin Requests
  BY SessionAssumption
<1>3. UNCHANGED run
  BY DEF Enters, EntryRefused, EntryGated, EntrySent, EntryDropped, elsewhere, workVars
<1>4. CASE EntryRefused(x)
  BY <1>1, <1>2, <1>3, <1>4 DEF EntryRefused, Refuse, NotSentNow
<1>5. CASE EntryGated(x)
  BY <1>1, <1>2, <1>3, <1>5 DEF EntryGated, NotSentNow
<1>6. CASE EntrySent(x)
  BY <1>1, <1>2, <1>3, <1>6 DEF EntrySent, Send, SentNow, NotSentNow, AllCalls
<1>7. CASE x = Close /\ EntryDropped
  BY <1>1, <1>2, <1>3, <1>7 DEF EntryDropped, NotSentNow
<1> QED BY <1>4, <1>5, <1>6, <1>7 DEF Enters

\* The number of what is sent now is new, and the highest.
LEMMA NewNumber ==
  ASSUME Types, SentInv, NEW x \in Requests, SentNow(x)
  PROVE  /\ requestId[x] = 0 /\ requestId'[x] > 0 /\ requestId'[x] \in Nat
         /\ \A q \in Requests \ {x} : requestId'[q] = requestId[q]
         /\ \A q \in Requests \ {x} : requestId[q] < requestId'[x]
         /\ Cardinality({q \in Requests : requestId'[q] > 0}) = requestId'[x]
<1> DEFINE S == {q \in Requests : requestId[q] > 0}
<1>0. requestId \in [Requests -> Nat] /\ requestId[x] = 0
  BY DEF Types, ClientTypes, SentInv, SentNow
<1>1. IsFiniteSet(S) /\ Cardinality(S) \in Nat
  <2>1. IsFiniteSet(S)
    BY SessionAssumption, FS_Subset
  <2> QED BY <2>1, FS_CardinalityType
<1>2. \A q \in Requests : requestId[q] <= Cardinality(S)
  BY DEF SentInv
<1>3. requestId' = [requestId EXCEPT ![x] = 1 + Cardinality(S)]
  BY DEF SentNow
<1>4. {q \in Requests : requestId'[q] > 0} = S \cup {x} /\ x \notin S
  BY <1>0, <1>1, <1>3
<1>5. Cardinality(S \cup {x}) = Cardinality(S) + 1
  BY <1>1, <1>4, FS_AddElement
<1> HIDE DEF S
<1> QED BY <1>0, <1>1, <1>2, <1>3, <1>4, <1>5

\* The numbers of what is sent.
LEMMA SentInvStep ==
  ASSUME Types, GateInv, SentInv, InputInv, WorkInv, AnyStep
  PROVE  SentInv'
<1>0. /\ pc \in [Requests -> {"idle", "gated", "sent", "refused"}]
      /\ requestId \in [Requests -> Nat]
      /\ pending \subseteq Requests
  BY DEF Types, ClientTypes
<1>1. CASE Stays
  <2>1. RunGoesOn
    BY RunSteps
  <2>2. \A r \in Requests : pc[r] # "sent" => run'[r] = "none"
    BY <2>1, HeadIsNew, SessionAssumption DEF RunGoesOn, SentInv
  <2> QED BY <1>1, <2>2 DEF Stays, SentInv
<1>2. ASSUME NEW x \in AllCalls, NotSentNow(x)
      PROVE  SentInv'
  BY <1>0, <1>2 DEF NotSentNow, SentInv
<1>3. ASSUME NEW x \in Requests, SentNow(x)
      PROVE  SentInv'
  <2>1. /\ pc'[x] = "sent" /\ run' = run /\ pending' = pending \cup {x}
        /\ \A q \in Requests \ {x} : pc'[q] = pc[q]
    BY <1>0, <1>3 DEF SentNow
  <2>2. /\ requestId'[x] > 0 /\ requestId'[x] \in Nat
        /\ \A q \in Requests \ {x} : requestId'[q] = requestId[q]
        /\ \A q \in Requests \ {x} : requestId[q] < requestId'[x]
        /\ Cardinality({q \in Requests : requestId'[q] > 0}) = requestId'[x]
    BY <1>3, NewNumber
  <2>3. \A r \in Requests : requestId'[r] <= Cardinality({q \in Requests : requestId'[q] > 0})
    BY <1>0, <2>2
  <2>4. \A r, q \in Requests : requestId'[r] > 0 /\ requestId'[r] = requestId'[q] => r = q
    BY <1>0, <2>2 DEF SentInv
  <2>5. /\ \A r \in Requests : requestId'[r] > 0 => pc'[r] = "sent"
        /\ \A r \in Requests : pc'[r] = "sent" => requestId'[r] > 0
    BY <2>1, <2>2 DEF SentInv
  <2>6. \A r \in Requests : pc'[r] # "sent" => run'[r] = "none" /\ r \notin pending'
    BY <2>1 DEF SentInv
  <2> QED BY <2>3, <2>4, <2>5, <2>6 DEF SentInv
<1>4. ASSUME NEW x \in AllCalls, Enters(x)
      PROVE  SentInv'
  BY <1>2, <1>3, <1>4, EntrySteps DEF SentNow
<1> QED BY <1>1, <1>4, ClientSteps

\* What leaves the input alone lets no request begin.
LEMMA NoneBegins ==
  ASSUME Types, RunGoesOn, input' = input, NEW r \in Requests
  PROVE  run[r] = "none" => run'[r] = "none"
<1> SUFFICES ASSUME input # <<>>, input' = Tail(input) PROVE FALSE
  BY DEF RunGoesOn
<1> QED BY TailAt DEF Types, QueueTypes

\* The order of the input.
LEMMA InputInvStep ==
  ASSUME Types, GateInv, SentInv, InputInv, WorkInv, AnyStep
  PROVE  InputInv'
<1> USE SessionAssumption
<1>0. /\ pc \in [Requests -> {"idle", "gated", "sent", "refused"}]
      /\ requestId \in [Requests -> Nat]
      /\ run \in [Requests -> {"none", "queued", "waiting", "executing", "done"}]
      /\ input \in Seq(AllCalls)
  BY DEF Types, ClientTypes, WorkTypes, QueueTypes
<1>a. Len(input) \in Nat /\ \A i \in 1..Len(input) : input[i] # Close => input[i] \in Requests
  BY <1>0 DEF AllCalls
<1>1. RunGoesOn
  BY RunSteps
<1>2. ASSUME input' = <<>>, closer' = "done"
      PROVE  InputInv'
  BY <1>2 DEF InputInv
<1>3. ASSUME UNCHANGED <<input, pc, requestId>>, closer # "done" => closer' # "done",
             closer \in {"sent", "reading"} => closer' \in {"sent", "reading"},
             closer' \in {"none", "gated"} => closer \in {"none", "gated"},
             closer = "done" => closer' = "done",
             serving' = Close \/ loop' = "closed" => serving = Close \/ loop = "closed"
      PROVE  InputInv'
  <2>1. \A r \in Requests : run[r] = "none" <=> run'[r] = "none"
    BY <1>1, <1>3, NoneBegins DEF RunGoesOn
  <2> QED BY <1>a, <1>3, <2>1 DEF InputInv
<1>4. ASSUME NEW x \in Requests, SentNow(x), UNCHANGED <<serving, loop>>
      PROVE  InputInv'
  <2>1. /\ closer = "none" /\ closer' = "none" /\ run' = run /\ pc[x] # "sent" /\ pc'[x] = "sent"
        /\ \A q \in Requests \ {x} : pc'[q] = pc[q]
    BY <1>0, <1>4 DEF SentNow, closing
  <2>2. /\ \A q \in Requests \ {x} : requestId'[q] = requestId[q]
        /\ \A q \in Requests \ {x} : requestId[q] < requestId'[x]
    BY <1>4, NewNumber
  <2>3. /\ Len(input') = Len(input) + 1 /\ input'[Len(input)+1] = x
        /\ \A i \in 1..Len(input) : input'[i] = input[i]
    BY <1>0, <1>4, AppendAt DEF SentNow, AllCalls
  <2>4. \A i \in 1..Len(input) : /\ input[i] \in Requests \ {x} /\ pc'[input[i]] = "sent"
                                 /\ run'[input[i]] = "none"
    BY <1>a, <2>1 DEF InputInv
  <2>5. x # Close /\ run'[x] = "none"
    BY <2>1 DEF SentInv
  <2>6. \A i \in 1..Len(input') : i \in 1..Len(input) \/ i = Len(input) + 1
    BY <1>a, <2>3
  <2>7. \A i \in 1..Len(input') : /\ input'[i] \in Requests /\ input'[i] # Close
                                  /\ pc'[input'[i]] = "sent" /\ run'[input'[i]] = "none"
    BY <2>1, <2>3, <2>4, <2>5, <2>6
  <2>8. ASSUME NEW i \in 1..Len(input'), NEW j \in 1..Len(input'), i < j
        PROVE  requestId'[input'[i]] < requestId'[input'[j]]
    <3>1. i \in 1..Len(input)
      BY <1>a, <2>3, <2>8
    <3>2. CASE j \in 1..Len(input)
      <4>1. requestId[input[i]] < requestId[input[j]]
        BY <2>4, <2>8, <3>1, <3>2 DEF InputInv
      <4> QED BY <2>2, <2>3, <2>4, <3>1, <3>2, <4>1
    <3>3. CASE j = Len(input) + 1
      BY <2>2, <2>3, <2>4, <3>1, <3>3
    <3> QED BY <2>6, <3>2, <3>3
  <2>9. ASSUME NEW i \in 1..Len(input'), NEW q \in Requests, run'[q] # "none"
        PROVE  requestId'[q] < requestId'[input'[i]]
    <3>1. q # x /\ run[q] # "none"
      BY <2>1, <2>5, <2>9
    <3>2. CASE i \in 1..Len(input)
      <4>1. requestId[q] < requestId[input[i]]
        BY <2>4, <3>1, <3>2 DEF InputInv
      <4> QED BY <2>2, <2>3, <2>4, <3>1, <3>2, <4>1
    <3>3. CASE i = Len(input) + 1
      BY <2>2, <2>3, <3>1, <3>3
    <3> QED BY <2>6, <3>2, <3>3
  <2>10. ASSUME NEW q \in Requests, pc'[q] = "sent", run'[q] = "none"
         PROVE  \E i \in 1..Len(input') : input'[i] = q
    <3>1. CASE q = x
      BY <1>a, <2>3, <3>1
    <3>2. CASE q # x
      <4>1. PICK i \in 1..Len(input) : input[i] = q
        BY <2>1, <2>10, <3>2 DEF InputInv
      <4>2. i \in 1..Len(input')
        BY <1>a, <2>3
      <4> QED BY <2>3, <4>1, <4>2
    <3> QED BY <3>1, <3>2
  <2>11. ~(serving' = Close \/ loop' = "closed")
    BY <1>4, <2>1 DEF InputInv
  <2> QED BY <2>1, <2>7, <2>8, <2>9, <2>10, <2>11 DEF InputInv
<1>5. ASSUME NEW x \in AllCalls, NotSentNow(x), UNCHANGED <<serving, loop>>
      PROVE  InputInv'
  <2>1. /\ UNCHANGED <<requestId, run>>
        /\ \A q \in Requests : pc[q] = "sent" <=> pc'[q] = "sent"
    BY <1>0, <1>5 DEF NotSentNow
  <2>2. CASE UNCHANGED <<input, closer>>
    BY <1>a, <1>5, <2>1, <2>2 DEF InputInv
  <2>3. CASE closer \in {"none", "gated"} /\ closer' = "gated" /\ UNCHANGED input
    BY <1>a, <1>5, <2>1, <2>3 DEF InputInv
  <2>4. CASE closer \in {"none", "gated"} /\ closer' = "sent" /\ input' = Append(input, Close)
    <3>1. /\ Len(input') = Len(input) + 1 /\ input'[Len(input)+1] = Close
          /\ \A i \in 1..Len(input) : input'[i] = input[i]
      BY <1>0, <2>4, AppendAt DEF AllCalls
    <3>2. \A i \in 1..Len(input') : i \in 1..Len(input) \/ i = Len(input) + 1
      BY <1>a, <3>1
    <3>3. \A i \in 1..Len(input) : input[i] \in Requests /\ input[i] # Close
      BY <1>a, <2>4 DEF InputInv
    <3>4. \A i \in 1..Len(input') : input'[i] # Close => i \in 1..Len(input)
      BY <3>1, <3>2
    <3>5. \A i, j \in 1..Len(input') : i < j => i \in 1..Len(input)
      BY <1>a, <3>1
    <3>6. \A i \in 1..Len(input') : input'[i] # Close =>
            pc'[input'[i]] = "sent" /\ run'[input'[i]] = "none"
      BY <2>1, <3>1, <3>3, <3>4 DEF InputInv
    <3>7. \A i, j \in 1..Len(input') : i < j =>
            input'[i] # Close
              /\ (input'[j] # Close => requestId'[input'[i]] < requestId'[input'[j]])
      BY <2>1, <3>1, <3>3, <3>4, <3>5 DEF InputInv
    <3>8. \A i \in 1..Len(input'), q \in Requests : input'[i] # Close /\ run'[q] # "none" =>
            requestId'[q] < requestId'[input'[i]]
      BY <2>1, <3>1, <3>3, <3>4 DEF InputInv
    <3>9. ASSUME NEW q \in Requests, pc'[q] = "sent", run'[q] = "none"
          PROVE  \E i \in 1..Len(input') : input'[i] = q
      <4>1. PICK i \in 1..Len(input) : input[i] = q
        BY <2>1, <2>4, <3>9 DEF InputInv
      <4>2. i \in 1..Len(input')
        BY <1>a, <3>1
      <4> QED BY <3>1, <4>1, <4>2
    <3>10. ~(serving' = Close \/ loop' = "closed")
      BY <1>5, <2>4 DEF InputInv
    <3> QED BY <2>4, <3>6, <3>7, <3>8, <3>9, <3>10 DEF InputInv
  <2> QED BY <1>5, <2>2, <2>3, <2>4 DEF NotSentNow
<1>6. ASSUME NEW x \in AllCalls, x = Head(input), input # <<>>, input' = Tail(input),
             x # Close => run' = [run EXCEPT ![x] = "queued"], x = Close => run' = run,
             UNCHANGED <<pc, requestId, closer>>, loop' # "closed", serving' = Close => x = Close
      PROVE  InputInv'
  <2>1. /\ Len(input') = Len(input) - 1 /\ input[1] = x /\ Len(input) >= 1
        /\ \A i \in 1..Len(input') : input'[i] = input[i+1]
    BY <1>0, <1>6, TailAt
  <2>2. \A i \in 1..Len(input') : i+1 \in 1..Len(input) /\ 1 < i+1
    BY <1>a, <2>1
  <2>3. 1 \in 1..Len(input)
    BY <1>a, <2>1
  <2>4. CASE x = Close
    <3>1. Len(input) = 1
      <4> SUFFICES ASSUME Len(input) # 1 PROVE FALSE
        OBVIOUS
      <4>1. 2 \in 1..Len(input) /\ 1 < 2
        BY <1>a, <2>1
      <4> QED BY <2>1, <2>3, <2>4, <4>1 DEF InputInv
    <3>2. Len(input') = 0 /\ input' \in Seq(AllCalls)
      BY <1>0, <1>6, <2>1, <3>1
    <3>3. input' = <<>> /\ 1..Len(input') = {}
      BY <3>2
    <3>4. closer \in {"sent", "reading"}
      BY <2>1, <2>3, <2>4 DEF InputInv
    <3>5. ASSUME NEW q \in Requests, pc[q] = "sent", run[q] = "none" PROVE FALSE
      <4>1. PICK i \in 1..Len(input) : input[i] = q
        BY <3>4, <3>5 DEF InputInv
      <4>2. i = 1
        BY <3>1, <4>1
      <4> QED BY <2>1, <2>4, <4>1, <4>2
    <3> QED BY <1>6, <2>4, <3>3, <3>4, <3>5 DEF InputInv
  <2>5. CASE x # Close
    <3>1. /\ x \in Requests /\ run'[x] = "queued" /\ run[x] = "none"
          /\ \A q \in Requests \ {x} : run'[q] = run[q]
          /\ \A q \in Requests : run[q] # "none" => requestId[q] < requestId[x]
      BY <1>0, <1>6, <2>5, HeadIsNew DEF AllCalls
    <3>2. \A i \in 1..Len(input') : input'[i] # Close =>
            input'[i] \in Requests /\ requestId[x] < requestId[input'[i]]
      <4> SUFFICES ASSUME NEW i \in 1..Len(input'), input'[i] # Close
                   PROVE  input'[i] \in Requests /\ requestId[x] < requestId[input'[i]]
        OBVIOUS
      <4>1. input'[i] = input[i+1] /\ i+1 \in 1..Len(input) /\ 1 < i+1
        BY <2>1, <2>2
      <4>2. input[i+1] \in Requests
        BY <1>a, <4>1
      <4> QED BY <2>1, <2>3, <2>5, <4>1, <4>2 DEF InputInv
    <3>3. \A i \in 1..Len(input') : input'[i] # Close => input'[i] # x
      BY <1>0, <3>1, <3>2
    <3>4. \A i \in 1..Len(input') : input'[i] # Close =>
            pc'[input'[i]] = "sent" /\ run'[input'[i]] = "none"
      BY <1>6, <2>1, <2>2, <3>1, <3>2, <3>3 DEF InputInv
    <3>5. ASSUME NEW i \in 1..Len(input'), NEW j \in 1..Len(input'), i < j
          PROVE  input'[i] # Close
                   /\ (input'[j] # Close => requestId'[input'[i]] < requestId'[input'[j]])
      <4>1. i+1 \in 1..Len(input) /\ j+1 \in 1..Len(input) /\ i+1 < j+1
        BY <2>2, <3>5
      <4>2. input'[i] = input[i+1] /\ input'[j] = input[j+1]
        BY <2>1
      <4> QED BY <1>6, <4>1, <4>2 DEF InputInv
    <3>6. ASSUME NEW i \in 1..Len(input'), NEW q \in Requests, input'[i] # Close, run'[q] # "none"
          PROVE  requestId'[q] < requestId'[input'[i]]
      <4>1. requestId[x] < requestId[input'[i]] /\ input'[i] \in Requests
        BY <3>2, <3>6
      <4>2. q = x \/ requestId[q] < requestId[x]
        BY <3>1, <3>6
      <4> QED BY <1>0, <1>6, <3>1, <4>1, <4>2
    <3>7. ASSUME NEW q \in Requests, pc'[q] = "sent", run'[q] = "none", closer' # "done"
          PROVE  \E i \in 1..Len(input') : input'[i] = q
      <4>1. q # x /\ run[q] = "none"
        BY <3>1, <3>7
      <4>2. PICK i \in 1..Len(input) : input[i] = q
        BY <1>6, <3>7, <4>1 DEF InputInv
      <4>3. i # 1
        BY <2>1, <4>1, <4>2
      <4>4. i-1 \in 1..Len(input') /\ (i-1)+1 = i
        BY <1>a, <2>1, <4>3
      <4>5. input'[i-1] = q
        BY <2>1, <4>2, <4>4
      <4> QED BY <4>4, <4>5
    <3>8. \A i \in 1..Len(input') : input'[i] = Close => closer' \in {"sent", "reading"}
      BY <1>6, <2>1, <2>2 DEF InputInv
    <3>9. closer' # "done"
      BY <1>6 DEF InputInv
    <3> QED BY <1>6, <2>5, <3>4, <3>5, <3>6, <3>7, <3>8, <3>9 DEF InputInv
  <2> QED BY <2>4, <2>5
<1>7. ASSUME NEW x \in AllCalls, Enters(x)
      PROVE  InputInv'
  <2>1. UNCHANGED <<serving, loop>>
    BY <1>7 DEF Enters, EntryRefused, EntryGated, EntrySent, EntryDropped, elsewhere, workVars
  <2> QED BY <1>4, <1>5, <1>7, <2>1, EntrySteps DEF SentNow
<1>8. ASSUME NEW r \in Requests, Schedule(r)
      PROVE  InputInv'
  <2>1. serving = None /\ loop = "reading"
    BY <1>8 DEF Schedule, WorkInv
  <2>2. /\ r = Head(input) /\ input # <<>> /\ input' = Tail(input) /\ r # Close
        /\ run' = [run EXCEPT ![r] = "queued"] /\ UNCHANGED <<pc, requestId, closer, loop, serving>>
    BY <1>8 DEF Schedule, clientVars
  <2> QED BY <1>6, <2>1, <2>2 DEF AllCalls
<1>9. ASSUME NEW x \in AllCalls, Serve(x)
      PROVE  InputInv'
  <2>1. /\ x = Head(input) /\ input # <<>> /\ input' = Tail(input)
        /\ x # Close => run' = [run EXCEPT ![x] = "queued"]
        /\ x = Close => run' = run
        /\ UNCHANGED <<pc, requestId, closer>> /\ loop' = "serving" /\ serving' = x
    BY <1>9 DEF Serve, clientVars
  <2> QED BY <1>6, <2>1
<1>10. CASE ReceiveEnd \/ ReadFails
  BY <1>2, <1>10 DEF ReceiveEnd, ReadFails, Finish
<1>11. CASE \/ \E r \in Requests : TimesOut(r) \/ Receive(r) \/ StartWaits(r) \/ StartExecutes(r)
            \/ GateOpens \/ ReceiveClose \/ Grant \/ UNCHANGED vars
  <2>1. UNCHANGED <<input, pc, requestId, serving, loop>>
    BY <1>11 DEF TimesOut, Receive, StartWaits, StartExecutes, GateOpens, ReceiveClose,
       Grant, vars, clientVars, workVars
  <2>2. closer' = closer \/ (closer = "sent" /\ closer' = "reading")
    BY <1>11 DEF TimesOut, Receive, StartWaits, StartExecutes, GateOpens, ReceiveClose,
       Grant, vars, clientVars
  <2> QED BY <1>3, <2>1, <2>2
<1>12. ASSUME NEW r \in Requests, NEW ok \in BOOLEAN, Ends(r, ok)
       PROVE  InputInv'
  <2>1. /\ UNCHANGED <<input, pc, requestId, closer>> /\ loop' \in {loop, "reading"}
        /\ serving' \in {serving, None}
    BY <1>12 DEF Ends, Respond, clientVars
  <2> QED BY <1>3, <2>1
<1>13. CASE EngineCloses \/ Abort
  <2>1. /\ UNCHANGED <<input, pc, requestId, closer>> /\ serving' = None
        /\ loop' = "aborted" \/ serving = Close
    BY <1>13 DEF EngineCloses, Abort, clientVars
  <2> QED BY <1>3, <2>1
<1> QED BY <1>7, <1>8, <1>9, <1>10, <1>11, <1>12, <1>13 DEF AnyStep

\* What a request asks for does not change.
LEMMA SameCalls ==
  ASSUME AnyStep, NEW r
  PROVE  Op(r)' = Op(r) /\ Sub(r)' = Sub(r) /\ Lane(r)' = Lane(r)
BY SessionFixed DEF Fixed, Op, Sub, Lane

\* What only the client does leaves the workload and the engine alone.
WorkStays == UNCHANGED <<workVars, engineVars, lost>>

ClientOnly ==
  \/ \E x \in AllCalls : Enters(x)
  \/ \E r \in Requests : TimesOut(r) \/ Receive(r)
  \/ GateOpens \/ ReceiveClose \/ ReceiveEnd \/ ReadFails \/ UNCHANGED vars

\* A step of the client alone.
LEMMA ClientOnlySteps ==
  ASSUME ClientOnly
  PROVE  WorkStays
<1>1. ASSUME NEW x \in AllCalls, Enters(x)
      PROVE  WorkStays
  BY <1>1 DEF Enters, EntryRefused, EntryGated, EntrySent, EntryDropped, elsewhere, WorkStays
<1>2. CASE \/ \E r \in Requests : TimesOut(r) \/ Receive(r)
           \/ GateOpens \/ ReceiveClose \/ ReceiveEnd \/ ReadFails \/ UNCHANGED vars
  BY <1>2 DEF TimesOut, Receive, GateOpens, ReceiveClose, ReceiveEnd, ReadFails, Finish, vars,
     WorkStays
<1> QED BY <1>1, <1>2 DEF ClientOnly

WorkOnly ==
  \/ \E x \in AllCalls : Serve(x)
  \/ \E r \in Requests : \/ Schedule(r) \/ StartWaits(r) \/ StartExecutes(r)
                         \/ \E ok \in BOOLEAN : Ends(r, ok)
  \/ EngineCloses \/ Grant \/ Abort

\* Every step is of the client or of the workload.
LEMMA TwoSides ==
  AnyStep => ClientOnly \/ WorkOnly
BY DEF AnyStep, ClientOnly, WorkOnly

\* The work in flight and the queue for clients.
LEMMA WorkInvStep ==
  ASSUME Types, InputInv, WorkInv, AnyStep
  PROVE  WorkInv'
<1> USE SessionAssumption
<1>0. /\ run \in [Requests -> {"none", "queued", "waiting", "executing", "done"}]
      /\ queue \in Seq(Requests) /\ serving \in AllCalls \cup {None}
      /\ loop \in {"reading", "serving", "closed", "aborted"}
  BY DEF Types, WorkTypes, QueueTypes
<1>a. /\ concurrent' = concurrent /\ \A r \in Requests : Op(r)' = Op(r)
  BY SessionFixed, SameCalls DEF Fixed
<1>b. ToSet(queue) \subseteq Requests
  BY <1>0 DEF ToSet
<1>1. CASE WorkStays
  BY <1>1, <1>a, <1>b DEF WorkStays, workVars, engineVars, WorkInv, InFlight
<1>2. ASSUME NEW r \in Requests, Schedule(r)
      PROVE  WorkInv'
  <2>1. /\ concurrent /\ loop = "reading" /\ UNCHANGED <<loop, serving, queue, lost>>
        /\ run' = [run EXCEPT ![r] = "queued"] /\ run[r] = "none"
    BY <1>2, HeadIsNew DEF Schedule, engineVars
  <2>2. \A q \in Requests : run[q] = "waiting" <=> run'[q] = "waiting"
    BY <1>0, <2>1
  <2> QED BY <1>a, <1>b, <2>1, <2>2 DEF WorkInv
<1>3. ASSUME NEW x \in AllCalls, Serve(x)
      PROVE  WorkInv'
  <2>1. /\ loop = "reading" /\ loop' = "serving" /\ serving' = x /\ UNCHANGED <<queue, lost>>
        /\ (x = Close /\ run' = run)
             \/ (x \in Requests /\ run' = [run EXCEPT ![x] = "queued"] /\ run[x] = "none")
    BY <1>3, HeadIsNew DEF Serve, engineVars, AllCalls
  <2>2. \A q \in Requests : run[q] = "waiting" <=> run'[q] = "waiting"
    BY <1>0, <2>1
  <2>3. ~concurrent => InFlight = {}
    BY <2>1 DEF WorkInv, InFlight
  <2>4. InFlight' \subseteq InFlight \cup {x}
    BY <1>0, <2>1 DEF InFlight
  <2> QED BY <1>a, <1>b, <2>1, <2>2, <2>3, <2>4 DEF WorkInv
<1>4. ASSUME NEW r \in Requests, NEW ok \in BOOLEAN, Ends(r, ok)
      PROVE  WorkInv'
  <2>1. /\ run[r] \in {"queued", "executing"} /\ run' = [run EXCEPT ![r] = "done"]
        /\ UNCHANGED <<queue, lost>>
        /\ IF serving = r THEN loop' = "reading" /\ serving' = None
                          ELSE UNCHANGED <<loop, serving>>
    BY <1>4 DEF Ends, Respond
  <2>2. \A q \in Requests : run[q] = "waiting" <=> run'[q] = "waiting"
    BY <1>0, <2>1
  <2>3. InFlight' = InFlight \ {r} /\ r \in InFlight
    BY <1>0, <2>1 DEF InFlight
  <2> QED BY <1>a, <1>b, <2>1, <2>2, <2>3 DEF WorkInv
<1>5. ASSUME NEW r \in Requests, StartWaits(r)
      PROVE  WorkInv'
  <2>1. /\ run[r] = "queued" /\ run' = [run EXCEPT ![r] = "waiting"] /\ NeedsClient(r)
        /\ queue' = IF Joins(r) THEN Append(queue, r) ELSE queue
        /\ UNCHANGED <<loop, serving, lost>>
    BY <1>5 DEF StartWaits, SetRun, Runnable
  <2>2. InFlight' = InFlight
    BY <1>0, <2>1 DEF InFlight
  <2>3. concurrent /\ Op(r) \in OnPool \cup {"listen"}
    BY <2>1 DEF NeedsClient
  <2>4. r \notin ToSet(queue)
    BY <2>1 DEF WorkInv
  <2>5. /\ IsInjective(queue') /\ ToSet(queue') \subseteq ToSet(queue) \cup {r}
        /\ Joins(r) \/ ToSet(queue') \subseteq ToSet(queue)
    BY <1>0, <2>1, <2>4, AppendMembers DEF WorkInv
  <2>6. \A q \in ToSet(queue') : run'[q] = "waiting"
    BY <1>0, <1>b, <2>1, <2>5 DEF WorkInv
  <2>7. \A p, q \in ToSet(queue') : Op(p) = "listen" /\ Op(q) = "listen" => p = q
    BY <2>5 DEF Joins, WorkInv
  <2>8. \A q \in Requests : run'[q] = "waiting" => Op(q) \in OnPool \cup {"listen"}
    BY <1>0, <2>1, <2>3 DEF WorkInv
  <2>9. ToSet(queue') \subseteq Requests
    BY <1>b, <2>5
  <2> QED BY <1>a, <2>1, <2>2, <2>3, <2>5, <2>6, <2>7, <2>8, <2>9 DEF WorkInv, OnPool
<1>6. ASSUME NEW r \in Requests, StartExecutes(r)
      PROVE  WorkInv'
  <2>1. /\ run[r] = "queued" /\ run' = [run EXCEPT ![r] = "executing"]
        /\ UNCHANGED <<loop, serving, queue, lost>>
    BY <1>6 DEF StartExecutes, SetRun, Runnable
  <2>2. \A q \in Requests : run[q] = "waiting" <=> run'[q] = "waiting"
    BY <1>0, <2>1
  <2>3. InFlight' = InFlight
    BY <1>0, <2>1 DEF InFlight
  <2> QED BY <1>a, <1>b, <2>1, <2>2, <2>3 DEF WorkInv
<1>7. CASE EngineCloses
  <2>1. /\ UNCHANGED <<run, queue, lost>> /\ loop' = "closed" /\ serving' = None /\ InFlight = {}
    BY <1>7 DEF EngineCloses
  <2>2. InFlight' = {}
    BY <2>1 DEF InFlight
  <2> QED BY <1>a, <1>b, <2>1, <2>2 DEF WorkInv
<1>8. CASE Grant
  <2>1. /\ queue # <<>> /\ queue' = Tail(queue) /\ UNCHANGED <<loop, serving, lost>>
    BY <1>8 DEF Grant
  <2>2. /\ Head(queue) \in Requests /\ Head(queue) \in ToSet(queue) /\ IsInjective(queue')
        /\ ToSet(queue') \subseteq ToSet(queue) \ {Head(queue)}
    BY <1>0, <2>1, TailMembers DEF WorkInv
  <2>3. run[Head(queue)] = "waiting"
    BY <2>2 DEF WorkInv
  <2>4. \/ /\ Op(Head(queue)) = "listen"
           /\ run' = [r \in Requests |-> IF run[r] = "waiting" /\ Op(r) = "listen"
                                         THEN "executing" ELSE run[r]]
        \/ run' = [run EXCEPT ![Head(queue)] = "executing"]
    BY <1>8 DEF Grant, SetRun
  <2>5. \A q \in Requests : run'[q] = run[q] \/ (run[q] = "waiting" /\ run'[q] = "executing")
    BY <1>0, <2>2, <2>3, <2>4
  <2>6. InFlight' = InFlight
    BY <2>5 DEF InFlight
  <2>7. \A q \in ToSet(queue') : run'[q] = "waiting"
    BY <1>0, <1>b, <2>2, <2>4 DEF WorkInv
  <2>8. \A q \in Requests : run'[q] = "waiting" => concurrent /\ Op(q) \in OnPool \cup {"listen"}
    BY <2>5 DEF WorkInv
  <2>9. ToSet(queue') \subseteq ToSet(queue) /\ ToSet(queue') \subseteq Requests
    BY <1>b, <2>2
  <2> QED BY <1>a, <2>1, <2>2, <2>6, <2>7, <2>8, <2>9 DEF WorkInv, OnPool
<1>9. CASE Abort
  <2>1. /\ queue' = <<>> /\ serving' = None /\ loop' = "aborted" /\ lost'
        /\ \A q \in Requests : run'[q] # "waiting"
    BY <1>0, <1>9 DEF Abort
  <2>2. ToSet(queue') = {} /\ IsInjective(queue')
    BY <2>1 DEF ToSet, IsInjective
  <2> QED BY <2>1, <2>2 DEF WorkInv
<1> QED BY <1>1, <1>2, <1>3, <1>4, <1>5, <1>6, <1>7, <1>8, <1>9, ClientOnlySteps, TwoSides
        DEF WorkOnly

\* The output answers what is pending.
LEMMA OutputInvStep ==
  ASSUME Types, GateInv, SentInv, InputInv, WorkInv, OutputInv, AnyStep
  PROVE  OutputInv'
<1> USE SessionAssumption
<1>0. /\ run \in [Requests -> {"none", "queued", "waiting", "executing", "done"}]
      /\ pc \in [Requests -> {"idle", "gated", "sent", "refused"}]
      /\ output \in Seq(Replies) /\ pending \subseteq Requests
  BY DEF Types, ClientTypes, WorkTypes, QueueTypes
<1>1. RunGoesOn
  BY RunSteps
<1>2. Len(output) \in Nat
  BY <1>0
<1>3. ASSUME NEW x \in AllCalls, Enters(x)
      PROVE  OutputInv'
  <2>1. UNCHANGED <<output, ran, lost, loop>>
    BY <1>3 DEF Enters, EntryRefused, EntryGated, EntrySent, EntryDropped, elsewhere, workVars,
       engineVars
  <2>2. CASE SentNow(x)
    <3>1. /\ run' = run /\ pending' = pending \cup {x} /\ pc[x] # "sent" /\ closer' = closer
          /\ \A q \in Requests \ {x} : pc'[q] = pc[q]
      BY <1>0, <2>2 DEF SentNow
    <3>2. run[x] = "none"
      BY <2>2, <3>1 DEF SentNow, SentInv
    <3> QED BY <2>1, <3>1, <3>2 DEF OutputInv
  <2>3. CASE NotSentNow(x)
    <3>1. /\ UNCHANGED <<run, pending>> /\ \A q \in Requests : pc[q] = "sent" <=> pc'[q] = "sent"
      BY <1>0, <2>3 DEF NotSentNow
    <3>2. closer' = "done" <=> closer = "done"
      BY <2>3 DEF NotSentNow
    <3> QED BY <2>1, <3>1, <3>2 DEF OutputInv
  <2> QED BY <1>3, <2>2, <2>3, EntrySteps
<1>4. ASSUME output # <<>>, output' = Tail(output), UNCHANGED <<run, ran, lost, loop, pc>>,
             pending' = pending \ {Head(output).id}, closer # "done", closer' # "done"
      PROVE  OutputInv'
  <2> DEFINE id == Head(output).id
  <2>1. /\ Len(output') = Len(output) - 1 /\ output[1].id = id /\ Len(output) >= 1
        /\ \A i \in 1..Len(output') : output'[i] = output[i+1]
    BY <1>0, <1>4, TailAt
  <2> HIDE DEF id
  <2>2. \A i \in 1..Len(output') : i+1 \in 1..Len(output) /\ i+1 # 1
    BY <1>2, <2>1
  <2>3. 1 \in 1..Len(output)
    BY <1>2, <2>1
  <2>4. \A i \in 1..Len(output') : output'[i].id # id
    BY <2>1, <2>2, <2>3 DEF OutputInv
  <2>5. \A i \in 1..Len(output') : output'[i].id \in Requests =>
          /\ run'[output'[i].id] = "done" /\ output'[i].id \in pending'
          /\ output'[i].ok => output'[i].id \in ran'
    BY <1>4, <2>1, <2>2, <2>4 DEF OutputInv, id
  <2>6. ASSUME NEW i \in 1..Len(output'), NEW j \in 1..Len(output'), output'[i].id = output'[j].id
        PROVE  i = j
    <3>1. i+1 = j+1
      BY <2>1, <2>2, <2>6 DEF OutputInv
    <3> QED BY <1>2, <2>1, <3>1
  <2>7. \A i \in 1..Len(output') : output'[i].id \notin Requests => loop' = "closed"
    BY <1>4, <2>1, <2>2 DEF OutputInv
  <2>8. id \in Requests => run[id] = "done"
    BY <2>1, <2>3 DEF OutputInv
  <2>9. \A q \in Requests : pc'[q] = "sent" /\ q \notin pending' => run'[q] = "done"
    BY <1>4, <2>8 DEF OutputInv, id
  <2>10. ASSUME ~lost', NEW q \in pending', run'[q] = "done"
         PROVE  \E i \in 1..Len(output') : output'[i].id = q
    <3>1. PICK i \in 1..Len(output) : output[i].id = q
      BY <1>4, <2>10 DEF OutputInv
    <3>2. q # id
      BY <1>4, <2>10 DEF id
    <3>3. i-1 \in 1..Len(output') /\ (i-1)+1 = i
      BY <1>2, <2>1, <3>1, <3>2
    <3> QED BY <2>1, <3>1, <3>3
  <2> QED BY <1>4, <2>5, <2>6, <2>7, <2>9, <2>10 DEF OutputInv
<1>5. ASSUME NEW r \in Requests, Receive(r)
      PROVE  OutputInv'
  BY <1>4, <1>5 DEF Receive, Drain, workVars, engineVars
<1>6. CASE ReceiveClose
  <2>1. Head(output).id \notin pending
    BY <1>0, <1>6 DEF ReceiveClose
  <2>2. pending' = pending \ {Head(output).id}
    BY <1>6, <2>1 DEF ReceiveClose
  <2> QED BY <1>4, <1>6, <2>2 DEF ReceiveClose, workVars, engineVars
<1>7. CASE ReceiveEnd \/ ReadFails
  <2>1. output' = <<>> /\ closer' = "done" /\ pending' = {}
    BY <1>7 DEF ReceiveEnd, ReadFails, Finish
  <2>2. 1..Len(output') = {}
    BY <2>1
  <2> QED BY <2>1, <2>2 DEF OutputInv
<1>8. CASE UNCHANGED <<output, run, ran, lost, loop, pc, pending, closer>>
  BY <1>8 DEF OutputInv
<1>9. CASE GateOpens \/ (\E r \in Requests : TimesOut(r)) \/ UNCHANGED vars
  <2>1. UNCHANGED <<output, run, ran, lost, loop, pc, closer>>
    BY <1>9 DEF GateOpens, TimesOut, vars, workVars, engineVars, clientVars
  <2>2. pending' = pending
    BY <1>9 DEF GateOpens, Drain, TimesOut, vars, clientVars
  <2> QED BY <1>8, <2>1, <2>2
<1>10. ASSUME UNCHANGED <<output, pc, pending, closer, ran>>, loop = "closed" => loop' = "closed",
              ~lost' => /\ ~lost
                        /\ \A r \in Requests : run'[r] = "done" => run[r] = "done"
       PROVE  OutputInv'
  BY <1>0, <1>1, <1>10 DEF OutputInv, RunGoesOn
<1>11. ASSUME NEW r \in AllCalls, Schedule(r) \/ Serve(r)
       PROVE  OutputInv'
  <2>1. /\ UNCHANGED <<output, pc, pending, closer, ran, lost>> /\ loop # "closed"
        /\ run' \in {run, [run EXCEPT ![r] = "queued"]}
    BY <1>11 DEF Schedule, Serve, clientVars, engineVars
  <2>2. \A q \in Requests : run'[q] = "done" => run[q] = "done"
    BY <1>0, <2>1
  <2> QED BY <1>10, <2>1, <2>2
<1>12. ASSUME NEW r \in Requests, StartWaits(r) \/ StartExecutes(r)
       PROVE  OutputInv'
  <2>1. /\ UNCHANGED <<output, pc, pending, closer, ran, lost, loop>>
        /\ run' \in {[run EXCEPT ![r] = "waiting"], [run EXCEPT ![r] = "executing"]}
    BY <1>12 DEF StartWaits, StartExecutes, SetRun, clientVars
  <2>2. \A q \in Requests : run'[q] = "done" => run[q] = "done"
    BY <1>0, <2>1
  <2> QED BY <1>10, <2>1, <2>2
<1>13. CASE Grant
  <2>1. UNCHANGED <<output, pc, pending, closer, ran, lost, loop>>
    BY <1>13 DEF Grant, clientVars
  <2>2. \A q \in Requests : run'[q] = "done" => run[q] = "done"
    BY <1>0, <1>13 DEF Grant, SetRun
  <2> QED BY <1>10, <2>1, <2>2
<1>14. CASE Abort
  BY <1>10, <1>14 DEF Abort, clientVars
<1>15. ASSUME NEW r \in Requests, NEW ok \in BOOLEAN, Ends(r, ok)
       PROVE  OutputInv'
  <2>1. /\ run[r] \in {"queued", "executing"} /\ run' = [run EXCEPT ![r] = "done"]
        /\ UNCHANGED <<pc, pending, closer, lost>> /\ ran \subseteq ran' /\ (ok => r \in ran')
        /\ output' = IF loop = "aborted" THEN output ELSE Append(output, Response(r, ok))
    BY <1>15 DEF Ends, Respond, clientVars
  <2>2. \A q \in Requests \ {r} : run'[q] = run[q]
    BY <1>0, <2>1
  <2>3. run'[r] = "done"
    BY <1>0, <2>1
  <2>4. \A i \in 1..Len(output) : output[i].id # r
    BY <2>1 DEF OutputInv
  <2>5. loop # "closed"
    BY <2>1 DEF WorkInv, InFlight
  <2>6. closer # "done" => r \in pending
    BY <2>1 DEF OutputInv, SentInv
  <2>7. CASE loop = "aborted"
    <3>1. lost /\ output' = output
      BY <2>1, <2>7 DEF WorkInv
    <3> QED BY <2>1, <2>2, <2>3, <2>5, <3>1 DEF OutputInv
  <2>8. CASE loop # "aborted"
    <3>1. Response(r, ok) \in Replies /\ Response(r, ok).id = r /\ Response(r, ok).ok = ok
      BY DEF Response, Replies, AllCalls
    <3>2. /\ Len(output') = Len(output) + 1 /\ output'[Len(output)+1] = Response(r, ok)
          /\ \A i \in 1..Len(output) : output'[i] = output[i]
      BY <1>0, <2>1, <2>8, <3>1, AppendAt
    <3>3. \A i \in 1..Len(output') : i \in 1..Len(output) \/ i = Len(output)+1
      BY <1>2, <3>2
    <3>4. Len(output)+1 \in 1..Len(output') /\ 1..Len(output) \subseteq 1..Len(output')
      BY <1>2, <3>2
    <3>5. \A i \in 1..Len(output') : output'[i].id \in Requests =>
            /\ run'[output'[i].id] = "done" /\ (closer' # "done" => output'[i].id \in pending')
            /\ output'[i].ok => output'[i].id \in ran'
      BY <2>1, <2>2, <2>3, <2>6, <3>1, <3>2, <3>3 DEF OutputInv
    <3>6. \A i, j \in 1..Len(output') : output'[i].id = output'[j].id => i = j
      BY <2>4, <3>1, <3>2, <3>3 DEF OutputInv
    <3>7. \A i \in 1..Len(output') : output'[i].id \in Requests
      BY <2>5, <3>1, <3>2, <3>3 DEF OutputInv
    <3>8. \A q \in Requests : pc'[q] = "sent" /\ q \notin pending' /\ closer' # "done" =>
            run'[q] = "done"
      BY <2>1, <2>2, <2>3 DEF OutputInv
    <3>9. ASSUME ~lost', NEW q \in pending', run'[q] = "done"
          PROVE  \E i \in 1..Len(output') : output'[i].id = q
      <4>1. CASE q = r
        BY <3>1, <3>2, <3>4, <4>1
      <4>2. CASE q # r
        <5>1. run[q] = "done" /\ q \in pending /\ ~lost
          BY <1>0, <2>1, <2>2, <3>9, <4>2
        <5>2. PICK i \in 1..Len(output) : output[i].id = q
          BY <5>1 DEF OutputInv
        <5> QED BY <3>2, <3>4, <5>2
      <4> QED BY <4>1, <4>2
    <3> QED BY <3>5, <3>6, <3>7, <3>8, <3>9 DEF OutputInv
  <2> QED BY <2>7, <2>8
<1>16. CASE EngineCloses
  <2> DEFINE a == Response(Close, TRUE)  b == EndOfOutput
  <2>1. a \in Replies /\ b \in Replies /\ a.id = Close /\ b.id = None
    BY DEF Response, EndOfOutput, Replies, AllCalls
  <2> HIDE DEF a, b
  <2>2. /\ UNCHANGED <<run, ran, lost, pc, pending, closer>> /\ loop = "serving"
        /\ loop' = "closed" /\ output' = output \o <<a, b>>
    BY <1>16 DEF EngineCloses, clientVars, a, b
  <2>3. /\ Len(output') = Len(output) + 2 /\ output'[Len(output)+1] = a
        /\ output'[Len(output)+2] = b /\ \A i \in 1..Len(output) : output'[i] = output[i]
    BY <1>0, <2>1, <2>2, PairAt
  <2>4. \A i \in 1..Len(output') : i \in 1..Len(output) \/ i = Len(output)+1 \/ i = Len(output)+2
    BY <1>2, <2>3
  <2>5. 1..Len(output) \subseteq 1..Len(output')
    BY <1>2, <2>3
  <2>6. \A i \in 1..Len(output) : output[i].id \in Requests
    BY <2>2 DEF OutputInv
  <2>7. \A i \in 1..Len(output') : output'[i].id \in Requests =>
          i \in 1..Len(output) /\ output'[i] = output[i]
    BY <2>1, <2>3, <2>4
  <2>8. \A i, j \in 1..Len(output') : output'[i].id = output'[j].id => i = j
    BY <1>2, <2>1, <2>3, <2>4, <2>6 DEF OutputInv
  <2>9. ASSUME ~lost', NEW q \in pending', run'[q] = "done"
        PROVE  \E i \in 1..Len(output') : output'[i].id = q
    <3>1. PICK i \in 1..Len(output) : output[i].id = q
      BY <2>2, <2>9 DEF OutputInv
    <3> QED BY <2>3, <2>5, <3>1
  <2>10. \A i \in 1..Len(output') : output'[i].id \in Requests =>
           /\ run'[output'[i].id] = "done" /\ (closer' # "done" => output'[i].id \in pending')
           /\ output'[i].ok => output'[i].id \in ran'
    <3> SUFFICES ASSUME NEW i \in 1..Len(output'), output'[i].id \in Requests
                 PROVE  /\ run'[output'[i].id] = "done"
                        /\ (closer' # "done" => output'[i].id \in pending')
                        /\ output'[i].ok => output'[i].id \in ran'
      OBVIOUS
    <3>1. i \in 1..Len(output) /\ output'[i] = output[i]
      BY <2>7
    <3> QED BY <2>2, <3>1 DEF OutputInv
  <2>11. \A q \in Requests : pc'[q] = "sent" /\ q \notin pending' /\ closer' # "done" =>
           run'[q] = "done"
    BY <2>2 DEF OutputInv
  <2> QED BY <2>2, <2>8, <2>9, <2>10, <2>11 DEF OutputInv
<1> QED BY <1>3, <1>5, <1>6, <1>7, <1>9, <1>11, <1>12, <1>13, <1>14, <1>15, <1>16
        DEF AnyStep, AllCalls

\* What was told, when the answers do not change.
LEMMA AnswersStay ==
  ASSUME Types, InputInv, WorkInv, AnswerInv, AnyStep, UNCHANGED <<answer, pc, ran>>,
         pending' \ timedOut' \subseteq pending \ timedOut, lost => lost'
  PROVE  AnswerInv'
<1>1. RunGoesOn
  BY RunSteps
<1>2. ran \subseteq Requests
  BY DEF Types, WorkTypes
<1> QED BY <1>1, <1>2 DEF AnswerInv, RunGoesOn

\* What was told agrees with what was done.
LEMMA AnswerInvStep ==
  ASSUME Types, GateInv, SentInv, InputInv, WorkInv, OutputInv, AnswerInv, AnyStep
  PROVE  AnswerInv'
<1> USE SessionAssumption
<1>0. /\ run \in [Requests -> {"none", "queued", "waiting", "executing", "done"}]
      /\ answer \in [Requests -> {"none", "ok", "error", "refused", "timeout", "lost"}]
      /\ pc \in [Requests -> {"idle", "gated", "sent", "refused"}]
      /\ output \in Seq(Replies) /\ pending \subseteq Requests /\ timedOut \subseteq pending
      /\ ran \subseteq Requests
  BY DEF Types, ClientTypes, WorkTypes, QueueTypes
<1>1. ASSUME NEW x \in AllCalls, Enters(x)
      PROVE  AnswerInv'
  <2>1. UNCHANGED <<run, ran, lost, timedOut>> /\ Entry(x)
    BY <1>1 DEF Enters, EntryRefused, EntryGated, EntrySent, EntryDropped, elsewhere, workVars,
       engineVars
  <2>2. x \in Requests => pc[x] \in {"idle", "gated"}
    BY <2>1, EntryFacts
  <2>3. CASE EntryRefused(x)
    <3>1. /\ x \in Requests /\ answer' = [answer EXCEPT ![x] = "refused"]
          /\ pc' = [pc EXCEPT ![x] = "refused"] /\ pending' = pending
      BY <2>3 DEF EntryRefused, Refuse, AllCalls
    <3>2. x \notin pending
      BY <2>2, <3>1 DEF SentInv
    <3> QED BY <1>0, <2>1, <3>1, <3>2 DEF AnswerInv
  <2>4. CASE ~EntryRefused(x)
    <3>1. answer' = answer
      BY <1>1, <2>4 DEF Enters, EntryGated, EntrySent, EntryDropped
    <3>2. CASE SentNow(x)
      <4>1. /\ x \in Requests /\ pc' = [pc EXCEPT ![x] = "sent"] /\ pending' = pending \cup {x}
        BY <3>2 DEF SentNow
      <4>2. answer[x] = "none"
        BY <2>2, <4>1 DEF AnswerInv
      <4> QED BY <1>0, <2>1, <3>1, <4>1, <4>2 DEF AnswerInv
    <3>3. CASE NotSentNow(x)
      <4>1. /\ pending' = pending
            /\ pc' = pc \/ \E how \in {"gated", "refused"} : pc' = [pc EXCEPT ![x] = how]
        BY <3>3 DEF NotSentNow
      <4>2. \A q \in Requests : q # x => pc'[q] = pc[q]
        BY <1>0, <4>1
      <4>3. x \in Requests => answer[x] = "none"
        BY <2>2 DEF AnswerInv
      <4> QED BY <1>0, <2>1, <3>1, <4>1, <4>2, <4>3 DEF AnswerInv
    <3> QED BY <1>1, <3>2, <3>3, EntrySteps
  <2> QED BY <2>3, <2>4
<1>2. ASSUME NEW r \in Requests, Receive(r)
      PROVE  AnswerInv'
  <2>1. /\ output # <<>> /\ Head(output).id = r /\ UNCHANGED <<pc, run, ran, lost>>
        /\ \/ r \in timedOut /\ answer' = answer
           \/ \E told \in {"ok", "error"} : r \notin timedOut /\ answer' = [answer EXCEPT ![r] = told]
        /\ pending' = pending \ {r} /\ timedOut' = timedOut \cap (pending \ {r})
    BY <1>2 DEF Receive, Drain, workVars, engineVars
  <2>2. 1 \in 1..Len(output) /\ output[1] = Head(output)
    BY <1>0, <2>1
  <2>3. run[r] = "done"
    BY <2>1, <2>2 DEF OutputInv
  <2>4. pc[r] = "sent"
    BY <2>3 DEF SentInv
  <2>5. \A q \in Requests \ {r} : answer'[q] = answer[q]
    BY <1>0, <2>1
  <2>6. answer'[r] = answer[r] \/ answer'[r] \in {"ok", "error"}
    BY <1>0, <2>1
  <2> QED BY <1>0, <2>1, <2>3, <2>4, <2>5, <2>6 DEF AnswerInv
<1>3. ASSUME NEW r \in Requests, TimesOut(r)
      PROVE  AnswerInv'
  <2>1. /\ r \in pending /\ answer' = [answer EXCEPT ![r] = "timeout"]
        /\ timedOut' = timedOut \cup {r} /\ UNCHANGED <<pc, pending, run, ran, lost>>
    BY <1>3 DEF TimesOut, workVars, engineVars
  <2>2. pc[r] = "sent"
    BY <1>0, <2>1 DEF SentInv
  <2> QED BY <1>0, <2>1, <2>2 DEF AnswerInv
<1>4. CASE ReceiveEnd \/ ReadFails
  <2>1. /\ answer' = [r \in Requests |-> IF r \in pending \ timedOut THEN "lost" ELSE answer[r]]
        /\ pending' = {} /\ UNCHANGED <<pc, run, ran, lost>>
    BY <1>4 DEF ReceiveEnd, ReadFails, Finish, workVars, engineVars
  <2>2. \A r \in pending : pc[r] = "sent"
    BY <1>0 DEF SentInv
  <2>3. ~lost => pending = {}
    <3> SUFFICES ASSUME ~lost, NEW q \in pending PROVE FALSE
      OBVIOUS
    <3>1. closer = "reading" /\ output = <<EndOfOutput>>
      BY <1>4 DEF ReceiveEnd, ReadFails
    <3>2. Len(output) = 1 /\ output[1] = EndOfOutput /\ EndOfOutput.id = None
      BY <3>1 DEF EndOfOutput, Response
    <3>3. loop = "closed"
      BY <3>2 DEF OutputInv
    <3>4. input = <<>> /\ InFlight = {}
      BY <3>3 DEF InputInv, WorkInv
    <3>5. run[q] # "none"
      BY <1>0, <2>2, <3>1, <3>4 DEF InputInv
    <3>6. run[q] = "done"
      BY <1>0, <3>4, <3>5 DEF InFlight
    <3>7. PICK i \in 1..Len(output) : output[i].id = q
      BY <3>6 DEF OutputInv
    <3>8. i = 1
      BY <3>2, <3>7
    <3> QED BY <1>0, <3>2, <3>7, <3>8
  <2> QED BY <1>0, <2>1, <2>2, <2>3 DEF AnswerInv
<1>5. CASE ReceiveClose \/ GateOpens \/ UNCHANGED vars
  <2>1. UNCHANGED <<answer, pc, ran, lost>>
    BY <1>5 DEF ReceiveClose, GateOpens, vars, clientVars, engineVars
  <2>2. pending' \ timedOut' \subseteq pending \ timedOut
    BY <1>5 DEF ReceiveClose, GateOpens, Drain, vars, clientVars
  <2> QED BY <2>1, <2>2, AnswersStay
<1>6. ASSUME NEW r \in Requests, NEW ok \in BOOLEAN, Ends(r, ok)
      PROVE  AnswerInv'
  <2>1. /\ UNCHANGED <<answer, pc, pending, timedOut, lost>>
        /\ ran' \in {ran, ran \cup {r}} /\ run' = [run EXCEPT ![r] = "done"]
    BY <1>6 DEF Ends, clientVars
  <2> QED BY <1>0, <2>1 DEF AnswerInv
<1>7. CASE WorkOnly /\ ran' = ran
  <2>1. UNCHANGED clientVars /\ (lost => lost')
    BY <1>7 DEF WorkOnly, Serve, Schedule, StartWaits, StartExecutes, Ends, EngineCloses,
       Grant, Abort
  <2>2. UNCHANGED <<answer, pc, pending, timedOut>>
    BY <2>1 DEF clientVars
  <2> QED BY <1>7, <2>1, <2>2, AnswersStay
<1>8. CASE WorkOnly /\ ran' # ran
  BY <1>6, <1>8 DEF WorkOnly, Serve, Schedule, StartWaits, StartExecutes, EngineCloses, Grant,
     Abort, engineVars
<1> QED BY <1>1, <1>2, <1>3, <1>4, <1>5, <1>7, <1>8, TwoSides DEF ClientOnly

\* PGlite: the chain of time-outs.
LEMMA DrainInvStep ==
  ASSUME Types, GateInv, DrainInv, AnyStep
  PROVE  DrainInv'
<1>0. /\ links \in [added : Nat, resolved : Nat] /\ ticket \in [AllCalls -> Nat]
      /\ waiting \in Seq(AllCalls) /\ woken \in Seq(AllCalls) /\ timedOut \subseteq pending
  BY DEF Types, ClientTypes, QueueTypes
<1>a. concurrent' = concurrent
  BY SessionFixed DEF Fixed
<1>b. ToSet(waiting) \subseteq AllCalls
  BY <1>0 DEF ToSet
<1>1. ASSUME NEW x \in AllCalls, Enters(x), ~concurrent
      PROVE  DrainInv'
  <2>1. UNCHANGED <<timedOut, links>> /\ Entry(x)
    BY <1>1 DEF Enters, EntryRefused, EntryGated, EntrySent, EntryDropped, elsewhere
  <2>2. woken' # <<>> => woken # <<>>
    BY <2>1 DEF Entry
  <2>3. CASE EntryGated(x)
    <3>1. /\ waiting' = Append(waiting, x) /\ ticket' = [ticket EXCEPT ![x] = links.added]
          /\ links.added > links.resolved
      BY <1>1, <2>3 DEF EntryGated, Gate, Blocked
    <3>2. ToSet(waiting') = ToSet(waiting) \cup {x} /\ x \notin ToSet(waiting)
      BY <1>0, <2>1, <3>1, AppendMembers, EntryFacts
    <3>3. \A y \in ToSet(waiting') : links.resolved < ticket'[y]
      BY <1>0, <1>1, <1>b, <3>1, <3>2 DEF DrainInv
    <3> QED BY <1>1, <2>1, <2>2, <3>3 DEF DrainInv
  <2>4. CASE UNCHANGED <<waiting, ticket>>
    BY <1>1, <2>1, <2>2, <2>4 DEF DrainInv
  <2> QED BY <1>1, <2>3, <2>4 DEF Enters, EntryRefused, EntrySent, EntryDropped
<1>2. ASSUME NEW P, NEW n \in Nat, Drain(P, n), ~concurrent, woken = <<>>, ticket' = ticket,
             links.resolved <= n, n <= links.added, P # {} => n = links.resolved
      PROVE  DrainInv'
  <2>1. Drained(P, n)
    BY <1>2, DrainFacts
  <2>2. timedOut' = timedOut \cap P /\ links'.resolved = n /\ links'.added = links.added
    BY <1>0, <1>2 DEF Drain
  <2>3. \A x \in ToSet(waiting') : n < ticket[x]
    BY <1>0, <1>2, <1>b, <2>1 DEF Drained, Freed
  <2>4. woken' # <<>> => timedOut' = {}
    <3> SUFFICES ASSUME woken' # <<>>, P # {} PROVE FALSE
      BY <2>2
    <3>1. Head(woken') \in ToSet(woken')
      BY <2>1, TailMembers DEF Drained
    <3>2. ToSet(woken) = {}
      BY <1>2 DEF ToSet
    <3>3. PICK x \in ToSet(waiting) : ticket[x] <= n
      BY <1>2, <2>1, <3>1, <3>2 DEF Drained, Freed
    <3>4. links.resolved < ticket[x]
      BY <1>2, <3>3 DEF DrainInv
    <3> QED BY <1>0, <1>2, <1>b, <3>3, <3>4
  <2>5. timedOut' # {} => n < links.added
    BY <1>0, <1>2, <2>2 DEF DrainInv
  <2> QED BY <1>2, <2>2, <2>3, <2>4, <2>5 DEF DrainInv
<1>3. ASSUME NEW r \in Requests, Receive(r), ~concurrent
      PROVE  DrainInv'
  <2> DEFINE n == ResolvedAfter(pending \ {r})
  <2>1. /\ n \in Nat /\ links.resolved <= n /\ n <= links.added
        /\ pending \ {r} # {} => n = links.resolved
    BY <1>0, <1>3 DEF ResolvedAfter, DrainInv
  <2>2. Drain(pending \ {r}, n) /\ woken = <<>> /\ ticket' = ticket
    BY <1>3 DEF Receive, Quiet
  <2> HIDE DEF n
  <2> QED BY <1>2, <1>3, <2>1, <2>2
<1>4. CASE GateOpens /\ ~concurrent
  <2>1. /\ pending = {} /\ links.added > links.resolved /\ Drain({}, links.resolved + 1)
        /\ ticket' = ticket
    BY <1>4 DEF GateOpens
  <2>2. timedOut' = {} /\ links'.resolved = links.resolved + 1 /\ links'.added = links.added
    BY <1>0, <2>1 DEF Drain
  <2>3. Drained({}, links.resolved + 1)
    BY <2>1, DrainFacts
  <2>4. \A x \in ToSet(waiting') : links.resolved + 1 < ticket[x]
    BY <1>0, <1>4, <1>b, <2>3 DEF Drained, Freed
  <2> QED BY <1>0, <2>1, <2>2, <2>4 DEF DrainInv
<1>5. ASSUME NEW r \in Requests, TimesOut(r), ~concurrent
      PROVE  DrainInv'
  <2>1. /\ woken = <<>> /\ links' = [links EXCEPT !.added = @ + 1]
        /\ UNCHANGED <<waiting, woken, ticket>>
    BY <1>5 DEF TimesOut, Quiet
  <2>2. links'.resolved = links.resolved /\ links'.added = links.added + 1
    BY <1>0, <2>1
  <2> QED BY <1>0, <1>5, <2>1, <2>2 DEF DrainInv
<1>6. CASE ReceiveEnd \/ ReadFails
  <2>1. /\ timedOut' = {} /\ waiting' = <<>> /\ links' = [links EXCEPT !.resolved = links.added]
    BY <1>6 DEF ReceiveEnd, ReadFails, Finish
  <2>2. ToSet(waiting') = {}
    BY <2>1 DEF ToSet
  <2> QED BY <1>0, <2>1, <2>2 DEF DrainInv
<1>7. CASE UNCHANGED <<timedOut, links, woken, waiting, ticket>>
  BY <1>7, <1>a DEF DrainInv
<1>8. CASE WorkOnly \/ ReceiveClose \/ UNCHANGED vars
  <2>1. UNCHANGED clientVars \/ ReceiveClose
    BY <1>8 DEF WorkOnly, Serve, Schedule, StartWaits, StartExecutes, Ends, EngineCloses, Grant,
       Abort, vars
  <2> QED BY <1>7, <2>1 DEF clientVars, ReceiveClose
<1>9. CASE concurrent
  BY <1>9, <1>a DEF DrainInv
<1> QED BY <1>1, <1>3, <1>4, <1>5, <1>6, <1>8, <1>9, TwoSides DEF ClientOnly

\* A request that may start follows nothing of its lane that is still under way.
LEMMA LaneIsFree ==
  ASSUME Types, SentInv, LaneInv, loop # "aborted", NEW r \in Requests, Runnable(r),
         NEW q \in Requests, SameLane(q, r), Earlier(q, r)
  PROVE  run[q] = "done"
<1> SUFFICES ASSUME run[q] # "done" PROVE FALSE
  OBVIOUS
<1> DEFINE p == previous[r]
<1>1. p \in Requests \cup {None} /\ requestId \in [Requests -> Nat]
  BY DEF Types, ClientTypes, WorkTypes
<1>2. p # None /\ requestId[q] <= requestId[p]
  BY DEF Runnable, LaneInv
<1>3. p \in Requests /\ run[p] = "done" /\ Lane(p) = Lane(r)
  BY <1>1, <1>2 DEF Runnable, LaneInv
<1> HIDE DEF p
<1>4. p # q
  BY <1>3
<1>5. requestId[q] # requestId[p]
  BY <1>1, <1>3, <1>4 DEF SentInv, Earlier
<1>6. SameLane(q, p) /\ Earlier(q, p)
  BY <1>1, <1>2, <1>3, <1>5 DEF SameLane, Earlier
<1>7. /\ concurrent /\ Lane(p) # None /\ Lane(p) = Lane(q) /\ loop # "aborted"
      /\ 0 < requestId[q] /\ requestId[q] < requestId[p]
      /\ run[p] \in {"waiting", "executing", "done"}
  BY <1>3, <1>6 DEF SameLane, Earlier
<1> QED BY <1>3, <1>7 DEF LaneInv, LaneOrder

\* The lanes' order does not depend on what leaves them, the numbers and the stages alone.
SameProgress ==
  /\ UNCHANGED <<requestId, previous, laneTails>>
  /\ \A r \in Requests : run'[r] # run[r] =>
       \/ run[r] = "queued" /\ Runnable(r) /\ run'[r] \in {"waiting", "executing"}
       \/ run[r] = "waiting" /\ run'[r] = "executing"

\* Such a step keeps the order of the lanes.
LEMMA LaneKept ==
  ASSUME Types, SentInv, LaneInv, AnyStep, SameProgress, loop' # "aborted" => loop # "aborted"
  PROVE  LaneInv'
<1> SUFFICES ASSUME loop' # "aborted" PROVE LaneInv'
  BY DEF LaneInv
<1>0. loop # "aborted"
  OBVIOUS
<1>a. concurrent' = concurrent /\ Lanes' = Lanes /\ \A r \in Requests : Lane(r)' = Lane(r)
  BY SessionFixed, SameCalls DEF Fixed
<1>b. laneTails \in [Lanes -> Requests \cup {None}] /\ previous \in [Requests -> Requests \cup {None}]
  BY DEF Types, WorkTypes
<1>1. \A r \in Requests : /\ run'[r] = "none" <=> run[r] = "none"
                          /\ run'[r] = "done" <=> run[r] = "done"
  BY DEF SameProgress
<1>2. ASSUME NEW r \in Requests, NEW q \in Requests, SameLane(q, r), Earlier(q, r),
             run'[r] \in {"waiting", "executing", "done"}
      PROVE  run'[q] = "done"
  <2>1. run[r] \in {"waiting", "executing", "done"} \/ Runnable(r)
    BY <1>2 DEF SameProgress
  <2>2. CASE Runnable(r)
    BY <1>0, <1>1, <1>2, <2>2, LaneIsFree
  <2>3. CASE run[r] \in {"waiting", "executing", "done"}
    BY <1>0, <1>1, <1>2, <2>3 DEF LaneInv, LaneOrder, SameLane, Earlier
  <2> QED BY <2>1, <2>2, <2>3
<1>3. LaneOrder'
  BY <1>a, <1>2 DEF LaneOrder, SameLane, Earlier, SameProgress
<1>4. \A r, q \in Requests : SameLane(q, r)' = SameLane(q, r) /\ Earlier(q, r)' = Earlier(q, r)
  BY <1>a DEF SameLane, Earlier, SameProgress
<1>5. \A r, q \in Requests : SameLane(q, r) /\ Earlier(q, r) /\ run'[r] # "none" =>
         run'[q] = "done" \/ (previous[r] # None /\ requestId[q] <= requestId[previous[r]])
  BY <1>0, <1>1 DEF LaneInv
<1>6. \A r \in Requests : previous[r] # None =>
         Lane(previous[r]) = Lane(r) /\ run'[previous[r]] # "none"
  BY <1>0, <1>1, <1>b DEF LaneInv
<1>7. \A l \in Lanes : laneTails[l] # None =>
         Lane(laneTails[l]) = l /\ run'[laneTails[l]] # "none"
  BY <1>0, <1>1, <1>b DEF LaneInv
<1>8. \A q \in Requests : Lane(q) # None /\ run'[q] \notin {"none", "done"} =>
         laneTails[Lane(q)] # None /\ requestId[q] <= requestId[laneTails[Lane(q)]]
  BY <1>0, <1>1 DEF LaneInv
<1>9. \A r \in Requests : Lane(previous[r])' = Lane(previous[r])
  BY SessionFixed DEF Fixed, SameProgress, Lane
<1>10. \A l \in Lanes : Lane(laneTails[l])' = Lane(laneTails[l])
  BY SessionFixed DEF Fixed, SameProgress, Lane
<1> QED BY <1>3, <1>4, <1>5, <1>6, <1>7, <1>8, <1>9, <1>10, <1>a DEF LaneInv, SameProgress

\* A request that is sent now comes after everything served.
LEMMA SentLast ==
  ASSUME Types, SentInv, NEW x \in Requests, SentNow(x)
  PROVE  /\ run[x] = "none" /\ run' = run
         /\ \A q, r \in Requests : Earlier(q, r)' => Earlier(q, r) \/ r = x
         /\ \A q \in Requests : run[q] # "none" => requestId'[q] = requestId[q]
<1>1. run[x] = "none" /\ run' = run
  BY DEF SentNow, SentInv
<1>2. requestId \in [Requests -> Nat]
  BY DEF Types, ClientTypes
<1>3. /\ requestId[x] = 0 /\ requestId'[x] > 0 /\ requestId'[x] \in Nat
      /\ \A q \in Requests \ {x} : requestId'[q] = requestId[q]
      /\ \A q \in Requests \ {x} : requestId[q] < requestId'[x]
  BY NewNumber
<1>4. ASSUME NEW q \in Requests, NEW r \in Requests, Earlier(q, r)', r # x
      PROVE  Earlier(q, r)
  <2>1. requestId'[r] = requestId[r] /\ 0 < requestId'[q] /\ requestId'[q] < requestId'[r]
    BY <1>3, <1>4 DEF Earlier
  <2>2. CASE q = x
    BY <1>2, <1>3, <1>4, <2>1, <2>2
  <2>3. CASE q # x
    BY <1>3, <2>1, <2>3 DEF Earlier
  <2> QED BY <2>2, <2>3
<1>5. \A q \in Requests : run[q] # "none" => requestId'[q] = requestId[q]
  BY <1>1, <1>3
<1> QED BY <1>1, <1>4, <1>5

\* What is sent before the head of the input is served already.
LEMMA HeadComesNext ==
  ASSUME Types, SentInv, InputInv, input # <<>>, Head(input) # Close,
         NEW q \in Requests, Earlier(q, Head(input))
  PROVE  run[q] # "none"
<1> DEFINE x == Head(input)
<1>1. /\ input \in Seq(AllCalls) /\ Len(input) \in Nat /\ requestId \in [Requests -> Nat]
      /\ input[1] = x /\ 1 \in 1..Len(input)
  BY DEF Types, ClientTypes, QueueTypes
<1>2. x \in Requests /\ x # Close
  BY HeadIsNew
<1> HIDE DEF x
<1> SUFFICES ASSUME run[q] = "none" PROVE FALSE
  OBVIOUS
<1>3. Earlier(q, x)
  BY DEF x
<1>4. pc[q] = "sent" /\ closer # "done"
  BY <1>1, <1>3 DEF Earlier, SentInv, InputInv
<1>5. PICK i \in 1..Len(input) : input[i] = q
  BY <1>4 DEF InputInv
<1>6. i # 1
  BY <1>1, <1>3, <1>5 DEF Earlier
<1>7. 1 < i /\ q # Close
  BY <1>1, <1>5, <1>6, SessionAssumption
<1>8. requestId[x] < requestId[q]
  BY <1>1, <1>5, <1>7 DEF InputInv
<1> QED BY <1>1, <1>2, <1>3, <1>8 DEF Earlier

\* The lanes.
LEMMA LaneInvStep ==
  ASSUME Types, GateInv, SentInv, InputInv, WorkInv, LaneInv, AnyStep
  PROVE  LaneInv'
<1> USE SessionAssumption
<1>0. /\ run \in [Requests -> {"none", "queued", "waiting", "executing", "done"}]
      /\ requestId \in [Requests -> Nat] /\ queue \in Seq(Requests)
      /\ laneTails \in [Lanes -> Requests \cup {None}] /\ previous \in [Requests -> Requests \cup {None}]
  BY DEF Types, ClientTypes, WorkTypes, QueueTypes
<1>a. program' = program /\ concurrent' = concurrent /\ Lanes' = Lanes
      /\ \A r \in Requests : Lane(r)' = Lane(r)
  BY SessionFixed, SameCalls DEF Fixed
<1>b. \A r \in Requests : Lane(r) # None => Lane(r) \in Lanes
  BY DEF Lane, Lanes
<1>c. LaneOrder <=> (loop # "aborted" => \A r, q \in Requests :
         SameLane(q, r) /\ Earlier(q, r) /\ run[r] \in {"waiting", "executing", "done"}
           => run[q] = "done")
  BY DEF LaneOrder, SameLane, Earlier
<1>d. LaneOrder' <=> (loop' # "aborted" => \A r, q \in Requests :
         SameLane(q, r)' /\ Earlier(q, r)' /\ run'[r] \in {"waiting", "executing", "done"}
           => run'[q] = "done")
  BY DEF LaneOrder, SameLane, Earlier
<1>e. \A r, q \in Requests : SameLane(q, r)' <=> SameLane(q, r)
  BY <1>a DEF SameLane
<1>1. ASSUME NEW x \in Requests, SentNow(x), WorkStays
      PROVE  LaneInv'
  <2> SUFFICES ASSUME loop # "aborted" PROVE LaneInv'
    BY <1>1 DEF LaneInv, WorkStays, workVars
  <2>1. UNCHANGED <<loop, previous, laneTails, run>>
    BY <1>1 DEF WorkStays, workVars
  <2>2. /\ run[x] = "none"
        /\ \A q, r \in Requests : Earlier(q, r)' => Earlier(q, r) \/ r = x
        /\ \A q \in Requests : run[q] # "none" => requestId'[q] = requestId[q]
    BY <1>1, SentLast
  <2>3. LaneOrder'
    BY <1>c, <1>d, <1>e, <2>1, <2>2 DEF LaneInv
  <2>4. ASSUME NEW r \in Requests, NEW q \in Requests, SameLane(q, r), Earlier(q, r)',
               run[r] # "none", run[q] # "done"
        PROVE  previous[r] # None /\ requestId'[q] <= requestId'[previous[r]]
    <3>1. Earlier(q, r)
      BY <2>2, <2>4
    <3>2. previous[r] # None /\ requestId[q] <= requestId[previous[r]]
      BY <2>4, <3>1 DEF LaneInv
    <3>3. run[previous[r]] # "none" /\ previous[r] \in Requests
      BY <1>0, <2>4, <3>2 DEF LaneInv
    <3>4. requestId'[previous[r]] = requestId[previous[r]]
      BY <2>2, <3>3
    <3>0. requestId[x] = 0
      BY <1>1, NewNumber
    <3>5. q # x
      BY <1>0, <3>0, <3>1 DEF Earlier
    <3>6. requestId'[q] = requestId[q]
      BY <1>1, <3>5, NewNumber
    <3> QED BY <3>2, <3>4, <3>6
  <2>5. \A r \in Requests : previous[r] # None =>
          Lane(previous[r])' = Lane(r)' /\ run'[previous[r]] # "none"
    BY <1>a, <2>1 DEF LaneInv, Lane
  <2>6. \A l \in Lanes : laneTails[l] # None =>
          Lane(laneTails[l])' = l /\ run'[laneTails[l]] # "none"
    BY <1>a, <2>1 DEF LaneInv, Lane
  <2>7. ASSUME NEW q \in Requests, Lane(q) # None, run[q] \notin {"none", "done"}
        PROVE  laneTails[Lane(q)] # None /\ requestId'[q] <= requestId'[laneTails[Lane(q)]]
    <3>1. laneTails[Lane(q)] # None /\ requestId[q] <= requestId[laneTails[Lane(q)]]
      BY <2>7 DEF LaneInv
    <3>2. laneTails[Lane(q)] \in Requests /\ run[laneTails[Lane(q)]] # "none"
      BY <1>0, <1>b, <2>7, <3>1 DEF LaneInv
    <3> QED BY <2>2, <2>7, <3>1, <3>2
  <2> QED BY <1>a, <1>e, <2>1, <2>3, <2>4, <2>5, <2>6, <2>7 DEF LaneInv
<1>2. CASE SameProgress /\ (loop' # "aborted" => loop # "aborted")
  BY <1>2, LaneKept
<1>3. CASE ClientOnly
  <2>1. WorkStays
    BY <1>3, ClientOnlySteps
  <2>2. UNCHANGED <<loop, previous, laneTails, run>>
    BY <2>1 DEF WorkStays, workVars
  <2>3. CASE requestId' = requestId
    BY <1>2, <2>2, <2>3 DEF SameProgress
  <2>4. ASSUME NEW x \in AllCalls, Enters(x)
        PROVE  LaneInv'
    BY <1>1, <2>1, <2>3, <2>4, EntrySteps DEF NotSentNow, SentNow
  <2> QED BY <2>3, <2>4, ClientSteps DEF Stays
<1>4. ASSUME NEW r \in Requests, StartWaits(r) \/ StartExecutes(r)
      PROVE  LaneInv'
  <2>1. /\ run[r] = "queued" /\ Runnable(r)
        /\ \E how \in {"waiting", "executing"} : run' = [run EXCEPT ![r] = how]
    BY <1>4 DEF StartWaits, StartExecutes, SetRun, Runnable
  <2>2. UNCHANGED <<requestId, previous, laneTails, loop>>
    BY <1>4 DEF StartWaits, StartExecutes, clientVars
  <2>3. \A q \in Requests : run'[q] # run[q] => q = r /\ run'[q] \in {"waiting", "executing"}
    BY <1>0, <2>1
  <2> QED BY <1>2, <2>1, <2>2, <2>3 DEF SameProgress
<1>5. CASE Grant
  <2>1. queue # <<>> /\ UNCHANGED <<requestId, previous, laneTails, loop>>
    BY <1>5 DEF Grant, clientVars
  <2>2. Head(queue) \in ToSet(queue) /\ Head(queue) \in Requests
    BY <1>0, <2>1, TailMembers
  <2>3. run[Head(queue)] = "waiting"
    BY <2>2 DEF WorkInv
  <2>4. \A q \in Requests : run'[q] = run[q] \/ (run[q] = "waiting" /\ run'[q] = "executing")
    BY <1>0, <1>5, <2>3 DEF Grant, SetRun
  <2> QED BY <1>2, <2>1, <2>4 DEF SameProgress
<1>6. CASE EngineCloses
  BY <1>2, <1>6 DEF EngineCloses, SameProgress, clientVars
<1>7. CASE Abort
  BY <1>7 DEF Abort, LaneInv
<1>8. ASSUME NEW r \in Requests, Schedule(r)
      PROVE  LaneInv'
  <2>1. /\ concurrent /\ loop = "reading" /\ loop' = "reading" /\ requestId' = requestId
        /\ input # <<>> /\ r = Head(input) /\ r # Close /\ run' = [run EXCEPT ![r] = "queued"]
        /\ IF Lane(r) = None THEN UNCHANGED <<previous, laneTails>>
           ELSE /\ previous' = [previous EXCEPT ![r] = laneTails[Lane(r)]]
                /\ laneTails' = [laneTails EXCEPT ![Lane(r)] = r]
    BY <1>8 DEF Schedule, clientVars
  <2>2. /\ run[r] = "none" /\ run'[r] = "queued" /\ \A q \in Requests \ {r} : run'[q] = run[q]
        /\ \A q \in Requests : run[q] # "none" => requestId[q] < requestId[r]
    BY <1>0, <2>1, HeadIsNew
  <2>3. \A q, p \in Requests : Earlier(q, p)' <=> Earlier(q, p)
    BY <2>1 DEF Earlier
  <2>4. \A q \in Requests : Earlier(q, r) => run[q] # "none"
    BY <2>1, HeadComesNext
  <2>5. \A q \in Requests : Earlier(r, q) => run[q] = "none"
    BY <1>0, <2>2 DEF Earlier
  <2>6. \A q \in Requests : ~Earlier(q, q)
    BY <1>0 DEF Earlier
  <2>7. LaneOrder'
    BY <1>c, <1>d, <1>e, <2>1, <2>2, <2>3, <2>5, <2>6 DEF LaneInv
  <2>8. \A p \in Requests : p # r => previous'[p] = previous[p]
    BY <1>0, <2>1
  <2>9. Lane(r) # None => previous'[r] = laneTails[Lane(r)] /\ laneTails'[Lane(r)] = r
    BY <1>0, <1>b, <2>1
  <2>10. \A l \in Lanes : l # Lane(r) => laneTails'[l] = laneTails[l]
    BY <1>0, <2>1
  <2>11. ASSUME NEW p \in Requests, NEW q \in Requests, SameLane(q, p), Earlier(q, p),
                run'[p] # "none", run'[q] # "done"
         PROVE  previous'[p] # None /\ requestId[q] <= requestId[previous'[p]]
    <3>1. CASE p = r
      <4>1. Lane(q) = Lane(r) /\ Lane(r) # None /\ q # r
        BY <2>6, <2>11, <3>1 DEF SameLane
      <4>2. run[q] \notin {"none", "done"}
        BY <2>2, <2>4, <2>11, <3>1, <4>1
      <4> QED BY <2>1, <2>9, <3>1, <4>1, <4>2 DEF LaneInv
    <3>2. CASE p # r
      <4>1. run[p] # "none" /\ q # r
        BY <2>2, <2>5, <2>11, <3>2
      <4> QED BY <2>1, <2>2, <2>8, <2>11, <3>2, <4>1 DEF LaneInv
    <3> QED BY <3>1, <3>2
  <2>12. ASSUME NEW p \in Requests, previous'[p] # None
         PROVE  Lane(previous'[p]) = Lane(p) /\ run'[previous'[p]] # "none"
    <3>1. CASE p = r /\ Lane(r) # None
      BY <1>0, <1>b, <2>1, <2>2, <2>9, <2>12, <3>1 DEF LaneInv
    <3>2. CASE p # r \/ Lane(r) = None
      <4>1. previous'[p] = previous[p]
        BY <2>1, <2>8, <3>2
      <4>2. previous[p] \in Requests /\ Lane(previous[p]) = Lane(p) /\ run[previous[p]] # "none"
        BY <1>0, <2>1, <2>12, <4>1 DEF LaneInv
      <4> QED BY <2>2, <4>1, <4>2
    <3> QED BY <3>1, <3>2
  <2>13. ASSUME NEW l \in Lanes, laneTails'[l] # None
         PROVE  Lane(laneTails'[l]) = l /\ run'[laneTails'[l]] # "none"
    <3>1. CASE l = Lane(r) /\ Lane(r) # None
      BY <2>2, <2>9, <3>1
    <3>2. CASE l # Lane(r) \/ Lane(r) = None
      <4>1. laneTails'[l] = laneTails[l]
        BY <2>1, <2>10, <3>2
      <4>2. laneTails[l] \in Requests /\ Lane(laneTails[l]) = l /\ run[laneTails[l]] # "none"
        BY <1>0, <2>1, <2>13, <4>1 DEF LaneInv
      <4> QED BY <2>2, <4>1, <4>2
    <3> QED BY <3>1, <3>2
  <2>14. ASSUME NEW q \in Requests, Lane(q) # None, run'[q] \notin {"none", "done"}
         PROVE  laneTails'[Lane(q)] # None /\ requestId[q] <= requestId[laneTails'[Lane(q)]]
    <3>1. CASE Lane(q) = Lane(r)
      <4>1. laneTails'[Lane(q)] = r /\ r # None
        BY <2>9, <2>14, <3>1
      <4>2. q = r \/ requestId[q] < requestId[r]
        BY <2>2, <2>14
      <4> QED BY <1>0, <4>1, <4>2
    <3>2. CASE Lane(q) # Lane(r)
      <4>1. laneTails'[Lane(q)] = laneTails[Lane(q)] /\ q # r
        BY <1>b, <2>10, <2>14, <3>2
      <4> QED BY <2>1, <2>2, <2>14, <4>1 DEF LaneInv
    <3> QED BY <3>1, <3>2
  <2>15. \A p \in Requests : Lane(previous[p])' = Lane(previous'[p])
    BY <1>a DEF Lane
  <2>16. \A l \in Lanes : Lane(laneTails[l])' = Lane(laneTails'[l])
    BY <1>a DEF Lane
  <2> QED BY <1>a, <1>e, <2>1, <2>3, <2>7, <2>11, <2>12, <2>13, <2>14, <2>15, <2>16 DEF LaneInv
<1>9. ASSUME NEW x \in AllCalls, Serve(x)
      PROVE  LaneInv'
  <2>1. /\ loop = "reading" /\ UNCHANGED <<requestId, previous, laneTails>>
        /\ concurrent => x = Close
        /\ run' = IF x = Close THEN run ELSE [run EXCEPT ![x] = "queued"]
    BY <1>9 DEF Serve, clientVars
  <2>2. CASE concurrent
    BY <1>2, <2>1, <2>2 DEF SameProgress
  <2>3. CASE ~concurrent
    <3>1. \A r \in Requests : Lane(r) = None
      BY <2>3 DEF Lane
    <3>2. RunGoesOn
      BY RunSteps
    <3>3. \A r \in Requests : previous[r] # None => run'[previous[r]] # "none"
      BY <1>0, <2>1, <3>2 DEF LaneInv, RunGoesOn
    <3>4. \A l \in Lanes : laneTails[l] = None
      BY <1>0, <2>1, <3>1 DEF LaneInv, Lanes
    <3>5. \A r \in Requests : Lane(previous[r])' = None
      BY <1>a, <2>3 DEF Lane
    <3>6. LaneOrder'
      BY <1>a, <2>3 DEF LaneOrder
    <3>7. \A r, q \in Requests : ~SameLane(q, r)'
      BY <1>a, <2>3 DEF SameLane
    <3> QED BY <1>a, <2>1, <3>1, <3>3, <3>4, <3>5, <3>6, <3>7 DEF LaneInv
  <2> QED BY <2>2, <2>3
<1>10. ASSUME NEW r \in Requests, NEW ok \in BOOLEAN, Ends(r, ok)
       PROVE  LaneInv'
  <2> SUFFICES ASSUME loop' # "aborted" PROVE LaneInv'
    BY DEF LaneInv
  <2>1. /\ run[r] \in {"queued", "executing"} /\ run' = [run EXCEPT ![r] = "done"]
        /\ UNCHANGED <<requestId, previous>>
        /\ laneTails' = [l \in Lanes |-> IF laneTails[l] = r THEN None ELSE laneTails[l]]
        /\ run[r] = "queued" => Runnable(r)
        /\ IF serving = r THEN loop' = "reading" ELSE loop' = loop
    BY <1>10 DEF Ends, Respond, clientVars
  <2>2. loop # "aborted"
    BY <2>1 DEF WorkInv
  <2>3. run'[r] = "done" /\ \A q \in Requests \ {r} : run'[q] = run[q]
    BY <1>0, <2>1
  <2>4. \A q, p \in Requests : Earlier(q, p)' <=> Earlier(q, p)
    BY <2>1 DEF Earlier
  <2>5. ASSUME NEW q \in Requests, SameLane(q, r), Earlier(q, r)
        PROVE  run[q] = "done"
    <3>1. CASE run[r] = "queued"
      BY <2>1, <2>2, <2>5, <3>1, LaneIsFree
    <3>2. CASE run[r] = "executing"
      BY <1>c, <2>2, <2>5, <3>2 DEF LaneInv
    <3> QED BY <2>1, <3>1, <3>2
  <2>6. LaneOrder'
    BY <1>c, <1>d, <1>e, <2>2, <2>3, <2>4, <2>5 DEF LaneInv
  <2>7. \A p, q \in Requests : SameLane(q, p) /\ Earlier(q, p) /\ run'[p] # "none" =>
          run'[q] = "done" \/ (previous[p] # None /\ requestId[q] <= requestId[previous[p]])
    BY <2>1, <2>2, <2>3 DEF LaneInv
  <2>8. \A p \in Requests : previous[p] # None =>
          Lane(previous[p]) = Lane(p) /\ run'[previous[p]] # "none"
    BY <1>0, <2>2, <2>3 DEF LaneInv
  <2>9. \A l \in Lanes : laneTails'[l] # None =>
          Lane(laneTails'[l]) = l /\ run'[laneTails'[l]] # "none"
    BY <1>0, <2>1, <2>2, <2>3 DEF LaneInv
  <2>10. ASSUME NEW q \in Requests, Lane(q) # None, run'[q] \notin {"none", "done"}
         PROVE  laneTails'[Lane(q)] # None /\ requestId[q] <= requestId[laneTails'[Lane(q)]]
    <3>1. q # r /\ run[q] \notin {"none", "done"} /\ Lane(q) \in Lanes
      BY <1>b, <2>3, <2>10
    <3>2. laneTails[Lane(q)] # None /\ requestId[q] <= requestId[laneTails[Lane(q)]]
      BY <2>2, <2>10, <3>1 DEF LaneInv
    <3>3. laneTails[Lane(q)] # r
      <4> SUFFICES ASSUME laneTails[Lane(q)] = r PROVE FALSE
        OBVIOUS
      <4>1. Lane(r) = Lane(q)
        BY <2>2, <3>1, <3>2 DEF LaneInv
      <4>2. requestId[q] > 0 /\ requestId[q] # requestId[r]
        BY <1>0, <3>1 DEF SentInv
      <4>3. Earlier(q, r)
        BY <1>0, <3>2, <4>2 DEF Earlier
      <4>4. concurrent
        BY <2>10 DEF Lane
      <4>5. SameLane(q, r)
        BY <2>10, <4>1, <4>4 DEF SameLane
      <4> QED BY <2>5, <3>1, <4>3, <4>5
    <3> QED BY <2>1, <3>1, <3>2, <3>3
  <2>11. \A p \in Requests : Lane(previous[p])' = Lane(previous[p])
    BY <1>a, <2>1 DEF Lane
  <2>12. \A l \in Lanes : Lane(laneTails[l])' = Lane(laneTails'[l])
    BY <1>a DEF Lane
  <2> QED BY <1>a, <1>e, <2>1, <2>4, <2>6, <2>7, <2>8, <2>9, <2>10, <2>11, <2>12 DEF LaneInv
<1> QED BY <1>3, <1>4, <1>5, <1>6, <1>7, <1>8, <1>9, <1>10, TwoSides DEF WorkOnly

\* PGlite: what is served follows what is finished.
LEMMA SerialInvStep ==
  ASSUME Types, GateInv, SentInv, InputInv, WorkInv, SerialInv, AnyStep
  PROVE  SerialInv'
<1> USE SessionAssumption
<1>0. /\ run \in [Requests -> {"none", "queued", "waiting", "executing", "done"}]
      /\ requestId \in [Requests -> Nat]
  BY DEF Types, ClientTypes, WorkTypes
<1>a. concurrent' = concurrent
  BY SessionFixed DEF Fixed
<1> SUFFICES ASSUME ~concurrent, NEW r \in Requests, NEW q \in Requests, Earlier(q, r)',
                    run'[r] # "none"
             PROVE  run'[q] = "done"
  BY <1>a DEF SerialInv
<1>1. RunGoesOn
  BY RunSteps
<1>2. Earlier(q, r)
  <2>1. CASE Stays
    BY <2>1 DEF Stays, Earlier
  <2>2. ASSUME NEW x \in AllCalls, Enters(x)
        PROVE  Earlier(q, r)
    <3>1. CASE NotSentNow(x)
      BY <3>1 DEF NotSentNow, Earlier
    <3>2. CASE SentNow(x)
      <4>1. x \in Requests
        BY <3>2 DEF SentNow
      <4>2. run[x] = "none" /\ run' = run /\ (Earlier(q, r) \/ r = x)
        BY <3>2, <4>1, SentLast
      <4> QED BY <4>2
    <3> QED BY <2>2, <3>1, <3>2, EntrySteps
  <2> QED BY <2>1, <2>2, ClientSteps
<1>3. CASE run[r] # "none"
  BY <1>1, <1>2, <1>3 DEF SerialInv, RunGoesOn
<1>4. CASE run[r] = "none"
  <2>1. input # <<>> /\ r = Head(input) /\ r # Close
    BY <1>1, <1>4 DEF RunGoesOn
  <2>2. run[q] # "none"
    BY <1>2, <2>1, HeadComesNext
  <2>3. loop = "reading"
    <3>1. CASE ClientOnly
      BY <1>4, <3>1, ClientOnlySteps DEF WorkStays, workVars
    <3>2. ASSUME NEW p \in Requests, StartWaits(p) \/ StartExecutes(p)
          PROVE  FALSE
      <4>1. /\ run[p] = "queued"
            /\ \E how \in {"waiting", "executing"} : run' = [run EXCEPT ![p] = how]
        BY <3>2 DEF StartWaits, StartExecutes, SetRun, Runnable
      <4> QED BY <1>0, <1>4, <4>1
    <3>3. ASSUME NEW p \in Requests, NEW ok \in BOOLEAN, Ends(p, ok)
          PROVE  FALSE
      <4>1. run[p] # "none" /\ run' = [run EXCEPT ![p] = "done"]
        BY <3>3 DEF Ends
      <4> QED BY <1>0, <1>4, <4>1
    <3>4. CASE EngineCloses
      BY <1>4, <3>4 DEF EngineCloses
    <3>5. CASE Abort
      BY <1>0, <1>4, <3>5 DEF Abort
    <3>6. CASE Grant
      <4>1. queue # <<>> /\ queue \in Seq(Requests)
        BY <3>6 DEF Grant, Types, QueueTypes
      <4>2. Head(queue) \in ToSet(queue) /\ Head(queue) \in Requests
        BY <4>1, TailMembers
      <4> QED BY <4>2 DEF WorkInv
    <3> QED BY <3>1, <3>2, <3>3, <3>4, <3>5, <3>6, TwoSides DEF WorkOnly, Serve, Schedule
  <2>4. InFlight = {}
    BY <2>3 DEF WorkInv, InFlight
  <2>5. run[q] = "done"
    BY <1>0, <2>2, <2>4 DEF InFlight
  <2> QED BY <1>1, <2>5 DEF RunGoesOn
<1> QED BY <1>3, <1>4

\* What is withdrawn stays withdrawn.
LEMMA UnlistenInvStep ==
  ASSUME Types, GateInv, SentInv, InputInv, WorkInv, OutputInv, UnlistenInv, AnyStep
  PROVE  UnlistenInv'
<1> USE SessionAssumption
<1>0. /\ run \in [Requests -> {"none", "queued", "waiting", "executing", "done"}]
      /\ requestId \in [Requests -> Nat] /\ queue \in Seq(Requests) /\ program \in Programs
      /\ pc \in [Requests -> {"idle", "gated", "sent", "refused"}]
  BY DEF Types, ClientTypes, WorkTypes, QueueTypes
<1>a. concurrent' = concurrent /\ \A r \in Requests : Op(r)' = Op(r) /\ Sub(r)' = Sub(r)
  BY SessionFixed, SameCalls DEF Fixed
<1>1. RunGoesOn
  BY RunSteps
<1>2. ASSUME NEW x \in Requests, SentNow(x), WorkStays
      PROVE  UnlistenInv'
  <2>1. UNCHANGED <<run, subs>> /\ run[x] = "none"
    BY <1>2, SentLast DEF WorkStays, engineVars
  <2>2. ASSUME concurrent, NEW r \in Requests, NEW q \in Requests, Withdraws(r, q)'
        PROVE  run[q] = "done" /\ (r = x \/ Withdraws(r, q))
    <3>1. Op(r) = "unlisten" /\ Op(q) = "listen" /\ Sub(q) = Sub(r) /\ Earlier(q, r)'
      BY <1>a, <2>2 DEF Withdraws
    <3>2. Earlier(q, r) \/ r = x
      BY <1>2, <3>1, SentLast
    <3>3. CASE Earlier(q, r)
      BY <2>2, <3>1, <3>3 DEF UnlistenInv, Withdraws
    <3>4. CASE r = x
      <4>1. q # x
        BY <3>1, <3>4
      <4>2. requestId'[q] = requestId[q] /\ requestId[q] > 0
        BY <1>2, <3>1, <4>1, NewNumber DEF Earlier
      <4>3. pc[q] = "sent" /\ closer # "done" /\ ~Blocked(x)
        BY <1>2, <2>2, <4>2 DEF SentInv, SentNow, closing
      <4>4. q \notin pending
        BY <2>2, <3>1, <3>4, <4>3 DEF Blocked, InScope
      <4> QED BY <3>4, <4>3, <4>4 DEF OutputInv
    <3> QED BY <3>1, <3>2, <3>3, <3>4 DEF Withdraws
  <2>3. concurrent => \A r, q \in Requests : Withdraws(r, q)' => run'[q] = "done"
    BY <2>1, <2>2
  <2>4. concurrent => \A r, q \in Requests :
          Withdraws(r, q)' /\ run'[r] \in {"executing", "done"} => Sub(r) \notin subs'
    BY <2>1, <2>2 DEF UnlistenInv
  <2> QED BY <1>a, <2>1, <2>3, <2>4 DEF UnlistenInv
<1>3. ASSUME requestId' = requestId,
             \A r \in Requests : Op(r) = "unlisten" /\ run'[r] \in {"executing", "done"} =>
               run[r] \in {"executing", "done"} \/ Sub(r) \notin subs',
             subs' \subseteq subs \/ \E p \in Requests : /\ run[p] = "executing" /\ Op(p) = "listen"
                                                         /\ subs' = subs \cup {Sub(p)},
             ~concurrent => \A r \in Requests : Op(r) = "listen" => run'[r] # "executing"
      PROVE  UnlistenInv'
  <2>1. \A r, q \in Requests : Withdraws(r, q)' <=> Withdraws(r, q)
    BY <1>3, <1>a DEF Withdraws, Earlier
  <2>2. concurrent => \A r, q \in Requests : Withdraws(r, q) => run'[q] = "done"
    BY <1>1 DEF UnlistenInv, RunGoesOn
  <2>3. ASSUME concurrent, NEW r \in Requests, NEW q \in Requests, Withdraws(r, q),
               run'[r] \in {"executing", "done"}, Sub(r) \in subs'
        PROVE  FALSE
    <3>1. run[r] \in {"executing", "done"}
      BY <1>3, <2>3 DEF Withdraws
    <3>2. Sub(r) \notin subs /\ run[q] = "done"
      BY <2>3, <3>1 DEF UnlistenInv
    <3>3. PICK p \in Requests : run[p] = "executing" /\ Op(p) = "listen" /\ Sub(p) = Sub(r)
      BY <1>3, <2>3, <3>2
    <3>4. Op(q) = "listen" /\ Sub(q) = Sub(p)
      BY <2>3, <3>3 DEF Withdraws
    <3>5. q = p
      BY <1>0, <3>3, <3>4 DEF Op, Sub
    <3> QED BY <3>2, <3>3, <3>5
  <2>4. ~concurrent => subs' = {}
    BY <1>3 DEF UnlistenInv
  <2> QED BY <1>3, <1>a, <2>1, <2>2, <2>3, <2>4 DEF UnlistenInv
<1>4. CASE ClientOnly
  <2>1. WorkStays
    BY <1>4, ClientOnlySteps
  <2>2. UNCHANGED <<run, subs>>
    BY <2>1 DEF WorkStays, workVars, engineVars
  <2>3. CASE requestId' = requestId
    BY <1>3, <2>2, <2>3 DEF UnlistenInv
  <2>4. ASSUME NEW x \in AllCalls, Enters(x)
        PROVE  UnlistenInv'
    BY <1>2, <2>1, <2>3, <2>4, EntrySteps DEF NotSentNow, SentNow
  <2> QED BY <2>3, <2>4, ClientSteps DEF Stays
<1>5. ASSUME NEW x \in AllCalls, Serve(x) \/ Schedule(x)
      PROVE  UnlistenInv'
  <2>1. UNCHANGED <<requestId, subs>> /\ run' \in {run, [run EXCEPT ![x] = "queued"]}
    BY <1>5 DEF Serve, Schedule, clientVars, engineVars
  <2>2. \A r \in Requests : run'[r] = run[r] \/ run'[r] = "queued"
    BY <1>0, <2>1
  <2> QED BY <1>3, <2>1, <2>2 DEF UnlistenInv
<1>6. ASSUME NEW r \in Requests, StartWaits(r)
      PROVE  UnlistenInv'
  <2>1. UNCHANGED <<requestId, subs>> /\ run' = [run EXCEPT ![r] = "waiting"]
    BY <1>6 DEF StartWaits, SetRun, clientVars
  <2>2. \A q \in Requests : run'[q] = run[q] \/ run'[q] = "waiting"
    BY <1>0, <2>1
  <2> QED BY <1>3, <2>1, <2>2 DEF UnlistenInv
<1>7. ASSUME NEW r \in Requests, StartExecutes(r)
      PROVE  UnlistenInv'
  <2>1. /\ requestId' = requestId /\ run' = [run EXCEPT ![r] = "executing"] /\ ~Invalid(r)
        /\ subs' = IF Op(r) = "unlisten" THEN subs \ {Sub(r)} ELSE subs
    BY <1>7 DEF StartExecutes, SetRun, clientVars
  <2>2. \A q \in Requests : q # r => run'[q] = run[q]
    BY <1>0, <2>1
  <2>3. ~concurrent => Op(r) # "listen"
    BY <2>1 DEF Invalid
  <2>4. subs' \subseteq subs /\ (Op(r) = "unlisten" => Sub(r) \notin subs')
    BY <2>1
  <2> QED BY <1>3, <2>1, <2>2, <2>3, <2>4 DEF UnlistenInv
<1>8. CASE Grant
  <2>1. /\ queue # <<>> /\ UNCHANGED <<requestId, subs>>
    BY <1>8 DEF Grant, clientVars
  <2>2. Head(queue) \in ToSet(queue) /\ Head(queue) \in Requests
    BY <1>0, <2>1, TailMembers
  <2>3. run[Head(queue)] = "waiting"
    BY <2>2 DEF WorkInv
  <2>4. \A q \in Requests : run'[q] = run[q] \/ (run[q] = "waiting" /\ run'[q] = "executing")
    BY <1>0, <1>8, <2>3 DEF Grant, SetRun
  <2>5. concurrent /\ \A q \in Requests : run[q] = "waiting" => Op(q) # "unlisten"
    BY <2>2, <2>3 DEF WorkInv, OnPool
  <2> QED BY <1>3, <2>1, <2>4, <2>5
<1>9. ASSUME NEW r \in Requests, NEW ok \in BOOLEAN, Ends(r, ok)
      PROVE  UnlistenInv'
  <2>1. /\ requestId' = requestId /\ run' = [run EXCEPT ![r] = "done"]
        /\ run[r] \in {"queued", "executing"} /\ subs' \in {subs, subs \cup {Sub(r)}}
        /\ run[r] = "queued" => Invalid(r) /\ subs' = subs
        /\ subs' # subs => Op(r) = "listen"
    BY <1>9 DEF Ends, clientVars
  <2>2. \A q \in Requests : q # r => run'[q] = run[q]
    BY <1>0, <2>1
  <2>3. run'[r] = "done"
    BY <1>0, <2>1
  <2>4. Op(r) = "unlisten" => run[r] = "executing"
    BY <2>1 DEF Invalid
  <2>5. \/ subs' \subseteq subs
        \/ run[r] = "executing" /\ Op(r) = "listen" /\ subs' = subs \cup {Sub(r)}
    BY <2>1
  <2>6. \A q \in Requests : Op(q) = "unlisten" /\ run'[q] \in {"executing", "done"} =>
          run[q] \in {"executing", "done"}
    BY <2>2, <2>4
  <2>7. ~concurrent => \A q \in Requests : Op(q) = "listen" => run'[q] # "executing"
    BY <2>2, <2>3 DEF UnlistenInv
  <2> QED BY <1>3, <2>1, <2>5, <2>6, <2>7
<1>10. CASE EngineCloses \/ Abort
  <2>1. subs' = {} /\ requestId' = requestId
    BY <1>10 DEF EngineCloses, Abort, clientVars
  <2>2. \A q \in Requests : run'[q] = run[q] \/ run'[q] = "done"
    BY <1>0, <1>10 DEF EngineCloses, Abort
  <2> QED BY <1>3, <2>1, <2>2 DEF UnlistenInv
<1> QED BY <1>4, <1>5, <1>6, <1>7, <1>8, <1>9, <1>10, TwoSides DEF WorkOnly, AllCalls

-----------------------------------------------------------------------------
\* The invariants hold of a session that has been initialized.
LEMMA SessionStarts ==
  ASSUME SessionInit
  PROVE  SessionInv
<1> USE SessionAssumption
<1>1. /\ program \in Programs /\ pc = [r \in Requests |-> "idle"]
      /\ answer = [r \in Requests |-> "none"] /\ requestId = [r \in Requests |-> 0]
      /\ pending = {} /\ timedOut = {} /\ waiting = <<>> /\ woken = <<>>
      /\ links = [added |-> 0, resolved |-> 0] /\ ticket = [x \in AllCalls |-> 0]
      /\ closer = "none" /\ input = <<>> /\ loop = "reading" /\ serving = None
  BY DEF SessionInit, AllCalls
<1>2. /\ run = [r \in Requests |-> "none"] /\ previous = [r \in Requests |-> None]
      /\ laneTails = [l \in Lanes |-> None] /\ queue = <<>> /\ subs = {} /\ ran = {}
      /\ output = <<>> /\ lost = FALSE
  BY DEF SessionInit
<1>3. ToSet(waiting) = {} /\ ToSet(woken) = {} /\ ToSet(queue) = {}
  BY <1>1, <1>2 DEF ToSet
<1>4. IsInjective(waiting) /\ IsInjective(woken) /\ IsInjective(queue)
  BY <1>1, <1>2 DEF IsInjective
<1>5. 1..Len(input) = {} /\ 1..Len(output) = {}
  BY <1>1, <1>2
<1>6. Types
  <2>1. ClientTypes
    BY <1>1 DEF ClientTypes
  <2>2. WorkTypes
    BY <1>1, <1>2 DEF WorkTypes
  <2>3. QueueTypes
    BY <1>1, <1>2 DEF QueueTypes
  <2> QED BY <2>1, <2>2, <2>3 DEF Types
<1>7. GateInv
  BY <1>3, <1>4 DEF GateInv
<1>8. SentInv
  <2>1. {q \in Requests : requestId[q] > 0} = {}
    BY <1>1
  <2>2. Cardinality({q \in Requests : requestId[q] > 0}) = 0
    BY <2>1, FS_EmptySet
  <2>3. \A r \in Requests : /\ requestId[r] = 0 /\ pc[r] = "idle" /\ run[r] = "none"
                             /\ r \notin pending
    BY <1>1, <1>2
  <2>4. \A r \in Requests : ~(requestId[r] > 0)
    BY <2>3
  <2>5. \A r \in Requests : requestId[r] <= Cardinality({q \in Requests : requestId[q] > 0})
    BY <2>2, <2>3
  <2> QED BY <2>3, <2>4, <2>5 DEF SentInv
<1>9. InputInv
  BY <1>1, <1>5 DEF InputInv
<1>10. WorkInv
  BY <1>1, <1>2, <1>3, <1>4 DEF WorkInv, InFlight
<1>11. OutputInv
  BY <1>1, <1>5 DEF OutputInv
<1>12. AnswerInv
  BY <1>1, <1>2 DEF AnswerInv
<1>13. DrainInv
  BY <1>1, <1>3 DEF DrainInv
<1>14. LaneInv
  BY <1>1, <1>2 DEF LaneInv, LaneOrder, Earlier
<1>15. SerialInv /\ UnlistenInv
  BY <1>1, <1>2 DEF SerialInv, UnlistenInv, Withdraws, Earlier
<1> QED BY <1>6, <1>7, <1>8, <1>9, <1>10, <1>11, <1>12, <1>13, <1>14, <1>15 DEF SessionInv

\* And every step keeps them all.
LEMMA SessionInvStep ==
  ASSUME SessionInv, [SessionNext]_vars
  PROVE  SessionInv'
<1>1. /\ Types /\ GateInv /\ SentInv /\ InputInv /\ WorkInv /\ OutputInv /\ AnswerInv
      /\ DrainInv /\ LaneInv /\ SerialInv /\ UnlistenInv
  BY DEF SessionInv
<1>2. AnyStep
  BY <1>1, StepCases
<1>3. Types'
  BY <1>1, <1>2, ClientTypesStep, WorkTypesStep, QueueTypesStep DEF Types
<1>4. GateInv' /\ SentInv' /\ InputInv' /\ WorkInv'
  BY <1>1, <1>2, GateInvStep, SentInvStep, InputInvStep, WorkInvStep
<1>5. OutputInv' /\ AnswerInv' /\ DrainInv'
  BY <1>1, <1>2, OutputInvStep, AnswerInvStep, DrainInvStep
<1>6. LaneInv' /\ SerialInv' /\ UnlistenInv'
  BY <1>1, <1>2, LaneInvStep, SerialInvStep, UnlistenInvStep
<1> QED BY <1>3, <1>4, <1>5, <1>6 DEF SessionInv

(***************************************************************************)
(* Every reachable state of a session keeps the invariants above.          *)
(***************************************************************************)
THEOREM SessionInvariant == Spec => []SessionInv
<1>1. SessionInit => SessionInv
  BY SessionStarts
<1>2. SessionInv /\ [SessionNext]_vars => SessionInv'
  BY SessionInvStep
<1> QED BY <1>1, <1>2, PTL DEF Spec

(***************************************************************************)
(* A lane is executed in the order of its requests, one at a time, though  *)
(* the workload keeps only its last task.                                  *)
(***************************************************************************)
THEOREM SessionLaneOrder == Spec => []LaneOrder
<1>1. SessionInv => LaneOrder
  BY DEF SessionInv, LaneInv, LaneOrder
<1> QED BY <1>1, SessionInvariant, PTL

(***************************************************************************)
(* After a confirmed UNLISTEN neither its subscription nor the LISTEN it   *)
(* withdraws is left in the engine.                                        *)
(***************************************************************************)
THEOREM SessionUnlistenIsFinal == Spec => []UnlistenIsFinal
<1>1. ASSUME SessionInv
      PROVE  UnlistenIsFinal
  <2> SUFFICES ASSUME NEW r \in Requests, NEW q \in Requests,
                      Op(r) = "unlisten", answer[r] = "ok", Op(q) = "listen", Sub(q) = Sub(r),
                      0 < requestId[q], requestId[q] < requestId[r]
               PROVE  Sub(r) \notin subs /\ q \notin InFlight
    BY DEF UnlistenIsFinal
  <2>1. AnswerInv /\ SerialInv /\ UnlistenInv
    BY <1>1 DEF SessionInv
  <2>2. run[r] = "done" /\ Withdraws(r, q) /\ Earlier(q, r)
    BY <2>1 DEF AnswerInv, Withdraws, Earlier
  <2>3. run[q] = "done"
    BY <2>1, <2>2 DEF SerialInv, UnlistenInv
  <2>4. Sub(r) \notin subs
    BY <2>1, <2>2 DEF UnlistenInv
  <2> QED BY <2>3, <2>4 DEF InFlight
<1> QED BY <1>1, SessionInvariant, PTL

(***************************************************************************)
(* The engine is closed with no work in flight and no request unread, and  *)
(* no request is lost unless the transport is.                             *)
(***************************************************************************)
THEOREM SessionCloseDrains == Spec => []CloseDrains
<1>1. SessionInv => CloseDrains
  BY DEF SessionInv, WorkInv, InputInv, AnswerInv, CloseDrains
<1> QED BY <1>1, SessionInvariant, PTL

(***************************************************************************)
(* What is sent follows a drained lane, a drained session of PGlite or, if *)
(* it is an UNLISTEN, a subscription with nothing pending.                 *)
(***************************************************************************)
THEOREM SessionDrainsBeforeNext == Spec => DrainsBeforeNext
<1>1. ASSUME SessionInv, [SessionNext]_vars, NEW r \in Requests, pc[r] # "sent", pc'[r] = "sent"
      PROVE  /\ ~concurrent => timedOut = {}
             /\ concurrent /\ Op(r) # "unlisten" => \A q \in timedOut : Lane(q) # Lane(r)
             /\ concurrent /\ Op(r) = "unlisten" => \A q \in pending : Sub(q) # Sub(r)
  <2>1. Types /\ GateInv /\ DrainInv /\ AnyStep
    BY <1>1, StepCases DEF SessionInv
  <2>2. PICK x \in AllCalls : Enters(x)
    BY <1>1, <2>1, ClientSteps DEF Stays
  <2>3. pc \in [Requests -> {"idle", "gated", "sent", "refused"}] /\ program \in Programs
        /\ timedOut \subseteq pending /\ pending \subseteq Requests
        /\ links \in [added : Nat, resolved : Nat]
    BY <2>1 DEF Types, ClientTypes
  <2>4. ~NotSentNow(x)
    BY <1>1, <2>3 DEF NotSentNow
  <2>5. SentNow(x)
    BY <2>1, <2>2, <2>4, EntrySteps
  <2>6. x = r /\ r # Close /\ (~Blocked(r) \/ (~concurrent /\ woken # <<>>))
    BY <1>1, <2>3, <2>5, SessionAssumption DEF SentNow
  <2>7. ~concurrent => timedOut = {}
    BY <2>1, <2>3, <2>6 DEF DrainInv, Blocked
  <2>8. concurrent /\ Op(r) # "unlisten" => \A q \in timedOut : Lane(q) # Lane(r)
    BY <2>3, <2>6 DEF Blocked, InScope
  <2>9. ASSUME concurrent, Op(r) = "unlisten", NEW q \in pending, Sub(q) = Sub(r)
        PROVE  FALSE
    <3>1. Op(q) \notin {"listen", "unlisten"}
      BY <2>6, <2>9 DEF Blocked, InScope
    <3>2. IsCall(program.calls[r], Requests) /\ IsCall(program.calls[q], Requests)
      BY <2>3, <2>9, SessionAssumption
    <3>3. Sub(r) # None /\ Sub(q) = None
      BY <2>9, <3>1, <3>2 DEF IsCall, Op, Sub
    <3> QED BY <2>9, <3>3
  <2> QED BY <2>7, <2>8, <2>9
<1>2. SessionInv /\ [SessionNext]_vars =>
        [\A r \in Requests :
           pc[r] # "sent" /\ pc'[r] = "sent" =>
             /\ ~concurrent => timedOut = {}
             /\ concurrent /\ Op(r) # "unlisten" => \A q \in timedOut : Lane(q) # Lane(r)
             /\ concurrent /\ Op(r) = "unlisten" => \A q \in pending : Sub(q) # Sub(r)]_vars
  BY <1>1
<1> QED BY <1>2, SessionInvariant, PTL DEF Spec, DrainsBeforeNext

-----------------------------------------------------------------------------
(***************************************************************************)
(* The refinement of the ledger of requests.                               *)
(***************************************************************************)
LEMMA LedgerTells ==
  ASSUME Types, NEW r \in Requests, NEW told \in Ledger!Outcomes, answer[r] = "none",
         answer' = [answer EXCEPT ![r] = told], ran' = ran,
         told = "ok" => r \in ran, told = "refused" => r \notin ran
  PROVE  Ledger!Tell
<1>1. answer \in [Requests -> Ledger!Outcomes]
  BY DEF Types, ClientTypes, Ledger!Outcomes
<1> QED BY <1>1 DEF Ledger!Tell

\* Every step of a session is a step of the ledger, or leaves it as it is.
LEMMA LedgerStep ==
  ASSUME SessionInv, [SessionNext]_vars
  PROVE  [Ledger!Next]_<<answer, ran>>
<1>0. /\ Types /\ GateInv /\ SentInv /\ InputInv /\ WorkInv /\ OutputInv /\ AnswerInv
  BY DEF SessionInv
<1>a. /\ run \in [Requests -> {"none", "queued", "waiting", "executing", "done"}]
      /\ answer \in [Requests -> {"none", "ok", "error", "refused", "timeout", "lost"}]
      /\ output \in Seq(Replies) /\ pending \subseteq Requests /\ timedOut \subseteq pending
      /\ ran \subseteq Requests
  BY <1>0 DEF Types, ClientTypes, WorkTypes, QueueTypes
<1>b. AnyStep
  BY <1>0, StepCases
<1> USE SessionAssumption
<1>1. ASSUME NEW x \in AllCalls, Enters(x)
      PROVE  [Ledger!Next]_<<answer, ran>>
  <2>1. ran' = ran /\ Entry(x)
    BY <1>1 DEF Enters, EntryRefused, EntryGated, EntrySent, EntryDropped, elsewhere, engineVars
  <2>2. CASE EntryRefused(x)
    <3>1. x \in Requests /\ answer' = [answer EXCEPT ![x] = "refused"]
      BY <2>2 DEF EntryRefused, Refuse, AllCalls
    <3>2. pc[x] \in {"idle", "gated"}
      BY <1>0, <2>1, <3>1, EntryFacts
    <3>3. answer[x] = "none" /\ x \notin ran
      BY <1>0, <3>1, <3>2 DEF AnswerInv, SentInv
    <3>4. Ledger!Tell
      BY <1>0, <2>1, <3>1, <3>3, LedgerTells DEF Ledger!Outcomes
    <3> QED BY <3>4 DEF Ledger!Next
  <2>3. CASE ~EntryRefused(x)
    BY <1>1, <2>1, <2>3 DEF Enters, EntryGated, EntrySent, EntryDropped
  <2> QED BY <2>2, <2>3
<1>2. ASSUME NEW r \in Requests, Receive(r)
      PROVE  [Ledger!Next]_<<answer, ran>>
  <2>1. output # <<>> /\ Head(output).id = r /\ closer # "done" /\ ran' = ran
        /\ \/ answer' = answer
           \/ /\ r \notin timedOut
              /\ answer' = [answer EXCEPT ![r] = IF Head(output).ok THEN "ok" ELSE "error"]
    BY <1>2 DEF Receive, engineVars
  <2>2. CASE answer' = answer
    BY <2>1, <2>2
  <2>3. CASE /\ r \notin timedOut
             /\ answer' = [answer EXCEPT ![r] = IF Head(output).ok THEN "ok" ELSE "error"]
    <3>1. 1 \in 1..Len(output) /\ output[1] = Head(output)
      BY <1>a, <2>1
    <3>2. r \in pending /\ (Head(output).ok => r \in ran)
      BY <1>0, <2>1, <3>1 DEF OutputInv
    <3>3. answer[r] = "none"
      BY <1>0, <2>3, <3>2 DEF AnswerInv
    <3> DEFINE told == IF Head(output).ok THEN "ok" ELSE "error"
    <3>4. told \in Ledger!Outcomes /\ (told = "ok" => r \in ran) /\ told # "refused"
      BY <3>2 DEF Ledger!Outcomes
    <3>5. answer' = [answer EXCEPT ![r] = told]
      BY <2>3
    <3> HIDE DEF told
    <3>6. Ledger!Tell
      BY <1>0, <2>1, <3>3, <3>4, <3>5, LedgerTells
    <3> QED BY <3>6 DEF Ledger!Next
  <2> QED BY <2>1, <2>2, <2>3
<1>3. ASSUME NEW r \in Requests, TimesOut(r)
      PROVE  [Ledger!Next]_<<answer, ran>>
  <2>1. r \in pending \ timedOut /\ answer' = [answer EXCEPT ![r] = "timeout"] /\ ran' = ran
    BY <1>3 DEF TimesOut, engineVars
  <2>2. answer[r] = "none"
    BY <1>0, <2>1 DEF AnswerInv
  <2>3. Ledger!Tell
    BY <1>0, <2>1, <2>2, LedgerTells DEF Ledger!Outcomes
  <2> QED BY <2>3 DEF Ledger!Next
<1>4. CASE ReceiveEnd \/ ReadFails
  <2>1. /\ answer' = [r \in Requests |-> IF r \in pending \ timedOut THEN "lost" ELSE answer[r]]
        /\ ran' = ran
    BY <1>4 DEF ReceiveEnd, ReadFails, Finish, engineVars
  <2>2. \A r \in pending \ timedOut : answer[r] = "none"
    BY <1>0 DEF AnswerInv
  <2>3. Ledger!Tell
    BY <1>a, <2>1, <2>2 DEF Ledger!Tell, Ledger!Outcomes
  <2> QED BY <2>3 DEF Ledger!Next
<1>5. ASSUME NEW r \in Requests, NEW ok \in BOOLEAN, Ends(r, ok)
      PROVE  [Ledger!Next]_<<answer, ran>>
  <2>1. /\ run[r] \in {"queued", "executing"} /\ ran' \in {ran, ran \cup {r}} /\ answer' = answer
    BY <1>5 DEF Ends, clientVars
  <2>2. CASE r \notin ran /\ ran' = ran \cup {r}
    <3>1. answer[r] \notin {"ok", "error"}
      BY <1>0, <2>1 DEF AnswerInv
    <3>2. answer[r] # "refused"
      BY <1>0, <2>1 DEF AnswerInv, SentInv
    <3>3. answer[r] \in Ledger!Undecided
      BY <1>a, <3>1, <3>2 DEF Ledger!Undecided
    <3>4. Ledger!Execute(r)
      BY <2>1, <2>2, <3>3 DEF Ledger!Execute
    <3> QED BY <3>4 DEF Ledger!Next
  <2>3. CASE ran' = ran
    BY <2>1, <2>3
  <2> QED BY <2>1, <2>2, <2>3
<1>6. CASE \/ \E x \in AllCalls : Serve(x)
           \/ \E r \in Requests : Schedule(r) \/ StartWaits(r) \/ StartExecutes(r)
           \/ GateOpens \/ ReceiveClose \/ EngineCloses \/ Grant \/ Abort \/ UNCHANGED vars
  <2>1. UNCHANGED <<answer, ran>>
    BY <1>6 DEF Serve, Schedule, StartWaits, StartExecutes, GateOpens, ReceiveClose, EngineCloses,
       Grant, Abort, vars, clientVars, engineVars
  <2> QED BY <2>1
<1> QED BY <1>1, <1>2, <1>3, <1>4, <1>5, <1>6, <1>b DEF AnyStep

(***************************************************************************)
(* The session implements the ledger of requests: each is executed at most *)
(* once, its caller is told once, and what it is told agrees with what was *)
(* executed, whatever the time-outs, the transport and close() do.         *)
(***************************************************************************)
THEOREM SessionKeepsLedger == Spec => KeepsLedger
<1>1. SessionInit => Ledger!Init
  BY DEF SessionInit, Ledger!Init
<1>2. SessionInv /\ [SessionNext]_vars => [Ledger!Next]_(Ledger!vars)
  BY LedgerStep DEF Ledger!vars
<1> QED BY <1>1, <1>2, SessionInvariant, PTL DEF Spec, KeepsLedger, Ledger!Spec
=============================================================================
