---- MODULE BrowserBridge_proofs ----
(***************************************************************************)
(* The native host gives every caller the answer to its own command,       *)
(* implements RemoteCalls, leaves nothing in its table that is owed to     *)
(* nobody, and lets no command overtake an earlier one of its caller that  *)
(* was reported as failed: for every set of calls and every number of      *)
(* restarts.  Then the socket by which hosts are reached, and where a tab  *)
(* that is moved goes.                                                     *)
(***************************************************************************)
EXTENDS BrowserBridge, HostSocket, BrowserTabs, SequenceTheorems, TLAPS

Idle == {"none", "queued", "reading"}
Unwritten == Idle \union {"numbered", "entered", "withdrawing"}

\* Numbers belong to one call each, and every entry, request and reply bears
\* the number of its call; a process that is gone leaves none of them.
Numbers ==
  /\ \A c \in Call : ids[c] < nextId
  /\ \A c, d \in Call : ids[c] = ids[d] /\ ids[c] # 0 => c = d
  /\ \A c \in Call : handler[c] \in Idle => ids[c] = 0
  /\ \A c \in Call : handler[c] \in {"numbered", "entered", "withdrawing"} => ids[c] # 0
  /\ \A p \in pending : p.id = ids[p.call] /\ p.id # 0
  /\ \A i \in 1..Len(requests) :
       requests[i].id = ids[requests[i].call] /\ requests[i].id # 0
  /\ \A r \in replies : r.id = ids[r.call] /\ r.id # 0

Clean ==
  main = "exited" =>
    /\ \A c \in Call : handler[c] \in {"none", "done", "dead"} /\ ids[c] = 0
    /\ pending = {} /\ requests = <<>> /\ replies = {}
    /\ reader = "done"

\* What is said of a command is said to its caller, and is true.
Truths ==
  /\ \A c \in Call : \A a \in chan[c] : a.of = c /\ (a.verdict = "ok" => c \in done)
  /\ \A r \in replies : r.verdict = "ok" => r.call \in done

\* A command is written once, by a thread that a caller asked for.
Once ==
  /\ \A i \in 1..Len(requests) :
       requests[i].call \notin done /\ handler[requests[i].call] \notin Unwritten
  /\ \A i, j \in 1..Len(requests) : requests[i].call = requests[j].call => i = j
  /\ \A c \in done : handler[c] \notin Unwritten
  /\ \A c \in Call : handler[c] # "none" => client[c] \notin {"idle", "refused"}

IInv == TypeOK /\ Numbers /\ Clean /\ Truths /\ Once /\ AnswersMatch

USE DEF callers, threads, host, pipes, Answer, Request, Reply

\* The extension takes the oldest request; the others keep their order.
LEMMA TakeRequest ==
  ASSUME requests \in Seq(Request), requests # <<>>
  PROVE  /\ Arrives \in Request
         /\ Len(requests) > 0
         /\ Arrives = requests[1]
         /\ Tail(requests) \in Seq(Request)
         /\ \A i \in 1..Len(Tail(requests)) :
              i + 1 \in 1..Len(requests) /\ Tail(requests)[i] = requests[i + 1]
<1> HIDE DEF Request
<1> QED BY HeadTailProperties DEF Arrives

\* When the extension takes a command the others stay numbered and unique, and only
\* that command can be answered now and has run.
LEMMA TakenKeeps ==
  ASSUME requests \in Seq(Request), Numbers, Once, requests # <<>>,
         requests' = Tail(requests), UNCHANGED <<callers, threads, host>>,
         done' \in {done, done \union {Arrives.call}},
         \A r \in replies' : r \in replies \/ (r.id = Arrives.id /\ r.call = Arrives.call)
  PROVE  Numbers' /\ Once'
<1>1. \A i \in 1..Len(requests') :
        i + 1 \in 1..Len(requests) /\ requests'[i] = requests[i + 1]
  BY TakeRequest
<1>2. Arrives = requests[1] /\ 1 \in 1..Len(requests)
  <2> HIDE DEF Request
  <2> QED BY TakeRequest
<1>3. ids' = ids /\ handler' = handler /\ nextId' = nextId /\ pending' = pending /\ client' = client
  OBVIOUS
<1>4. Numbers'
  <2>1. Arrives.id = ids[Arrives.call] /\ Arrives.id # 0
    BY <1>2 DEF Numbers
  <2>2. \A r \in replies' : r.id = ids[r.call] /\ r.id # 0
    BY <2>1 DEF Numbers
  <2>3. \A i \in 1..Len(requests') :
          requests'[i].id = ids[requests'[i].call] /\ requests'[i].id # 0
    BY <1>1 DEF Numbers
  <2> QED BY <1>3, <2>2, <2>3 DEF Numbers
<1>5. Once'
  <2>1. \A i \in 1..Len(requests') : requests'[i].call \notin done' /\ handler[requests'[i].call] \notin Unwritten
    <3> SUFFICES ASSUME NEW i \in 1..Len(requests')
                 PROVE  requests'[i].call \notin done' /\ handler[requests'[i].call] \notin Unwritten
      OBVIOUS
    <3>1. i + 1 \in 1..Len(requests) /\ requests'[i] = requests[i + 1] /\ i + 1 # 1
      BY <1>1
    <3>2. requests[i + 1].call # Arrives.call
      BY <1>2, <3>1 DEF Once
    <3>3. requests[i + 1].call \notin done /\ handler[requests[i + 1].call] \notin Unwritten
      BY <3>1 DEF Once
    <3> QED BY <3>1, <3>2, <3>3
  <2>2. \A i, j \in 1..Len(requests') : requests'[i].call = requests'[j].call => i = j
    <3> SUFFICES ASSUME NEW i \in 1..Len(requests'), NEW j \in 1..Len(requests'),
                        requests'[i].call = requests'[j].call
                 PROVE  i = j
      OBVIOUS
    <3>1. i + 1 = j + 1
      BY <1>1 DEF Once
    <3> QED BY <3>1
  <2>3. \A c \in done' : handler[c] \notin Unwritten
    BY <1>2 DEF Once
  <2>4. \A c \in Call : handler[c] # "none" => client[c] \notin {"idle", "refused"}
    BY DEF Once
  <2> QED BY <1>3, <2>1, <2>2, <2>3, <2>4 DEF Once
<1> QED BY <1>4, <1>5

LEMMA InitEstablishes == Init => IInv
BY DEF Init, IInv, TypeOK, Numbers, Clean, Truths, Once, AnswersMatch, Idle, Unwritten

-----------------------------------------------------------------------------
(* Type correctness *)

LEMMA TypeInvariant == TypeOK /\ [Next]_vars => TypeOK'
<1> SUFFICES ASSUME TypeOK, [Next]_vars PROVE TypeOK'
  OBVIOUS
<1> USE DEF TypeOK
<1>1. ASSUME NEW c \in Call, Caller(c) PROVE TypeOK'
  BY <1>1 DEF Caller, Connect, ConnectRefused, GiveUp, EndOfStream
<1>2. ASSUME NEW c \in Call, Handler(c) PROVE TypeOK'
  <2>1. CASE Accept(c) BY <2>1 DEF Accept
  <2>2. CASE Number(c) BY <2>2 DEF Number, NextNumber
  <2>3. CASE Enter(c) BY <2>3 DEF Enter
  <2>4. CASE Write(c) BY <2>4 DEF Write, Queued
  <2>5. CASE WriteFails(c) BY <2>5 DEF WriteFails
  <2>6. CASE Withdraw(c) BY <2>6 DEF Withdraw, Without
  <2>7. CASE Receive(c) BY <2>7 DEF Receive
  <2>8. CASE Timeout(c) BY <2>8 DEF Timeout
  <2>9. CASE Respond(c) BY <2>9 DEF Respond
  <2> QED BY <1>2, <2>1, <2>2, <2>3, <2>4, <2>5, <2>6, <2>7, <2>8, <2>9 DEF Handler
<1>3. ASSUME NEW r \in replies, Read(r) PROVE TypeOK'
  BY <1>3 DEF Read, Delivered, Answered
<1>4. CASE Extension
  <2>2. CASE ExtRuns BY <2>2, TakeRequest DEF ExtRuns, Answers, LosesAnswer
  <2>3. CASE ExtRejects BY <2>3, TakeRequest DEF ExtRejects, Answers, LosesAnswer
  <2>4. CASE ExtGoes BY <2>4 DEF ExtGoes
  <2>5. CASE ExtGarbles BY <2>5 DEF ExtGarbles
  <2> QED BY <1>4, <2>2, <2>3, <2>4, <2>5 DEF Extension
<1>5. CASE Stop
  <2>1. CASE ReaderEnds BY <2>1 DEF ReaderEnds
  <2>2. CASE ReaderStops BY <2>2 DEF ReaderStops, FailedAll
  <2>3. CASE AcceptStops BY <2>3 DEF AcceptStops, FailedAll
  <2>4. CASE MainJoins BY <2>4 DEF MainJoins
  <2>5. CASE Exit
    <3>1. <<>> \in Seq(Request) OBVIOUS
    <3> QED BY <2>5, <3>1 DEF Exit
  <2> QED BY <1>5, <2>1, <2>2, <2>3, <2>4, <2>5 DEF Stop
<1>6. CASE AcceptFails BY <1>6 DEF AcceptFails
<1>7. CASE Start BY <1>7 DEF Start
<1>8. CASE UNCHANGED vars BY <1>8 DEF vars
<1> QED BY <1>1, <1>2, <1>3, <1>4, <1>5, <1>6, <1>7, <1>8 DEF Next

-----------------------------------------------------------------------------
(* The inductive invariant *)

Rest == Numbers /\ Clean /\ Truths /\ Once /\ AnswersMatch

LEMMA Induction == ASSUME IInv, TypeOK', [Next]_vars PROVE Rest'
<1> USE DEF IInv, Rest, TypeOK, Numbers, Clean, Truths, Once, AnswersMatch, Idle, Unwritten
<1>1. ASSUME NEW c \in Call, Caller(c) PROVE Rest'
  <2>1. CASE Connect(c) BY <2>1 DEF Connect, MayCall
  <2>2. CASE ConnectRefused(c) BY <2>2 DEF ConnectRefused, MayCall
  <2>3. CASE GiveUp(c) BY <2>3 DEF GiveUp
  <2>4. CASE EndOfStream(c) BY <2>4 DEF EndOfStream
  <2> QED BY <1>1, <2>1, <2>2, <2>3, <2>4 DEF Caller
<1>2. ASSUME NEW c \in Call, Handler(c) PROVE Rest'
  <2>1. CASE Accept(c) BY <2>1 DEF Accept
  <2>2. CASE Number(c) BY <2>2 DEF Number, NextNumber
  <2>3. CASE Enter(c) BY <2>3 DEF Enter
  <2>4. CASE Write(c) BY <2>4 DEF Write, Queued
  <2>5. CASE WriteFails(c) BY <2>5 DEF WriteFails
  <2>6. CASE Withdraw(c) BY <2>6 DEF Withdraw, Without
  <2>7. CASE Receive(c) BY <2>7 DEF Receive
  <2>8. CASE Timeout(c) BY <2>8 DEF Timeout, TimesOut
  <2>9. CASE Respond(c) BY <2>9 DEF Respond
  <2> QED BY <1>2, <2>1, <2>2, <2>3, <2>4, <2>5, <2>6, <2>7, <2>8, <2>9 DEF Handler
<1>3. ASSUME NEW r \in replies, Read(r) PROVE Rest'
  BY <1>3 DEF Read, Delivered, Listening, Answered
<1>4. ASSUME Extension PROVE Rest'
  <2>1. CASE ExtRuns
    <3>1. \A r \in replies' : r \in replies \/ (r.id = Arrives.id /\ r.call = Arrives.call)
      BY <2>1 DEF ExtRuns, Answers, LosesAnswer
    <3>2. Numbers' /\ Once'
      <4>1. /\ requests \in Seq(Request) /\ Numbers /\ Once /\ requests # <<>>
            /\ requests' = Tail(requests) /\ UNCHANGED <<callers, threads, host>>
            /\ done' \in {done, done \union {Arrives.call}}
        BY <2>1 DEF ExtRuns
      <4> HIDE DEF IInv, TypeOK, Numbers, Once
      <4> QED BY <3>1, <4>1, TakenKeeps
    <3>3. Arrives = requests[1] /\ 1 \in 1..Len(requests)
      BY <2>1, TakeRequest DEF ExtRuns
    <3>4. Clean' BY <2>1 DEF ExtRuns
    <3>5. Truths' BY <2>1, <3>3 DEF ExtRuns, Answers, LosesAnswer
    <3>6. AnswersMatch' BY <2>1 DEF ExtRuns
    <3> HIDE DEF Numbers, Clean, Truths, Once, AnswersMatch
    <3> QED BY <3>2, <3>4, <3>5, <3>6
  <2>2. CASE ExtRejects
    <3>1. \A r \in replies' : r \in replies \/ (r.id = Arrives.id /\ r.call = Arrives.call)
      BY <2>2 DEF ExtRejects, Answers, LosesAnswer
    <3>2. Numbers' /\ Once'
      <4>1. /\ requests \in Seq(Request) /\ Numbers /\ Once /\ requests # <<>>
            /\ requests' = Tail(requests) /\ UNCHANGED <<callers, threads, host>>
            /\ done' \in {done, done \union {Arrives.call}}
        BY <2>2 DEF ExtRejects
      <4> HIDE DEF IInv, TypeOK, Numbers, Once
      <4> QED BY <3>1, <4>1, TakenKeeps
    <3>3. Arrives = requests[1] /\ 1 \in 1..Len(requests)
      BY <2>2, TakeRequest DEF ExtRejects
    <3>4. Clean' BY <2>2 DEF ExtRejects
    <3>5. Truths' BY <2>2, <3>3 DEF ExtRejects, Answers, LosesAnswer
    <3>6. AnswersMatch' BY <2>2 DEF ExtRejects
    <3> HIDE DEF Numbers, Clean, Truths, Once, AnswersMatch
    <3> QED BY <3>2, <3>4, <3>5, <3>6
  <2>3. CASE ExtGoes BY <2>3 DEF ExtGoes
  <2>4. CASE ExtGarbles BY <2>4 DEF ExtGarbles
  <2> QED BY <1>4, <2>1, <2>2, <2>3, <2>4 DEF Extension
<1>5. ASSUME Stop PROVE Rest'
  <2>1. CASE ReaderEnds BY <2>1 DEF ReaderEnds
  <2>2. CASE ReaderStops BY <2>2 DEF ReaderStops, FailedAll, Listening
  <2>3. CASE AcceptStops BY <2>3 DEF AcceptStops, FailedAll, Listening
  <2>4. CASE MainJoins BY <2>4 DEF MainJoins, LoopEnds
  <2>5. CASE Exit BY <2>5 DEF Exit
  <2> QED BY <1>5, <2>1, <2>2, <2>3, <2>4, <2>5 DEF Stop
<1>6. ASSUME AcceptFails PROVE Rest'
  BY <1>6 DEF AcceptFails
<1>7. ASSUME Start PROVE Rest'
  BY <1>7 DEF Start
<1>8. CASE UNCHANGED vars BY <1>8 DEF vars
<1> QED BY <1>1, <1>2, <1>3, <1>4, <1>5, <1>6, <1>7, <1>8 DEF Next

\* IInv holds of every reachable state.
LEMMA Invariant == Spec => []IInv
<1>1. Init => IInv BY InitEstablishes
<1>2. IInv /\ [Next]_vars => IInv'
  <2> SUFFICES ASSUME IInv, [Next]_vars PROVE IInv'
    OBVIOUS
  <2>1. TypeOK' BY TypeInvariant DEF IInv
  <2>2. Rest' BY <2>1, Induction
  <2> QED BY <2>1, <2>2 DEF IInv, Rest
<1> QED BY <1>1, <1>2, PTL DEF Spec

\* Every caller is given the answer to its own command, however many calls
\* there are, whichever thread answers late and however often the host is
\* started (dispatch, handle_response).
THEOREM CallersGetTheirOwnAnswers == Spec => []AnswersMatch
<1>1. IInv => AnswersMatch BY DEF IInv
<1> QED BY <1>1, Invariant, PTL

\* A step of the host, of its callers or of the extension is a step of
\* RemoteCalls or changes nothing that it sees.
LEMMA StepImplements ==
  ASSUME IInv, IInv', [Next]_vars PROVE [Calls!Next]_(Calls!vars)
<1> USE DEF Calls!Next, Calls!vars
<1>1. ASSUME NEW c \in Call, Caller(c) PROVE [Calls!Next]_(Calls!vars)
  <2>1. CASE Connect(c) BY <2>1 DEF Connect, MayCall, Calls!Make
  <2>2. CASE ConnectRefused(c) BY <2>2 DEF ConnectRefused, MayCall, Calls!Refuse
  <2>3. CASE GiveUp(c) BY <2>3 DEF GiveUp, Calls!Fail
  <2>4. CASE EndOfStream(c) BY <2>4 DEF EndOfStream, Calls!Fail
  <2> QED BY <1>1, <2>1, <2>2, <2>3, <2>4 DEF Caller
<1>2. ASSUME NEW c \in Call, Handler(c) PROVE [Calls!Next]_(Calls!vars)
  <2>1. CASE Respond(c)
    <3>1. PICK a \in chan[c] :
            /\ client' = [client EXCEPT ![c] = IF @ = "waiting" THEN a.verdict ELSE @]
            /\ UNCHANGED done
      BY <2>1 DEF Respond
    <3>2. a.verdict \in {"ok", "failed"} /\ (a.verdict = "ok" => c \in done)
      BY DEF IInv, TypeOK, Truths
    <3>3. client \in [Call -> Calls!Status]
      BY DEF IInv, TypeOK, Calls!Status
    <3> QED BY <3>1, <3>2, <3>3 DEF Calls!Succeed, Calls!Fail
  <2>2. CASE ~ Respond(c)
    BY <1>2, <2>2 DEF Handler, Accept, Number, Enter, Write, WriteFails, Withdraw,
       Receive, Timeout
  <2> QED BY <2>1, <2>2
<1>3. ASSUME NEW r \in replies, Read(r) PROVE [Calls!Next]_(Calls!vars)
  BY <1>3 DEF Read
<1>4. ASSUME Extension PROVE [Calls!Next]_(Calls!vars)
  <2>1. CASE ExtRuns
    <3>1. Arrives \in Request /\ 1 \in 1..Len(requests) /\ Arrives = requests[1]
      BY <2>1, TakeRequest DEF ExtRuns, IInv, TypeOK
    <3>2. Arrives.call \in Call /\ Arrives.call \notin done
      BY <3>1 DEF IInv, Once
    <3>3. client[Arrives.call] \notin {"idle", "refused"}
      BY <3>1, <3>2 DEF IInv, Once, Unwritten, Idle
    <3>4. Calls!Run(Arrives.call)
      BY <2>1, <3>2, <3>3 DEF ExtRuns, Calls!Run
    <3> QED BY <3>2, <3>4
  <2>2. CASE ExtRejects \/ ExtGoes \/ ExtGarbles
    BY <2>2 DEF ExtRejects, ExtGoes, ExtGarbles
  <2> QED BY <1>4, <2>1, <2>2 DEF Extension
<1>5. ASSUME Stop PROVE [Calls!Next]_(Calls!vars)
  BY <1>5 DEF Stop, ReaderEnds, ReaderStops, AcceptStops, MainJoins, Exit
<1>6. ASSUME AcceptFails PROVE [Calls!Next]_(Calls!vars)
  BY <1>6 DEF AcceptFails
<1>7. ASSUME Start PROVE [Calls!Next]_(Calls!vars)
  BY <1>7 DEF Start
<1>8. CASE UNCHANGED vars BY <1>8 DEF vars
<1> QED BY <1>1, <1>2, <1>3, <1>4, <1>5, <1>6, <1>7, <1>8 DEF Next

\* The host implements RemoteCalls: a command runs at most once, never after
\* a refusal, and "ok" is only said of a command that has run.
THEOREM HostCarriesCalls == Spec => CarriesCalls
<1>1. Init => Calls!Init BY DEF Init, Calls!Init
<1>2. IInv /\ IInv' /\ [Next]_vars => [Calls!Next]_(Calls!vars)
  BY StepImplements
<1> QED BY <1>1, <1>2, Invariant, PTL DEF Spec, CarriesCalls, Calls!Spec

----------------------------------------------------------------------------
(* Entries are owed, and commands keep their order                         *)

\* What PendingIsOwed says of an entry.
Owed(p) == \/ handler[p.call] \in {"entered", "withdrawing"}
           \/ InPipe(p.call)
           \/ \E r \in replies : r.id = p.id
           \/ p.call \in lost
AllOwed == \A p \in pending : Owed(p)

\* A caller goes on when its call has ended, and whoever was given an answer has a
\* handler that is done; its command is in the pipe before those of later calls.
InTurn == \A d, c \in Call : <<d, c>> \in Before /\ client[c] # "idle" => Ended(d)
Given == \A d \in Call : source[d] # {} => handler[d] = "done" /\ Ended(d)
Ordered == \A d, c \in Call : <<d, c>> \in Before /\ source[d] # {} =>
             \A i, j \in 1..Len(requests) : requests[i].call = c /\ requests[j].call = d => j < i
OInv == IInv /\ AllOwed /\ InTurn /\ Given /\ Ordered

LEMMA OrderInit == Init => OInv
<1> SUFFICES ASSUME Init PROVE OInv
  OBVIOUS
<1>1. IInv BY InitEstablishes
<1> QED BY <1>1 DEF Init, OInv, AllOwed, InTurn, Given, Ordered

-----------------------------------------------------------------------------
LEMMA OwedKept == ASSUME IInv, AllOwed, [Next]_vars PROVE AllOwed'
<1> USE DEF AllOwed, Owed, InPipe
<1>0. TypeOK /\ Numbers /\ Clean BY DEF IInv
<1>1. ASSUME NEW c \in Call, Caller(c) PROVE AllOwed'
  <2>1. CASE Connect(c)
    <3>1. handler[c] = "none" BY <2>1 DEF Connect, MayCall, IInv, Once
    <3>2. \A p \in pending : p.call # c BY <1>0, <3>1 DEF Numbers, TypeOK, Idle
    <3>3. UNCHANGED <<pending, requests, lost, replies>> /\ \A d \in Call \ {c} : handler'[d] = handler[d]
      BY <1>0, <2>1 DEF Connect, TypeOK
    <3> QED BY <1>0, <3>2, <3>3 DEF TypeOK
  <2>2. CASE ConnectRefused(c) \/ GiveUp(c) \/ EndOfStream(c)
    BY <2>2 DEF ConnectRefused, GiveUp, EndOfStream
  <2> QED BY <1>1, <2>1, <2>2 DEF Caller
<1>2. ASSUME NEW c \in Call, Handler(c) PROVE AllOwed'
  <2> USE <1>0 DEF TypeOK
  <2>1. CASE Accept(c) BY <2>1 DEF Accept
  <2>2. CASE Number(c) BY <2>2 DEF Number
  <2>3. CASE Enter(c) BY <2>3 DEF Enter
  <2>4. CASE Write(c)
    <3> DEFINE q == [id |-> ids[c], call |-> c]
    <3>1. /\ requests' = Append(requests, q) /\ handler' = [handler EXCEPT ![c] = "waiting"]
          /\ UNCHANGED <<pending, lost, replies>>
      BY <2>4 DEF Write, Queued
    <3>2. q \in Request OBVIOUS
    <3>3. /\ Len(requests') = Len(requests) + 1 /\ Len(requests) \in Nat /\ requests'[Len(requests) + 1] = q
          /\ \A i \in 1..Len(requests) : requests'[i] = requests[i]
      BY <3>1, <3>2
    <3>4. q.call = c OBVIOUS
    <3>6. Len(requests) + 1 \in 1..Len(requests') BY <3>3
    <3>7. InPipe(c)'
      <4> HIDE DEF q
      <4> QED BY <3>3, <3>4, <3>6
    <3>5. \A d \in Call : InPipe(d) => InPipe(d)' BY <3>3
    <3> HIDE DEF InPipe, q
    <3> QED BY <3>1, <3>5, <3>7
  <2>5. CASE WriteFails(c) BY <2>5 DEF WriteFails
  <2>6. CASE Withdraw(c) BY <2>6 DEF Withdraw, Without, Numbers
  <2>7. CASE Receive(c) BY <2>7 DEF Receive
  <2>8. CASE Timeout(c) BY <2>8 DEF Timeout, TimesOut
  <2>9. CASE Respond(c)
    <3>1. PICK a \in chan[c] : /\ handler[c] = "answering" /\ handler' = [handler EXCEPT ![c] = "done"]
                               /\ UNCHANGED <<host, pipes>>
      BY <2>9 DEF Respond
    <3> QED BY <3>1
  <2> QED BY <1>2, <2>1, <2>2, <2>3, <2>4, <2>5, <2>6, <2>7, <2>8, <2>9 DEF Handler
<1>3. ASSUME NEW r \in replies, Read(r) PROVE AllOwed'
  BY <1>3 DEF Read, Answered
<1>4. CASE ExtRuns \/ ExtRejects
  <2>1. /\ \A i \in 1..Len(requests') : i + 1 \in 1..Len(requests) /\ requests'[i] = requests[i + 1]
        /\ requests # <<>> /\ requests' = Tail(requests) /\ UNCHANGED <<handler, pending, ext, ids>>
    BY <1>0, <1>4, TakeRequest DEF ExtRuns, ExtRejects, TypeOK
  <2>2. Arrives = requests[1] /\ Len(requests) > 0 /\ Len(requests) \in Nat /\ Len(Tail(requests)) = Len(requests) - 1
    BY <1>0, <2>1, TakeRequest, HeadTailProperties DEF TypeOK
  <2>3. Arrives.id = ids[Arrives.call] BY <1>0, <2>2 DEF Numbers
  <2>4. lost \subseteq lost' /\ replies \subseteq replies'
    BY <1>4 DEF ExtRuns, ExtRejects, Answers, LosesAnswer
  <2>5. Arrives.call \in lost' \/ \E r \in replies' : r.id = Arrives.id
    <3>1. CASE LosesAnswer BY <3>1 DEF LosesAnswer
    <3>2. ASSUME NEW v \in {"ok", "failed"}, Answers(v) PROVE \E r \in replies' : r.id = Arrives.id
      <4> DEFINE a == [id |-> Arrives.id, call |-> Arrives.call, verdict |-> v]
      <4>1. a \in replies' /\ a.id = Arrives.id BY <3>2 DEF Answers
      <4> HIDE DEF a
      <4> QED BY <4>1
    <3> QED BY <1>4, <3>1, <3>2 DEF ExtRuns, ExtRejects
  <2>6. ASSUME NEW p \in pending, NEW i \in 1..Len(requests), requests[i].call = p.call
        PROVE  InPipe(p.call)' \/ p.call \in lost' \/ \E r \in replies' : r.id = p.id
    <3>1. CASE i = 1 BY <1>0, <2>2, <2>3, <2>5, <2>6, <3>1 DEF Numbers
    <3>2. CASE i # 1
      <4>1. i - 1 \in 1..Len(requests') /\ (i - 1) + 1 = i BY <2>1, <2>2, <3>2
      <4>2. requests'[i - 1] = requests[i] BY <2>1, <4>1
      <4> QED BY <2>6, <4>1, <4>2
    <3> QED BY <3>1, <3>2
  <2> QED BY <2>1, <2>4, <2>6
<1>5. CASE ExtGoes
  <2>1. UNCHANGED <<handler, pending, replies>> /\ lost' = lost \union {c \in Call : InPipe(c)}
    BY <1>5 DEF ExtGoes
  <2>2. \A p \in pending : p.call \in Call BY <1>0 DEF TypeOK
  <2> HIDE DEF InPipe
  <2> QED BY <2>1, <2>2
<1>10. CASE ExtGarbles BY <1>10 DEF ExtGarbles
<1>6. CASE Stop
  BY <1>0, <1>6 DEF Stop, ReaderEnds, ReaderStops, AcceptStops, MainJoins, Exit
<1>7. CASE AcceptFails BY <1>7 DEF AcceptFails
<1>8. CASE Start BY <1>0, <1>8 DEF Start, Clean
<1>9. CASE UNCHANGED vars BY <1>9 DEF vars
<1> QED BY <1>1, <1>2, <1>3, <1>4, <1>5, <1>6, <1>7, <1>8, <1>9, <1>10 DEF Next, Extension

LEMMA TurnKept == ASSUME TypeOK, InTurn, Given, [Next]_vars PROVE InTurn' /\ Given'
<1> USE DEF InTurn, Given, TypeOK, Ended
<1>1. ASSUME NEW c \in Call, Caller(c) PROVE InTurn' /\ Given'
  <2>1. CASE Connect(c) BY <2>1 DEF Connect, MayCall
  <2>2. CASE ConnectRefused(c) BY <2>2 DEF ConnectRefused, MayCall
  <2>3. CASE GiveUp(c) BY <2>3 DEF GiveUp
  <2>4. CASE EndOfStream(c) BY <2>4 DEF EndOfStream
  <2> QED BY <1>1, <2>1, <2>2, <2>3, <2>4 DEF Caller
<1>2. ASSUME NEW c \in Call, Respond(c) PROVE InTurn' /\ Given'
  <2>1. PICK a \in chan[c] :
          /\ client' = [client EXCEPT ![c] = IF @ = "waiting" THEN a.verdict ELSE @]
          /\ source' = [source EXCEPT ![c] = IF client[c] = "waiting" THEN {a.of} ELSE @]
          /\ handler' = [handler EXCEPT ![c] = "done"]
    BY <1>2 DEF Respond
  <2>2. a.verdict \in {"ok", "failed"} BY <2>1
  <2> QED BY <2>1, <2>2
<1>3. ASSUME NEW c \in Call, Handler(c), ~Respond(c) PROVE InTurn' /\ Given'
  BY <1>3 DEF Handler, Accept, Number, Enter, Write, WriteFails, Withdraw, Receive, Timeout, TimesOut
<1>4. CASE Exit BY <1>4 DEF Exit
<1>5. CASE UNCHANGED <<client, source, handler>> BY <1>5
<1>6. ASSUME NEW r \in replies, Read(r) PROVE InTurn' /\ Given' BY <1>5, <1>6 DEF Read
<1> QED BY <1>1, <1>2, <1>3, <1>4, <1>5, <1>6
  DEF Next, vars, Extension, ExtRuns, ExtRejects, ExtGoes, ExtGarbles, Stop, ReaderEnds, ReaderStops, AcceptStops,
      MainJoins, AcceptFails, Start

LEMMA OrderKept == ASSUME IInv, InTurn, Given, Ordered, [Next]_vars PROVE Ordered'
<1> USE DEF Ordered
<1>0. TypeOK /\ Once BY DEF IInv
<1>1. CASE UNCHANGED <<source, requests>> BY <1>1
<1>2. ASSUME NEW c \in Call, Write(c) PROVE Ordered'
  <2>1. requests' = Append(requests, [id |-> ids[c], call |-> c]) /\ source' = source /\ source[c] = {}
    BY <1>2 DEF Write, Queued, Given
  <2> DEFINE q == [id |-> ids[c], call |-> c]  n == Len(requests)
  <2>2. q \in Request /\ q.call = c BY <1>0 DEF TypeOK
  <2>3. /\ Len(requests') = n + 1 /\ n \in Nat /\ requests'[n + 1] = q
        /\ \A i \in 1..n : requests'[i] = requests[i]
    BY <1>0, <2>1, <2>2 DEF TypeOK
  <2> HIDE DEF q, n
  <2> SUFFICES ASSUME NEW d \in Call, NEW e \in Call, <<d, e>> \in Before, source[d] # {},
                      NEW i \in 1..(n + 1), NEW j \in 1..(n + 1), requests'[i].call = e, requests'[j].call = d
               PROVE  j < i
    BY <2>1, <2>3
  <2>4. j # n + 1 BY <2>1, <2>2, <2>3
  <2>5. j \in 1..n /\ requests[j].call = d BY <2>3, <2>4
  <2>6. CASE i = n + 1 BY <2>3, <2>5, <2>6
  <2>7. CASE i # n + 1
    <3>1. i \in 1..n /\ requests[i].call = e BY <2>3, <2>7
    <3> QED BY <2>5, <3>1 DEF n
  <2> QED BY <2>6, <2>7
<1>3. ASSUME NEW c \in Call, Respond(c) PROVE Ordered'
  <2>1. requests' = requests /\ \A d \in Call \ {c} : source'[d] = source[d] BY <1>0, <1>3 DEF Respond, TypeOK
  <2>2. client[c] # "waiting" => source'[c] = source[c] BY <1>0, <1>3 DEF Respond, TypeOK
  <2>3. ASSUME client[c] = "waiting", NEW e \in Call, <<c, e>> \in Before, NEW i \in 1..Len(requests)
        PROVE  requests[i].call # e
    <3>1. client[e] = "idle" BY <2>3 DEF InTurn, Ended
    <3>2. handler[e] = "none" BY <1>0, <3>1 DEF Once
    <3> QED BY <1>0, <3>2 DEF Once, Unwritten, Idle
  <2> QED BY <2>1, <2>2, <2>3
<1>4. CASE ExtRuns \/ ExtRejects
  <2>1. /\ \A i \in 1..Len(requests') : i + 1 \in 1..Len(requests) /\ requests'[i] = requests[i + 1]
        /\ source' = source
    BY <1>0, <1>4, TakeRequest DEF ExtRuns, ExtRejects, TypeOK
  <2> SUFFICES ASSUME NEW d \in Call, NEW e \in Call, <<d, e>> \in Before, source[d] # {},
                      NEW i \in 1..Len(requests'), NEW j \in 1..Len(requests'),
                      requests'[i].call = e, requests'[j].call = d
               PROVE  j < i
    BY <2>1
  <2>2. requests[i + 1].call = e /\ requests[j + 1].call = d BY <2>1
  <2>3. i + 1 \in 1..Len(requests) /\ j + 1 \in 1..Len(requests) BY <2>1
  <2>4. j + 1 < i + 1 BY <2>2, <2>3
  <2> QED BY <2>4
<1>5. CASE requests' = <<>> BY <1>5
<1>6. ASSUME NEW c \in Call, Handler(c), ~Write(c), ~Respond(c) PROVE Ordered'
  BY <1>1, <1>6 DEF Handler, Accept, Number, Enter, WriteFails, Withdraw, Receive, Timeout
<1>7. ASSUME NEW c \in Call, Caller(c) PROVE Ordered'
  BY <1>1, <1>7 DEF Caller, Connect, ConnectRefused, GiveUp, EndOfStream
<1>8. ASSUME NEW r \in replies, Read(r) PROVE Ordered' BY <1>1, <1>8 DEF Read
<1> QED BY <1>1, <1>2, <1>3, <1>4, <1>5, <1>6, <1>7, <1>8
  DEF Next, vars, Extension, ExtGoes, ExtGarbles, Stop, ReaderEnds, ReaderStops, AcceptStops, MainJoins, Exit,
      AcceptFails, Start

LEMMA OrderInvariant == Spec => []OInv
<1>1. OInv /\ [Next]_vars => OInv'
  <2> SUFFICES ASSUME OInv, [Next]_vars PROVE OInv'
    OBVIOUS
  <2>1. IInv /\ TypeOK BY DEF OInv, IInv
  <2>2. TypeOK' BY <2>1, TypeInvariant
  <2>3. IInv' BY <2>1, <2>2, Induction DEF IInv, Rest
  <2> QED BY <2>1, <2>3, OwedKept, TurnKept, OrderKept DEF OInv
<1> QED BY <1>1, OrderInit, PTL DEF Spec

\* Every entry of the table is there for a handler about to write or to withdraw it, for
\* a command or an answer on its way, or for one the browser has lost; a request that
\* could not be written and an answer that was read leave none (dispatch, handle_response).
THEOREM EntriesAlwaysOwed == Spec => []PendingIsOwed
<1>1. OInv => PendingIsOwed BY DEF OInv, AllOwed, Owed, PendingIsOwed
<1> QED BY <1>1, OrderInvariant, PTL

\* What LateNeverOvertaken says of a step.
NoneOvertakes ==
  \A d, c \in Call :
    /\ <<d, c>> \in Before
    /\ source[d] # {}
    /\ c \in done' \ done
    => ~ \E i \in 1..Len(requests') : requests'[i].call = d

LEMMA StepKeepsOrder == OInv /\ [Next]_vars => NoneOvertakes
<1> SUFFICES ASSUME OInv, [Next]_vars, NEW d \in Call, NEW c \in Call, <<d, c>> \in Before, source[d] # {},
                    c \in done' \ done, NEW i \in 1..Len(requests'), requests'[i].call = d
             PROVE  FALSE
  BY DEF NoneOvertakes
<1>1. ExtRuns
  BY DEF Next, vars, Caller, Connect, ConnectRefused, GiveUp, EndOfStream, Handler, Accept, Number, Enter, Write,
         WriteFails, Withdraw, Receive, Timeout, Respond, Read, Extension, ExtRejects, ExtGoes, ExtGarbles, Stop,
         ReaderEnds, ReaderStops, AcceptStops, MainJoins, Exit, AcceptFails, Start
<1>2. TypeOK /\ Ordered BY DEF OInv, IInv
<1>3. /\ Arrives = requests[1] /\ Arrives.call = c /\ 1 \in 1..Len(requests)
      /\ i + 1 \in 1..Len(requests) /\ requests[i + 1].call = d
  BY <1>1, <1>2, TakeRequest DEF ExtRuns, TypeOK
<1>4. i + 1 < 1 BY <1>2, <1>3 DEF Ordered
<1>5. i \in Nat /\ i > 0 BY <1>2
<1> QED BY <1>4, <1>5

\* No command runs before an earlier one of its caller that was reported failed and
\* is still on its way (write_request's lock, the pipe's order).
THEOREM NeverOvertaken == Spec => LateNeverOvertaken
<1>1. OInv /\ [Next]_vars => [NoneOvertakes]_vars BY StepKeepsOrder
<1>2. Spec => [][NoneOvertakes]_vars BY <1>1, OrderInvariant, PTL DEF Spec
<1> QED BY <1>2 DEF LateNeverOvertaken, NoneOvertakes

-----------------------------------------------------------------------------
(* The socket: for any number of hosts and of starts.                      *)

\* Who is bound to the path serves.  Without a race one host starts at a time, and it
\* removes or binds only a path that leads to nobody.
OneStarts == \A g, h \in Starting : g = h
OnlyStale == \A h \in BHost : DoesOf(h) \in {"remove", "bind"} => path \notin BHost
SInv == /\ SocketTypeOK
        /\ path \in BHost => DoesOf(path) = "serves"
        /\ ~raced => OneStarts /\ OnlyStale
        /\ SocketLeadsToHost

LEMMA SocketInitEstablishes == SocketInit => SInv
<1> SUFFICES ASSUME SocketInit PROVE SInv
  OBVIOUS
<1>1. path \notin BHost BY SocketAssumption DEF SocketInit
<1>2. \A h \in BHost : DoesOf(h) = "gone" BY DEF SocketInit, DoesOf
<1>3. SocketTypeOK
  <2>1. [does |-> "gone", starts |-> 0] \in [does : Does, starts : Nat] BY DEF Does
  <2> QED BY <2>1 DEF SocketInit, SocketTypeOK
<1>4. OneStarts /\ OnlyStale BY <1>1, <1>2 DEF OneStarts, OnlyStale, Starting
<1>5. SocketLeadsToHost BY <1>2 DEF SocketLeadsToHost
<1> QED BY <1>1, <1>3, <1>4, <1>5 DEF SInv

\* A step of one host changes what that host does and nothing of the others.
LEMMA HostsGoOn ==
  ASSUME SocketTypeOK, NEW h \in BHost, NEW does \in Does, HostGoes(h, does)
  PROVE  /\ hosts' \in [BHost -> [does : Does, starts : Nat]]
         /\ hosts'[h].does = does
         /\ \A g \in BHost \ {h} : hosts'[g] = hosts[g]
BY DEF SocketTypeOK, HostGoes

LEMMA SocketTypeInvariant == SocketTypeOK /\ [HostNext]_socketVars => SocketTypeOK'
<1> SUFFICES ASSUME SocketTypeOK, [HostNext]_socketVars PROVE SocketTypeOK'
  OBVIOUS
<1> USE DEF SocketTypeOK
<1>1. ASSUME NEW h \in BHost, StartHost(h) PROVE SocketTypeOK'
  BY <1>1 DEF StartHost, Does
<1>2. ASSUME NEW h \in BHost, LookForSocket(h) PROVE SocketTypeOK'
  BY <1>2, HostsGoOn DEF LookForSocket, Does
<1>3. ASSUME NEW h \in BHost, ProbeSocket(h) PROVE SocketTypeOK'
  BY <1>3, HostsGoOn DEF ProbeSocket, ProbesSocket, Does
<1>4. ASSUME NEW h \in BHost, RemoveSocket(h) PROVE SocketTypeOK'
  BY <1>4, HostsGoOn DEF RemoveSocket, Does
<1>5. ASSUME NEW h \in BHost, BindSocket(h) PROVE SocketTypeOK'
  BY <1>5, HostsGoOn DEF BindSocket, Does
<1>6. ASSUME NEW h \in BHost, EndHost(h) PROVE SocketTypeOK'
  BY <1>6, HostsGoOn DEF EndHost, Does
<1>7. CASE UNCHANGED socketVars BY <1>7 DEF socketVars
<1> QED BY <1>1, <1>2, <1>3, <1>4, <1>5, <1>6, <1>7 DEF HostNext

LEMMA SocketInvariant == SInv /\ [HostNext]_socketVars => SInv'
<1> SUFFICES ASSUME SInv, [HostNext]_socketVars PROVE SInv'
  OBVIOUS
<1>0. SocketTypeOK /\ SocketTypeOK' BY SocketTypeInvariant DEF SInv
<1> USE SocketAssumption DEF SInv, OneStarts, OnlyStale, Starting, DoesOf, SocketLeadsToHost
<1>1. ASSUME NEW h \in BHost, StartHost(h) PROVE SInv'
  BY <1>0, <1>1 DEF StartHost, SocketTypeOK
<1>2. ASSUME NEW h \in BHost, LookForSocket(h) PROVE SInv'
  BY <1>0, <1>2, HostsGoOn DEF LookForSocket, Does
<1>3. ASSUME NEW h \in BHost, ProbeSocket(h) PROVE SInv'
  BY <1>0, <1>3, HostsGoOn DEF ProbeSocket, ProbesSocket, Does
<1>4. ASSUME NEW h \in BHost, RemoveSocket(h) PROVE SInv'
  BY <1>0, <1>4, HostsGoOn DEF RemoveSocket, Does
<1>5. ASSUME NEW h \in BHost, BindSocket(h) PROVE SInv'
  BY <1>0, <1>5, HostsGoOn DEF BindSocket, Does
<1>6. ASSUME NEW h \in BHost, EndHost(h) PROVE SInv'
  BY <1>0, <1>6, HostsGoOn DEF EndHost, Does
<1>7. CASE UNCHANGED socketVars BY <1>0, <1>7 DEF socketVars
<1> QED BY <1>1, <1>2, <1>3, <1>4, <1>5, <1>6, <1>7 DEF HostNext

\* A client that connects reaches the host that serves, unless two were starting
\* at once (bind_socket).
THEOREM PathLeadsToHost == SocketSpec => []SocketLeadsToHost
<1>1. SInv => SocketLeadsToHost BY DEF SInv
<1> QED BY <1>1, SocketInitEstablishes, SocketInvariant, PTL DEF SocketSpec

-----------------------------------------------------------------------------
(* Tabs.  What is decided is of an answer that was fetched before the      *)
(* command, and twice; that the command then does it needs that nothing    *)
(* has come between them (Unchanged) and that each step remembers what was *)
(* decided (Begun).                                                        *)

\* An operation begins with the tabs at rest; until it ends undisturbed nothing but it has
\* changed them, and what it is about to do is what was decided of them.
Unchanged ==
  /\ strips = bbegun.strips /\ strips \in [BWindow -> Strip] /\ Tidy(strips)
  /\ \E w \in BWindow : strips[w].tabs = <<>>
  /\ bbegun.window \in BrowserWindows /\ onTop \in BrowserWindows /\ bfocus \in BWindow
StripBefore == bbegun.strips[bbegun.window]
Leaves == TabCount(StripBefore) > 1 /\ MoveTargetIndex(StripBefore, bcall.dir) = {}
Begun ==
  /\ bcall.pc \in {"ask", "again", "send", "prepare", "target"}
  /\ bcall.pc # "send" \/ bcall.op # "merge" => onTop = bbegun.window /\ bfocus = onTop
  /\ bcall.pc = "ask" => bcall.op \in {"focus", "move"}
  /\ bcall.pc = "again" => bcall.op \in {"focus", "move"}
  /\ bcall.pc = "prepare" => bcall.op = "move" /\ Leaves
  /\ bcall.pc = "target" => bcall.op = "merge" /\ Leaves
  /\ bcall.pc = "send" => /\ bcall.op \in {"focus", "internal", "tearOut", "merge"}
                          /\ bcall.op = "internal" => MoveTargetIndex(StripBefore, bcall.dir) # {}
                          /\ bcall.op = "tearOut" => Leaves
                          /\ bcall.op = "merge" => Leaves /\ onTop # bbegun.window
  /\ bcall.op = "merge" => bcall.tab = ShownTab(StripBefore) /\ bcall.pc \in {"target", "send"}
IsBCall(c) == c = [pc |-> c.pc, op |-> c.op, dir |-> c.dir, tab |-> c.tab, outcome |-> c.outcome]
IsBegun(b) == b = [strips |-> b.strips, window |-> b.window, clean |-> b.clean]
TabsInv ==
  /\ IsBCall(bcall)
  /\ IsBegun(bbegun)
  /\ bcall.pc # "idle" => bcall.outcome = "none"
  /\ bcall.pc = "idle" /\ bcall.outcome = "none" =>
       strips \in Strips0 /\ onTop \in BrowserWindows /\ bfocus = onTop /\ late = {} /\ ~bbegun.clean
  /\ bcall.pc # "idle" /\ bbegun.clean => Unchanged /\ Begun /\ late = {}
  /\ bbegun.clean => late = {}
  /\ TabsMoveOneStep

USE DEF IsBCall, IsBegun

\* A tab that is taken out of a strip is not among what is left, and the others are.
LEMMA RemovedSet ==
  ASSUME NEW X, NEW q \in Seq(X), NEW k \in 1..Len(q), \A i, j \in 1..Len(q) : q[i] = q[j] => i = j
  PROVE  ToSet(RemoveAt(q, k)) = ToSet(q) \ {q[k]}
<1>. DEFINE r == RemoveAt(q, k)
<1>1. /\ r \in Seq(X) /\ Len(r) = Len(q) - 1
      /\ \A j \in 1..Len(r) : r[j] = IF j < k THEN q[j] ELSE q[j + 1]
  <2>. DEFINE a == SubSeq(q, 1, k - 1)
              b == SubSeq(q, k + 1, Len(q))
  <2>1. a \in Seq(X) /\ Len(a) = k - 1 /\ \A j \in 1..k - 1 : a[j] = q[j]
    OBVIOUS
  <2>2. b \in Seq(X) /\ Len(b) = Len(q) - k /\ \A j \in 1..Len(q) - k : b[j] = q[k + j]
    OBVIOUS
  <2>3. r = a \o b
    BY DEF RemoveAt
  <2>. HIDE DEF a, b, r
  <2>4. r \in Seq(X) /\ Len(r) = Len(q) - 1
    <3>1. r \in Seq(X) /\ Len(r) = Len(a) + Len(b)
      <4>1. a \in Seq(X) /\ b \in Seq(X)
        BY <2>1, <2>2
      <4>2. (a \o b) \in Seq(X) /\ Len(a \o b) = Len(a) + Len(b)
        BY <4>1
      <4>. QED
        BY <2>3, <4>2
    <3>. QED
      BY <2>1, <2>2, <3>1
  <2>5. ASSUME NEW j \in 1..Len(r) PROVE r[j] = IF j < k THEN q[j] ELSE q[j + 1]
    <3>1. CASE j < k
      BY <2>1, <2>2, <2>3, <2>4, <3>1
    <3>2. CASE ~(j < k)
      <4>1. r[j] = b[j - Len(a)]
        BY <2>1, <2>2, <2>3, <2>4, <3>2
      <4>2. b[j - Len(a)] = q[k + (j - Len(a))]
        BY <2>1, <2>2, <2>4, <3>2
      <4>. QED
        BY <2>1, <3>2, <4>1, <4>2
    <3>. QED
      BY <3>1, <3>2
  <2>. QED
    BY <2>4, <2>5
<1>. HIDE DEF r
<1>2. ASSUME NEW j \in 1..Len(r) PROVE r[j] \in ToSet(q) \ {q[k]}
  <2>1. CASE j < k
    BY <1>1, <2>1 DEF ToSet
  <2>2. CASE ~(j < k)
    BY <1>1, <2>2 DEF ToSet
  <2>. QED
    BY <2>1, <2>2
<1>3. ASSUME NEW i \in 1..Len(q), i # k PROVE q[i] \in ToSet(r)
  <2>1. CASE i < k
    BY <1>1, <2>1 DEF ToSet
  <2>2. CASE i > k
    <3>1. i - 1 \in 1..Len(r) /\ r[i - 1] = q[i]
      BY <1>1, <2>2
    <3>. QED
      BY <1>1, <3>1 DEF ToSet
  <2>. QED
    BY <1>3, <2>1, <2>2
<1>4. ToSet(r) \subseteq ToSet(q) \ {q[k]}
  BY <1>1, <1>2 DEF ToSet
<1>5. ToSet(q) \ {q[k]} \subseteq ToSet(r)
  BY <1>3 DEF ToSet
<1>. QED
  BY <1>4, <1>5 DEF r

\* A tab is shown in one place.
LEMMA EachTabOnce ==
  ASSUME NEW ss, Tidy(ss), NEW w \in BWindow, ss[w] \in Strip
  PROVE  \A i, j \in 1..Len(ss[w].tabs) : ss[w].tabs[i] = ss[w].tabs[j] => i = j
<1>1. DOMAIN ss[w].tabs = 1..Len(ss[w].tabs)
  BY DEF Strip
<1>2. \A i \in DOMAIN ss[w].tabs, j \in DOMAIN ss[w].tabs : ss[w].tabs[i] = ss[w].tabs[j] => i = j
  BY Zenon DEF Tidy
<1>. QED
  BY <1>1, <1>2

\* A window that a tab leaves shows the others.
LEMMA LeftBehind ==
  ASSUME NEW s \in Strip, NEW k \in 1..Len(s.tabs),
         \A i, j \in 1..Len(s.tabs) : s.tabs[i] = s.tabs[j] => i = j
  PROVE  ToSet(WithoutTab(s, s.tabs[k]).tabs) = ToSet(s.tabs) \ {s.tabs[k]}
<1>. DEFINE t == s.tabs[k]
<1>1. s.tabs \in Seq(Nat \ {NoTab})
  BY DEF Strip
<1>2. PlaceOf(s, t) + 1 = k
  <2>1. (CHOOSE i \in 1..TabCount(s) : s.tabs[i] = t) = k
    BY <1>1 DEF TabCount
  <2>2. PlaceOf(s, t) = k - 1
    BY <2>1, Zenon DEF PlaceOf
  <2>. QED
    BY <2>2
<1>3. WithoutTab(s, t).tabs = RemoveAt(s.tabs, k)
  <2>1. CASE RemoveAt(s.tabs, k) = <<>>
    BY <1>2, <2>1 DEF WithoutTab, EmptyStrip
  <2>2. CASE RemoveAt(s.tabs, k) # <<>>
    BY <1>2, <2>2 DEF WithoutTab
  <2>. QED
    BY <2>1, <2>2
<1>. QED
  BY <1>1, <1>3, RemovedSet

\* A tab that is moved changes places with its neighbour.
LEMMA ChangesPlaces ==
  ASSUME NEW s \in Strip, NEW step \in {-1, 0, 1}, s.at < Len(s.tabs), SameSide(s, s.at + step)
  PROVE  /\ MovedBy(s, step).tabs[s.at + step + 1] = ShownTab(s)
         /\ ToSet(MovedBy(s, step).tabs) = ToSet(s.tabs)
<1>. DEFINE i == s.at + step
            m == [s.tabs EXCEPT ![s.at + 1] = s.tabs[i + 1], ![i + 1] = s.tabs[s.at + 1]]
<1>1. s.tabs \in Seq(Nat \ {NoTab}) /\ s.at \in Nat /\ s.at + 1 \in 1..Len(s.tabs) /\ i + 1 \in 1..Len(s.tabs)
  BY DEF Strip, SameSide, TabCount
<1>2. MovedBy(s, step).tabs = m
  BY DEF MovedBy, Strip
<1>3. m[i + 1] = s.tabs[s.at + 1] /\ DOMAIN m = DOMAIN s.tabs
  BY <1>1
<1>4. \A j \in DOMAIN m : m[j] = IF j = i + 1 THEN s.tabs[s.at + 1]
                                ELSE IF j = s.at + 1 THEN s.tabs[i + 1] ELSE s.tabs[j]
  BY <1>1
<1>. HIDE DEF m, i
<1>5. ToSet(m) \subseteq ToSet(s.tabs)
  <2>1. ASSUME NEW j \in DOMAIN m PROVE m[j] \in ToSet(s.tabs)
    <3>1. \E l \in DOMAIN s.tabs : m[j] = s.tabs[l]
      <4>1. DOMAIN s.tabs = 1..Len(s.tabs)
        BY <1>1
      <4>2. j \in DOMAIN s.tabs /\ s.at + 1 \in DOMAIN s.tabs /\ i + 1 \in DOMAIN s.tabs
        BY <1>1, <1>3, <4>1, Zenon
      <4>3. m[j] = s.tabs[s.at + 1] \/ m[j] = s.tabs[i + 1] \/ m[j] = s.tabs[j]
        BY <1>4
      <4>. QED
        BY <4>2, <4>3, Zenon
    <3>. QED
      BY <3>1 DEF ToSet
  <2>. QED
    BY <2>1 DEF ToSet
<1>6. ToSet(s.tabs) \subseteq ToSet(m)
  <2>1. ASSUME NEW j \in DOMAIN s.tabs PROVE s.tabs[j] \in ToSet(m)
    <3>1. CASE j = i + 1
      BY <1>1, <1>3, <1>4, <3>1 DEF ToSet
    <3>2. CASE j = s.at + 1 /\ j # i + 1
      BY <1>1, <1>3, <3>2 DEF ToSet
    <3>3. CASE j # s.at + 1 /\ j # i + 1
      BY <1>1, <1>3, <1>4, <3>3 DEF ToSet
    <3>. QED
      BY <3>1, <3>2, <3>3
  <2>. QED
    BY <2>1 DEF ToSet
<1>. QED
  BY <1>2, <1>3, <1>5, <1>6 DEF ShownTab, i

\* What a move may do within the window is a step among the tabs pinned alike, and if it
\* may not there is none.
LEMMA StepIsAlike ==
  ASSUME NEW s \in Strip, s.at < Len(s.tabs), s.pinned <= Len(s.tabs), NEW d
  PROVE  /\ StepTo(d) \in {-1, 0, 1}
         /\ MoveTargetIndex(s, d) # {} <=> StepTo(d) # 0 /\ SameSide(s, s.at + StepTo(d))
<1>. USE DEF StepTo, MoveTargetIndex, SameSide, ActivePinned, TabCount, Strip
<1>1. CASE d = "west"
  BY <1>1
<1>2. CASE d = "east"
  BY <1>2
<1>3. CASE d \notin {"west", "east"}
  BY <1>3
<1>. QED
  BY <1>1, <1>2, <1>3

\* A command that is sent undisturbed moves the tab as was decided.
LEMMA SentAsDecided ==
  ASSUME Unchanged, Begun, bcall.pc = "send", bcall.op # "focus", bfocus = onTop, BrowserRuns(TabCommand),
         NEW x, x = ShownTab(StripBefore), NEW beyond, beyond = StripBefore.at + StepTo(bcall.dir)
  PROVE  IF StepTo(bcall.dir) # 0 /\ SameSide(StripBefore, beyond)
         THEN /\ strips'[bbegun.window].tabs[beyond + 1] = x
              /\ ToSet(StripBefore.tabs) = ToSet(strips'[bbegun.window].tabs)
         ELSE ToSet(strips'[bbegun.window].tabs) = ToSet(StripBefore.tabs) \ {x}
<1>. DEFINE w == bbegun.window
<1>1. /\ w \in BWindow /\ StripBefore = strips[w] /\ StripBefore \in Strip /\ StripBefore.at < Len(StripBefore.tabs)
      /\ StripBefore.pinned <= Len(StripBefore.tabs) /\ StripBefore.tabs # <<>>
  BY DEF Unchanged, StripBefore, BrowserWindows, Tidy
<1>2. /\ StepTo(bcall.dir) \in {-1, 0, 1}
      /\ MoveTargetIndex(StripBefore, bcall.dir) # {} <=> StepTo(bcall.dir) # 0 /\ SameSide(StripBefore, beyond)
  BY <1>1, StepIsAlike
<1>3. StripBefore.at + 1 \in 1..Len(StripBefore.tabs) /\ x = StripBefore.tabs[StripBefore.at + 1]
  BY <1>1 DEF ShownTab, Strip
<1>4. ToSet(WithoutTab(StripBefore, x).tabs) = ToSet(StripBefore.tabs) \ {x}
  <2>3. \A i, j \in 1..Len(StripBefore.tabs) : StripBefore.tabs[i] = StripBefore.tabs[j] => i = j
    BY <1>1, EachTabOnce DEF Unchanged
  <2>. DEFINE k == StripBefore.at + 1
  <2>4. k \in 1..Len(StripBefore.tabs) /\ x = StripBefore.tabs[k]
    BY <1>3
  <2>. HIDE DEF k
  <2>. QED
    <3>1. ToSet(WithoutTab(StripBefore, StripBefore.tabs[k]).tabs) = ToSet(StripBefore.tabs) \ {StripBefore.tabs[k]}
      BY <1>1, <2>3, <2>4, LeftBehind
    <3>. QED
      BY <2>4, <3>1
<1>5. TabCommand.op = bcall.op /\ TabCommand.dir = bcall.dir /\ TabCommand.tab = bcall.tab
  BY DEF TabCommand
<1>6. strips \in [BWindow -> Strip] /\ bfocus \in BWindow
  BY DEF Unchanged
<1>7. CASE bcall.op = "internal"
  <2>1. bfocus = w /\ MoveTargetIndex(StripBefore, bcall.dir) # {}
    BY <1>7 DEF Begun
  <2>2. strips' = [strips EXCEPT ![bfocus] = MovedBy(@, StepTo(bcall.dir))]
    BY <1>5, <1>7 DEF BrowserRuns
  <2>3. strips'[w] = MovedBy(StripBefore, StepTo(bcall.dir))
    BY <1>1, <1>6, <2>1, <2>2
  <2>. QED
    BY <1>1, <1>2, <2>1, <2>3, ChangesPlaces
<1>8. CASE bcall.op = "tearOut"
  <2>1. bfocus = w /\ MoveTargetIndex(StripBefore, bcall.dir) = {} /\ TabCount(StripBefore) > 1
    BY <1>8 DEF Begun, Leaves
  <2>2. BWindow \ BrowserWindows # {} /\ Reported = StripBefore
    BY <1>1, <2>1 DEF Unchanged, BrowserWindows, Reported
  <2>3. PICK v \in BWindow \ BrowserWindows :
          strips' = [strips EXCEPT ![bfocus] = WithoutTab(@, ShownTab(Reported)),
                                   ![v] = LoneTab(ShownTab(Reported))]
    <3>1. TabCount(Reported) # 1
      <4>1. TabCount(StripBefore) \in Nat
        BY <1>1 DEF TabCount, Strip
      <4>. QED
        BY <2>1, <2>2, <4>1
    <3>2. TabCommand.op = "tearOut"
      BY <1>5, <1>8
    <3>. QED
      BY <2>2, <3>1, <3>2, Zenon DEF BrowserRuns
  <2>4. v # w
    BY <2>3 DEF Unchanged
  <2>5. strips'[w] = WithoutTab(StripBefore, x)
    BY <1>1, <1>6, <2>1, <2>2, <2>3, <2>4
  <2>. QED
    BY <1>2, <1>4, <2>1, <2>5
<1>9. CASE bcall.op = "merge"
  <2>1. /\ onTop # w /\ bcall.tab = x /\ MoveTargetIndex(StripBefore, bcall.dir) = {}
    BY <1>9 DEF Begun, Leaves
  <2>2. x \in TabsIn(w)
    BY <1>1, <1>3 DEF TabsIn, ToSet
  <2>3. ~(WindowOfTab(x) \subseteq {bfocus})
    BY <1>1, <2>1, <2>2 DEF WindowOfTab
  <2>4. strips' = [v \in BWindow |-> IF v = bfocus THEN WithTab(strips[v], x)
                                     ELSE IF x \in TabsIn(v) THEN WithoutTab(strips[v], x) ELSE strips[v]]
    BY <1>5, <1>9, <2>1, <2>3 DEF BrowserRuns
  <2>5. strips'[w] = WithoutTab(StripBefore, x)
    BY <1>1, <2>1, <2>2, <2>4
  <2>. QED
    BY <1>2, <1>4, <2>1, <2>5
<1>. QED
  BY <1>7, <1>8, <1>9 DEF Begun

\* A step of an operation that only decides keeps the invariant if what it decides is
\* right of the tabs as they are.
LEMMA Decides ==
  ASSUME TabsInv, TabsAsIs, bcall.pc # "idle",
         IsBCall(bcall'),
         bcall'.pc = "idle" => bcall'.outcome \notin {"none", "done"},
         bcall'.pc # "idle" => bcall'.outcome = "none",
         bbegun.clean /\ bcall'.pc # "idle" => Begun'
  PROVE  TabsInv'
<1>1. UNCHANGED <<strips, bfocus, onTop, late, bbegun>>
  BY DEF TabsAsIs
<1>2. Unchanged => Unchanged'
  BY <1>1 DEF Unchanged, Tidy, BrowserWindows
<1>3. TabsMoveOneStep'
  BY DEF TabsMoveOneStep
<1>. QED
  BY <1>1, <1>2, <1>3 DEF TabsInv

\* What an operation began with, and so what was decided of it, is not lost on its way.
LEMMA SameBefore ==
  ASSUME bbegun'.strips = bbegun.strips, bbegun'.window = bbegun.window
  PROVE  StripBefore' = StripBefore /\ (bcall'.dir = bcall.dir => (Leaves' <=> Leaves))
<1>1. StripBefore' = StripBefore
  BY DEF StripBefore
<1>. QED
  BY <1>1 DEF Leaves

\* While an operation runs that none has disturbed, its strip is as it was.
LEMMA StillReported ==
  ASSUME Unchanged, Begun, bcall.pc # "send" \/ bcall.op # "merge"
  PROVE  Reported = StripBefore
BY DEF Unchanged, Begun, Reported, StripBefore

\* An operation that may focus a tab goes on; at the edge it ends.
LEMMA CanFocusAsked == ASSUME TabsInv, AskCanFocus PROVE TabsInv'
<1>1. /\ bcall.pc = "ask" /\ bcall.op = "focus" /\ TabsAsIs /\ bcall.outcome = "none"
      /\ bcall' = [bcall EXCEPT !.pc = "again"] \/ bcall' = [bcall EXCEPT !.pc = "idle", !.outcome = "atEdge"]
  BY DEF AskCanFocus, TabsInv, TabGoes, TabEnds
<1>2. IsBCall(bcall)
  BY DEF TabsInv
<1>3. ASSUME bbegun.clean, bcall'.pc # "idle" PROVE Begun'
  <2>1. Begun /\ bcall'.pc = "again" /\ bcall'.op = "focus"
    BY <1>1, <1>2, <1>3 DEF TabsInv
  <2>2. UNCHANGED <<onTop, bfocus, bbegun>>
    BY <1>1 DEF TabsAsIs
  <2>. QED
    BY <1>1, <2>1, <2>2 DEF Begun
<1>4. IsBCall(bcall')
  BY <1>1, <1>2
<1>. QED
  BY <1>1, <1>2, <1>3, <1>4, Decides

\* A tab is torn out or merged only if there is no place for it where it is.
LEMMA DecisionAsked == ASSUME TabsInv, AskDecision PROVE TabsInv'
<1>1. /\ bcall.pc = "ask" /\ bcall.op = "move" /\ TabsAsIs /\ bcall.outcome = "none"
      /\ \/ bcall' = [bcall EXCEPT !.pc = "idle", !.outcome = "passthrough"]
         \/ bcall' = [bcall EXCEPT !.pc = "again"]
         \/ /\ bcall' \in {[bcall EXCEPT !.pc = "send", !.op = "tearOut"], [bcall EXCEPT !.pc = "prepare"]}
            /\ TabDecision(Reported, bcall.dir) \notin {"passthrough", "internal"}
  BY DEF AskDecision, TabsInv, TabGoes, TabEnds
<1>2. IsBCall(bcall)
  BY DEF TabsInv
<1>3. ASSUME bbegun.clean, bcall'.pc # "idle" PROVE Begun'
  <2>1. Begun /\ Unchanged
    BY <1>1, <1>3 DEF TabsInv
  <2>2. UNCHANGED <<onTop, bfocus, bbegun>>
    BY <1>1 DEF TabsAsIs
  <2>3. CASE bcall' = [bcall EXCEPT !.pc = "idle", !.outcome = "passthrough"]
    BY <1>2, <1>3, <2>3
  <2>4. CASE bcall' = [bcall EXCEPT !.pc = "again"]
    <3>1. bcall'.pc = "again" /\ bcall'.op = "move"
      BY <1>1, <1>2, <2>4
    <3>. QED
      BY <1>1, <2>1, <2>2, <3>1 DEF Begun
  <2>5. CASE /\ bcall' \in {[bcall EXCEPT !.pc = "send", !.op = "tearOut"], [bcall EXCEPT !.pc = "prepare"]}
             /\ TabDecision(Reported, bcall.dir) \notin {"passthrough", "internal"}
    <3>1. Reported = StripBefore /\ TabCount(StripBefore) \in Nat
      <4>1. StripBefore \in Strip
        BY <2>1 DEF Unchanged, StripBefore, BrowserWindows
      <4>. QED
        BY <1>1, <2>1, <4>1, StillReported DEF Strip, TabCount
    <3>2. Leaves
      BY <2>5, <3>1 DEF TabDecision, Leaves
    <3>3. bcall'.dir = bcall.dir /\ \/ bcall'.pc = "send" /\ bcall'.op = "tearOut"
                                    \/ bcall'.pc = "prepare" /\ bcall'.op = "move"
      <4>1. CASE bcall' = [bcall EXCEPT !.pc = "send", !.op = "tearOut"]
        BY <1>2, <4>1
      <4>2. CASE bcall' = [bcall EXCEPT !.pc = "prepare"]
        BY <1>1, <1>2, <4>2
      <4>. QED
        BY <2>5, <4>1, <4>2
    <3>4. Leaves'
      BY <2>2, <3>2, <3>3, SameBefore
    <3>. QED
      BY <1>1, <2>1, <2>2, <3>3, <3>4 DEF Begun
  <2>. QED
    BY <1>1, <2>3, <2>4, <2>5
<1>4. /\ IsBCall(bcall')
      /\ bcall'.pc = "idle" => bcall'.outcome = "passthrough"
      /\ bcall'.pc # "idle" => bcall'.outcome = "none"
  BY <1>1, <1>2
<1>. QED
  BY <1>1, <1>3, <1>4, Decides

\* Asked again, the extension answers as before: a move goes on only if there is a place.
LEMMA AskedAgain == ASSUME TabsInv, AskAgain PROVE TabsInv'
<1>. DEFINE target == IF bcall.op = "focus" THEN FocusTargetIndex(Reported, bcall.dir)
                                            ELSE MoveTargetIndex(Reported, bcall.dir)
<1>1. /\ bcall.pc = "again" /\ TabsAsIs /\ bcall.outcome = "none"
      /\ \/ bcall' = [bcall EXCEPT !.pc = "idle", !.outcome = "error"]
         \/ /\ target # {}
            /\ bcall' = [bcall EXCEPT !.pc = "send", !.op = IF @ = "focus" THEN @ ELSE "internal"]
  BY DEF AskAgain, TabsInv, TabGoes, TabEnds
<1>. HIDE DEF target
<1>2. IsBCall(bcall)
  BY DEF TabsInv
<1>3. ASSUME bbegun.clean, bcall'.pc # "idle" PROVE Begun'
  <2>1. Begun /\ Unchanged
    BY <1>1, <1>3 DEF TabsInv
  <2>2. UNCHANGED <<onTop, bfocus, bbegun>>
    BY <1>1 DEF TabsAsIs
  <2>3. /\ target # {} /\ bcall'.pc = "send" /\ bcall'.dir = bcall.dir
        /\ bcall'.op = IF bcall.op = "focus" THEN "focus" ELSE "internal"
    BY <1>1, <1>2, <1>3
  <2>4. Reported = StripBefore
    BY <1>1, <2>1, StillReported
  <2>5. bcall'.op = "internal" => MoveTargetIndex(StripBefore, bcall.dir) # {}
    BY <2>3, <2>4 DEF target
  <2>6. StripBefore' = StripBefore
    BY <2>2, SameBefore
  <2>7. onTop' = bbegun'.window /\ bfocus' = onTop'
    BY <1>1, <2>1, <2>2 DEF Begun
  <2>. QED
    BY <2>3, <2>5, <2>6, <2>7 DEF Begun
<1>4. /\ IsBCall(bcall')
      /\ bcall'.pc = "idle" => bcall'.outcome = "error"
      /\ bcall'.pc # "idle" => bcall'.outcome = "none"
  BY <1>1, <1>2
<1>. QED
  BY <1>1, <1>3, <1>4, Decides

\* The tab that is to be merged is the one that was shown.
LEMMA MergePrepared == ASSUME TabsInv, PrepareTab PROVE TabsInv'
<1>1. /\ bcall.pc = "prepare" /\ TabsAsIs /\ bcall.outcome = "none"
      /\ bcall' = [bcall EXCEPT !.pc = "target", !.op = "merge", !.tab = ShownTab(Reported)]
  BY DEF PrepareTab, TabsInv, TabGoes
<1>2. IsBCall(bcall)
  BY DEF TabsInv
<1>3. ASSUME bbegun.clean PROVE Begun'
  <2>1. Begun /\ Unchanged
    BY <1>1, <1>3 DEF TabsInv
  <2>2. UNCHANGED <<onTop, bfocus, bbegun>>
    BY <1>1 DEF TabsAsIs
  <2>3. bcall'.pc = "target" /\ bcall'.op = "merge" /\ bcall'.dir = bcall.dir /\ bcall'.tab = ShownTab(Reported)
    BY <1>1, <1>2
  <2>4. Reported = StripBefore
    BY <1>1, <2>1, StillReported
  <2>5. Leaves' /\ StripBefore' = StripBefore
    BY <1>1, <2>1, <2>2, <2>3, SameBefore DEF Begun
  <2>6. onTop' = bbegun'.window /\ bfocus' = onTop'
    BY <1>1, <2>1, <2>2 DEF Begun
  <2>. QED
    BY <2>3, <2>4, <2>5, <2>6 DEF Begun
<1>4. /\ IsBCall(bcall')
      /\ bcall'.pc = "target" /\ bcall'.outcome = "none"
  BY <1>1, <1>2
<1>. QED
  BY <1>1, <1>3, <1>4, Decides

\* Nothing has disturbed an operation that begins.
LEMMA OperationBegins == ASSUME TabsInv, BeginTabs PROVE TabsInv'
<1>1. /\ strips \in Strips0 /\ onTop \in BrowserWindows /\ bfocus = onTop /\ late = {}
      /\ UNCHANGED <<strips, bfocus, onTop, late>>
      /\ bbegun' = [strips |-> strips, window |-> onTop, clean |-> bfocus = onTop]
  BY DEF BeginTabs, TabsInv
<1>2. PICK op \in {"focus", "move"}, d \in BAsked : bcall' = [NoBCall EXCEPT !.pc = "ask", !.op = op, !.dir = d]
  BY DEF BeginTabs, TabGoes
<1>3. /\ IsBCall(bcall')
      /\ bcall'.pc = "ask" /\ bcall'.op \in {"focus", "move"} /\ bcall'.outcome = "none"
  BY <1>2 DEF NoBCall
<1>4. strips \in [BWindow -> Strip] /\ Tidy(strips) /\ \E w \in BWindow : strips[w].tabs = <<>>
  BY <1>1, TabsAssumption
<1>5. Unchanged'
  <2>1. strips' = strips /\ bbegun'.strips = strips /\ bbegun'.window = onTop /\ onTop' = onTop /\ bfocus' = onTop
    BY <1>1
  <2>2. BrowserWindows' = BrowserWindows /\ (Tidy(strips))'
    BY <1>4, <2>1 DEF BrowserWindows, Tidy
  <2>3. onTop \in BWindow
    BY <1>1 DEF BrowserWindows
  <2>. QED
    BY <1>1, <1>4, <2>1, <2>2, <2>3 DEF Unchanged
<1>6. Begun'
  BY <1>1, <1>3 DEF Begun
<1>7. TabsMoveOneStep'
  BY <1>3 DEF TabsMoveOneStep
<1>8. IsBegun(bbegun')
  BY <1>1
<1>. QED
  BY <1>1, <1>3, <1>5, <1>6, <1>7, <1>8 DEF TabsInv

\* The window to merge into is not the one that the tab is in.
LEMMA TargetFocused == ASSUME TabsInv, FocusTarget PROVE TabsInv'
<1>1. /\ bcall.pc = "target" /\ bcall' = [bcall EXCEPT !.pc = "send"] /\ bcall.outcome = "none"
      /\ onTop' \in BrowserWindows \ {onTop} /\ UNCHANGED <<strips, bfocus, late, bbegun>>
  BY DEF FocusTarget, TabsInv, TabGoes
<1>2. IsBCall(bcall)
  BY DEF TabsInv
<1>3. /\ IsBCall(bcall')
      /\ bcall'.pc = "send" /\ bcall'.outcome = "none" /\ UNCHANGED <<bcall.op, bcall.dir, bcall.tab>>
  BY <1>1, <1>2
<1>4. ASSUME bbegun.clean PROVE Unchanged' /\ Begun' /\ late' = {}
  <2>1. Unchanged /\ Begun /\ late = {}
    BY <1>1, <1>4 DEF TabsInv
  <2>2. Unchanged'
    BY <1>1, <2>1 DEF Unchanged, Tidy, BrowserWindows
  <2>3. bcall.op = "merge" /\ Leaves /\ bcall.tab = ShownTab(StripBefore) /\ onTop = bbegun.window
    BY <1>1, <2>1 DEF Begun
  <2>4. Leaves' /\ StripBefore' = StripBefore
    BY <1>1, <1>3, <2>3, SameBefore
  <2>5. bcall'.op = "merge" /\ bcall'.tab = ShownTab(StripBefore') /\ onTop' # bbegun'.window
    BY <1>1, <1>3, <2>3, <2>4
  <2>. QED
    BY <1>1, <1>3, <2>1, <2>2, <2>4, <2>5 DEF Begun
<1>5. TabsMoveOneStep'
  BY <1>3 DEF TabsMoveOneStep
<1>. QED
  BY <1>1, <1>3, <1>4, <1>5 DEF TabsInv

\* The command ends the operation, which has moved the tab as was decided.
LEMMA CommandSent == ASSUME TabsInv, SendCommand PROVE TabsInv'
<1>1. /\ bcall.pc = "send" /\ bcall' = [bcall EXCEPT !.pc = "idle", !.outcome = "done"] /\ BrowserRuns(TabCommand)
      /\ late' = late /\ \/ bfocus = onTop /\ bbegun' = bbegun
                         \/ bbegun' = [bbegun EXCEPT !.clean = FALSE]
  BY DEF SendCommand, TabEnds, StaysClean, Spoilt
<1>2. /\ IsBCall(bcall)
      /\ IsBegun(bbegun)
  BY DEF TabsInv
<1>3. /\ IsBCall(bcall')
      /\ bcall'.pc = "idle" /\ bcall'.outcome = "done" /\ UNCHANGED <<bcall.op, bcall.dir, bcall.tab>>
  BY <1>1, <1>2
<1>4. IsBegun(bbegun')
  BY <1>1, <1>2
<1>5. CASE bfocus = onTop /\ bbegun' = bbegun
  <2>1. bbegun.clean => late' = {}
    BY <1>1 DEF TabsInv
  <2>2. ASSUME bbegun.clean, bcall.op # "focus" PROVE TabsMoveOneStep'
    <3>. DEFINE x == ShownTab(StripBefore)
                beyond == StripBefore.at + StepTo(bcall.dir)
    <3>1. Unchanged /\ Begun
      BY <1>1, <2>2 DEF TabsInv
    <3>2. IF StepTo(bcall.dir) # 0 /\ SameSide(StripBefore, beyond)
          THEN /\ strips'[bbegun.window].tabs[beyond + 1] = x
               /\ ToSet(StripBefore.tabs) = ToSet(strips'[bbegun.window].tabs)
          ELSE ToSet(strips'[bbegun.window].tabs) = ToSet(StripBefore.tabs) \ {x}
      BY <1>1, <1>5, <2>2, <3>1, SentAsDecided
    <3>. QED
      BY <1>3, <1>5, <3>2, Zenon DEF TabsMoveOneStep, StripBefore, TabsIn
  <2>3. TabsMoveOneStep'
    BY <1>3, <1>5, <2>2 DEF TabsMoveOneStep
  <2>. QED
    BY <1>3, <1>4, <1>5, <2>1, <2>3 DEF TabsInv
<1>6. CASE bbegun' = [bbegun EXCEPT !.clean = FALSE]
  <2>1. ~bbegun'.clean
    BY <1>2, <1>6
  <2>2. TabsMoveOneStep'
    BY <2>1 DEF TabsMoveOneStep
  <2>. QED
    BY <1>3, <1>4, <2>1, <2>2 DEF TabsInv
<1>. QED
  BY <1>1, <1>5, <1>6

\* What spoils an operation, or comes when it is spoilt, leaves nothing to show of it.
LEMMA NotClean ==
  ASSUME IsBCall(bcall'),
         IsBegun(bbegun'), ~bbegun'.clean,
         bcall'.pc = "idle" => bcall'.outcome # "none", bcall'.pc # "idle" => bcall'.outcome = "none"
  PROVE  TabsInv'
BY DEF TabsInv, TabsMoveOneStep

\* A failure, a late command or the user spoils what it disturbs.
LEMMA DisturbedStep == ASSUME TabsInv, CallFails \/ LateCommand \/ UserOfTabs PROVE TabsInv'
<1>1. /\ IsBCall(bcall)
      /\ IsBegun(bbegun)
  BY DEF TabsInv
<1>2. CASE CallFails
  <2>1. bcall' = [bcall EXCEPT !.pc = "idle", !.outcome = "error"] /\ bbegun' = [bbegun EXCEPT !.clean = FALSE]
    BY <1>2 DEF CallFails, TabEnds, Spoilt
  <2>2. /\ IsBCall(bcall')
        /\ bcall'.pc = "idle" /\ bcall'.outcome = "error"
    BY <1>1, <2>1
  <2>3. IsBegun(bbegun') /\ ~bbegun'.clean
    BY <1>1, <2>1
  <2>. QED
    BY <2>2, <2>3, NotClean
<1>3. CASE LateCommand
  <2>1. late # {} /\ UNCHANGED <<bcall, bbegun>>
    BY <1>3 DEF LateCommand
  <2>2. ~bbegun.clean /\ ~(bcall.pc = "idle" /\ bcall.outcome = "none") /\ (bcall.pc # "idle" => bcall.outcome = "none")
    BY <2>1 DEF TabsInv
  <2>. QED
    BY <1>1, <2>1, <2>2, NotClean
<1>4. CASE UserOfTabs
  <2>1. bcall.pc # "idle" /\ bcall' = bcall /\ bbegun' = [bbegun EXCEPT !.clean = FALSE]
    BY <1>4 DEF UserOfTabs, Spoilt
  <2>2. IsBegun(bbegun') /\ ~bbegun'.clean
    BY <1>1, <2>1
  <2>3. bcall.outcome = "none"
    BY <2>1 DEF TabsInv
  <2>. QED
    BY <1>1, <2>1, <2>2, <2>3, NotClean
<1>. QED
  BY <1>2, <1>3, <1>4

\* That the browser hears of the compositor's focus only matters to a merge.
LEMMA BrowserCatchesUp == ASSUME TabsInv, BrowserHears PROVE TabsInv'
<1>1. bfocus # onTop /\ bfocus' = onTop /\ UNCHANGED <<strips, onTop, bcall, late, bbegun>>
  BY DEF BrowserHears
<1>2. ASSUME bcall.pc # "idle", bbegun.clean PROVE Unchanged' /\ Begun'
  <2>1. Unchanged /\ Begun
    BY <1>2 DEF TabsInv
  <2>2. Unchanged'
    BY <1>1, <2>1 DEF Unchanged, Tidy, BrowserWindows
  <2>3. bcall.pc = "send" /\ bcall.op = "merge"
    BY <1>1, <2>1 DEF Begun
  <2>4. StripBefore' = StripBefore /\ (Leaves' <=> Leaves)
    BY <1>1, SameBefore
  <2>5. Begun'
    BY <1>1, <2>1, <2>3, <2>4 DEF Begun
  <2>. QED
    BY <2>2, <2>5
<1>3. TabsMoveOneStep'
  BY <1>1 DEF TabsInv, TabsMoveOneStep, TabsIn
<1>. QED
  BY <1>1, <1>2, <1>3 DEF TabsInv

\* A step of nothing.
LEMMA AtRest == ASSUME TabsInv, UNCHANGED tabVars PROVE TabsInv'
BY DEF tabVars, TabsInv, Unchanged, Begun, StripBefore, Leaves, TabsMoveOneStep, TabsIn, Tidy, BrowserWindows

\* Undisturbed, a tab that is moved goes one place along its strip, among those that are
\* pinned as it is, and leaves its window only if it is the last there (move_decision),
\* whatever the windows show at first.
THEOREM TabsGoOneStep == TabsSpec => []TabsMoveOneStep
<1>1. TabsInit => TabsInv
  BY DEF TabsInit, TabsInv, TabsMoveOneStep, NoBCall
<1>2. TabsInv /\ [TabsNext]_tabVars => TabsInv'
  BY CanFocusAsked, DecisionAsked, AskedAgain, MergePrepared, OperationBegins, TargetFocused, CommandSent,
     DisturbedStep, BrowserCatchesUp, AtRest DEF TabsNext
<1>3. TabsInv => TabsMoveOneStep
  BY DEF TabsInv
<1>. QED
  BY <1>1, <1>2, <1>3, PTL DEF TabsSpec
====
