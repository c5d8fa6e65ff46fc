---- MODULE BrowserBridge ----
(***************************************************************************)
(* The native messaging host between the browser adapters and the browser  *)
(* extension (src/src/adapters/apps/librewolf.rs, native_bridge).  A call  *)
(* of an adapter connects to the host's socket; a handler thread numbers   *)
(* it, enters it in the pending table, writes it to the extension and      *)
(* waits for the answer.  A reader thread matches the extension's answers  *)
(* with the table.  The threads, the callers and the extension interleave; *)
(* every timeout may fire as soon as its clock runs; the extension may     *)
(* answer late, never or nonsense, and it, or the host, may go away.       *)
(*                                                                         *)
(* A command is the call that carries it.  MaxStarts bounds the number of  *)
(* host processes started one after the other.                             *)
(***************************************************************************)
EXTENDS Naturals, Sequences

CONSTANTS Call,      \* calls of the adapters
          Before,    \* pairs <<d, c>>: the process that makes c makes d first
          MaxStarts  \* bound on the host processes

ASSUME BeforeAssumption == Before \subseteq Call \X Call

VARIABLES
  client,   \* what each caller knows of its call
  source,   \* the calls whose answer each caller has been given
  handler,  \* where the thread that serves a call is
  ids,      \* the number of each call in this host process, 0 before it has one
  nextId,   \* HostState.next_id
  pending,  \* HostState.pending: the number and the call whose channel it leads to
  chan,     \* what waits in each call's channel
  requests, \* the host's stdout: commands on their way to the extension
  replies,  \* answers on their way to the host
  done,     \* the commands the browser has run
  lost,     \* the commands of which, or of whose answer, nothing will come any more
  ext,      \* the extension's end of the pipes
  running,  \* HostState.running
  reader,   \* the thread of read_extension_loop
  main,     \* the accept loop
  starts    \* host processes started

callers == <<client, source>>
threads == <<handler, ids, chan>>
host    == <<nextId, pending, running, reader, main, starts>>
pipes   == <<requests, replies, done, lost, ext>>
vars    == <<client, source, handler, ids, nextId, pending, chan, requests,
             replies, done, lost, ext, running, reader, main, starts>>

Answer == [of : Call, verdict : {"ok", "failed"}]
Request == [id : Nat, call : Call]
Reply == [id : Nat, call : Call, verdict : {"ok", "failed"}]

Init == /\ client = [c \in Call |-> "idle"]
        /\ source = [c \in Call |-> {}]
        /\ handler = [c \in Call |-> "none"]
        /\ ids = [c \in Call |-> 0]
        /\ nextId = 1
        /\ pending = {}
        /\ chan = [c \in Call |-> {}]
        /\ requests = <<>>
        /\ replies = {}
        /\ done = {}
        /\ lost = {}
        /\ ext = "up"
        /\ running = TRUE
        /\ reader = "reading"
        /\ main = "serving"
        /\ starts = 1

Ended(c) == client[c] \in {"refused", "ok", "failed"}

-----------------------------------------------------------------------------
(* The caller: request *)

\* A process makes its calls one after the other.
MayCall(c) == /\ client[c] = "idle"
              /\ \A d \in Call : <<d, c>> \in Before => Ended(d)

\* The listener exists as long as the process: a call may still be queued
\* when nobody accepts it any more.
Connect(c) == /\ MayCall(c)
              /\ main # "exited"
              /\ client' = [client EXCEPT ![c] = "waiting"]
              /\ handler' = [handler EXCEPT ![c] = "queued"]
              /\ UNCHANGED <<source, ids, chan, host, pipes>>

ConnectRefused(c) == /\ MayCall(c)
                     /\ main = "exited"
                     /\ client' = [client EXCEPT ![c] = "refused"]
                     /\ UNCHANGED <<source, threads, host, pipes>>

\* SOCKET_IO_TIMEOUT; the handler is not told.
GiveUp(c) == /\ client[c] = "waiting"
             /\ client' = [client EXCEPT ![c] = "failed"]
             /\ UNCHANGED <<source, threads, host, pipes>>

\* The process that served the call is gone: the socket is closed.
EndOfStream(c) == /\ client[c] = "waiting"
                  /\ handler[c] = "dead"
                  /\ client' = [client EXCEPT ![c] = "failed"]
                  /\ UNCHANGED <<source, threads, host, pipes>>

-----------------------------------------------------------------------------
(* The handler thread: handle_local_client and dispatch *)

Accept(c) == /\ main = "serving"
             /\ running
             /\ handler[c] = "queued"
             /\ handler' = [handler EXCEPT ![c] = "reading"]
             /\ UNCHANGED <<callers, ids, chan, host, pipes>>

NextNumberUnchanged == nextId
NextNumber == nextId + 1

Number(c) == /\ handler[c] = "reading"
             /\ handler' = [handler EXCEPT ![c] = "numbered"]
             /\ ids' = [ids EXCEPT ![c] = nextId]
             /\ nextId' = NextNumber
             /\ UNCHANGED <<callers, chan, pending, running, reader, main, starts, pipes>>

Enter(c) == /\ handler[c] = "numbered"
            /\ handler' = [handler EXCEPT ![c] = "entered"]
            /\ pending' = pending \union {[id |-> ids[c], call |-> c]}
            /\ UNCHANGED <<callers, ids, chan, nextId, running, reader, main, starts, pipes>>

QueuedFirst(c) == <<[id |-> ids[c], call |-> c]>> \o requests
Queued(c) == Append(requests, [id |-> ids[c], call |-> c])

\* stdout is written under its lock: requests do not mix.
Write(c) == /\ handler[c] = "entered"
            /\ ext # "gone"
            /\ requests' = Queued(c)
            /\ handler' = [handler EXCEPT ![c] = "waiting"]
            /\ UNCHANGED <<callers, ids, chan, host, replies, done, lost, ext>>

\* The pipe may be broken while the extension still answers what it has.
WriteFails(c) == /\ handler[c] = "entered"
                 /\ handler' = [handler EXCEPT ![c] = "withdrawing"]
                 /\ UNCHANGED <<callers, ids, chan, host, pipes>>

WithoutKept(c) == pending
Without(c) == {p \in pending : p.id # ids[c]}

Withdraw(c) == /\ handler[c] = "withdrawing"
               /\ pending' = Without(c)
               /\ handler' = [handler EXCEPT ![c] = "answering"]
               /\ chan' = [chan EXCEPT ![c] = {[of |-> c, verdict |-> "failed"]}]
               /\ UNCHANGED <<callers, ids, nextId, running, reader, main, starts, pipes>>

Receive(c) == /\ handler[c] = "waiting"
              /\ chan[c] # {}
              /\ handler' = [handler EXCEPT ![c] = "answering"]
              /\ UNCHANGED <<callers, ids, chan, host, pipes>>

NeverTimesOut(c) == FALSE
\* REQUEST_TIMEOUT: the entry of the pending table stays.
TimesOut(c) == handler[c] = "waiting" /\ chan[c] = {}

Timeout(c) == /\ TimesOut(c)
              /\ handler' = [handler EXCEPT ![c] = "answering"]
              /\ chan' = [chan EXCEPT ![c] = {[of |-> c, verdict |-> "failed"]}]
              /\ UNCHANGED <<callers, ids, host, pipes>>

\* The answer is written; a caller that gave up does not see it.
Respond(c) ==
  \E a \in chan[c] :
    /\ handler[c] = "answering"
    /\ handler' = [handler EXCEPT ![c] = "done"]
    /\ client' = [client EXCEPT ![c] = IF @ = "waiting" THEN a.verdict ELSE @]
    /\ source' = [source EXCEPT ![c] = IF client[c] = "waiting" THEN {a.of} ELSE @]
    /\ chan' = [chan EXCEPT ![c] = {}]
    /\ UNCHANGED <<ids, host, pipes>>

-----------------------------------------------------------------------------
(* The extension and the browser *)

Arrives == Head(requests)

InPipe(c) == \E i \in 1..Len(requests) : requests[i].call = c

Answers(verdict) ==
  /\ replies' = replies \union {[id |-> Arrives.id, call |-> Arrives.call, verdict |-> verdict]}
  /\ UNCHANGED lost
LosesAnswer == lost' = lost \union {Arrives.call} /\ UNCHANGED replies

\* The extension takes the next command, and runs or rejects it; it says so, or its
\* answer is lost.
ExtRuns == /\ ext = "up"
           /\ requests # <<>>
           /\ requests' = Tail(requests)
           /\ done' = done \union {Arrives.call}
           /\ Answers("ok") \/ LosesAnswer
           /\ UNCHANGED <<callers, threads, host, ext>>

ExtRejects == /\ ext = "up"
              /\ requests # <<>>
              /\ requests' = Tail(requests)
              /\ Answers("failed") \/ LosesAnswer
              /\ UNCHANGED <<callers, threads, host, done, ext>>

\* The browser or its extension goes away, with the commands it had not taken.
ExtGoes == /\ ext # "gone"
           /\ ext' = "gone"
           /\ requests' = <<>>
           /\ lost' = lost \union {c \in Call : InPipe(c)}
           /\ UNCHANGED <<callers, threads, host, replies, done>>

\* A reply that does not parse.
ExtGarbles == /\ ext = "up"
              /\ ext' = "garbled"
              /\ UNCHANGED <<callers, threads, host, requests, replies, done, lost>>

-----------------------------------------------------------------------------
(* The reader thread and the accept loop: run_native_host *)

\* A handler listens to its channel until it has an answer or gives up.
Listening(c) == handler[c] \in {"entered", "waiting"}

\* The channel of the entry with the reply's number, if there is one.
Delivered(r) == [c \in Call |->
                   IF [id |-> r.id, call |-> c] \in pending /\ Listening(c)
                   THEN {[of |-> r.call, verdict |-> r.verdict]}
                   ELSE chan[c]]

AnsweredKept(r) == pending
Answered(r) == {p \in pending : p.id # r.id}

\* handle_response
Read(r) == /\ reader = "reading"
           /\ r \in replies
           /\ replies' = replies \ {r}
           /\ chan' = Delivered(r)
           /\ pending' = Answered(r)
           /\ UNCHANGED <<callers, handler, ids, nextId, running, reader, main, starts,
                          requests, done, lost, ext>>

\* End of file comes after every reply, nonsense at any time.
ReaderEnds == /\ reader = "reading"
              /\ ext = "garbled" \/ (ext = "gone" /\ replies = {})
              /\ running' = FALSE
              /\ reader' = "stopping"
              /\ UNCHANGED <<callers, threads, nextId, pending, main, starts, pipes>>

FailedAllAsDone == [c \in Call |->
                      IF (\E p \in pending : p.call = c) /\ Listening(c)
                      THEN {[of |-> c, verdict |-> "ok"]}
                      ELSE chan[c]]

\* fail_all_pending: every entry's channel is told, and the table is empty.
FailedAll == [c \in Call |->
                IF (\E p \in pending : p.call = c) /\ Listening(c)
                THEN {[of |-> c, verdict |-> "failed"]}
                ELSE chan[c]]

ReaderStops == /\ reader = "stopping"
               /\ reader' = "done"
               /\ chan' = FailedAll
               /\ pending' = {}
               /\ UNCHANGED <<callers, handler, ids, nextId, running, main, starts, pipes>>

\* accept fails: stop, and the error ends the process.
AcceptFails == /\ main = "serving"
               /\ running
               /\ running' = FALSE
               /\ main' = "failing"
               /\ UNCHANGED <<callers, threads, nextId, pending, reader, starts, pipes>>

AcceptStops == /\ main = "failing"
               /\ main' = "leaving"
               /\ chan' = FailedAll
               /\ pending' = {}
               /\ UNCHANGED <<callers, handler, ids, nextId, running, reader, starts, pipes>>

\* The loop ends and waits for the reader.
LoopEnds == ~running /\ reader = "done"

MainJoins == /\ main = "serving"
             /\ LoopEnds
             /\ main' = "leaving"
             /\ UNCHANGED <<callers, threads, nextId, pending, running, reader, starts, pipes>>

\* The process is gone, with its threads, its listener and its pipes.
Exit == /\ main = "leaving"
        /\ main' = "exited"
        /\ handler' = [c \in Call |-> IF handler[c] \in {"none", "done"}
                                      THEN handler[c] ELSE "dead"]
        /\ requests' = <<>>
        /\ replies' = {}
        /\ ext' = "gone"
        /\ ids' = [c \in Call |-> 0]
        /\ chan' = [c \in Call |-> {}]
        /\ pending' = {}
        /\ running' = FALSE
        /\ reader' = "done"
        /\ UNCHANGED <<callers, done, lost, nextId, starts>>

\* The browser starts the host again; bind_socket removes the stale socket.
Start == /\ main = "exited"
         /\ starts < MaxStarts
         /\ main' = "serving"
         /\ reader' = "reading"
         /\ running' = TRUE
         /\ ext' = "up"
         /\ nextId' = 1
         /\ starts' = starts + 1
         /\ UNCHANGED <<callers, threads, pending, requests, replies, done, lost>>

-----------------------------------------------------------------------------
Handler(c) == \/ Accept(c) \/ Number(c) \/ Enter(c) \/ Write(c) \/ WriteFails(c)
              \/ Withdraw(c) \/ Receive(c) \/ Timeout(c) \/ Respond(c)

Caller(c) == Connect(c) \/ ConnectRefused(c) \/ GiveUp(c) \/ EndOfStream(c)

Extension == ExtRuns \/ ExtRejects \/ ExtGoes \/ ExtGarbles

Stop == ReaderEnds \/ ReaderStops \/ AcceptStops \/ MainJoins \/ Exit

Next == \/ \E c \in Call : Caller(c) \/ Handler(c)
        \/ \E r \in replies : Read(r)
        \/ Extension \/ Stop \/ AcceptFails \/ Start

Spec == Init /\ [][Next]_vars

\* The threads of a process run.  Nothing is assumed of the extension, nor of
\* the caller's own timeout.
Fairness == /\ \A c \in Call : WF_vars(Handler(c))
            /\ WF_vars(Stop)
            /\ WF_vars(\E r \in replies : Read(r))

FairSpec == Spec /\ Fairness

-----------------------------------------------------------------------------
TypeOK ==
  /\ client \in [Call -> {"idle", "waiting", "refused", "ok", "failed"}]
  /\ source \in [Call -> SUBSET Call]
  /\ handler \in [Call -> {"none", "queued", "reading", "numbered", "entered", "waiting",
                           "withdrawing", "answering", "done", "dead"}]
  /\ ids \in [Call -> Nat]
  /\ nextId \in Nat \ {0}
  /\ pending \subseteq Request
  /\ chan \in [Call -> SUBSET Answer]
  /\ requests \in Seq(Request)
  /\ replies \subseteq Reply
  /\ done \subseteq Call
  /\ lost \subseteq Call
  /\ ext \in {"up", "garbled", "gone"}
  /\ running \in BOOLEAN
  /\ reader \in {"reading", "stopping", "done"}
  /\ main \in {"serving", "failing", "leaving", "exited"}
  /\ starts \in Nat

\* A caller is only ever given the answer to its own command: numbers are
\* unique among the threads, and an answer that comes after its handler's
\* timeout, or after a restart, reaches nobody (dispatch, handle_response).
AnswersMatch == \A c \in Call : source[c] \subseteq {c}

\* The host behaves as RemoteCalls says: commands run at most once, and only
\* commands that have run are reported as done, whatever stops or times out.
Calls == INSTANCE RemoteCalls WITH status <- client

CarriesCalls == Calls!Spec

\* An entry of the pending table is there for a handler about to write or to withdraw
\* it, or its command or the answer is on its way, or the browser has lost one of them:
\* a request that could not be written, and one that was answered, leave nothing behind,
\* also once the extension is gone (dispatch's removal, handle_response's).  That an
\* entry whose answer was lost stays until the host stops is what the code does.
PendingIsOwed ==
  \A p \in pending :
    \/ handler[p.call] \in {"entered", "withdrawing"}
    \/ InPipe(p.call)
    \/ \E r \in replies : r.id = p.id
    \/ p.call \in lost

\* A command whose caller was told that it failed may still be on its way,
\* but no later command of that caller overtakes it (write_request's lock and
\* the pipe's order).  Of a caller that gave up by itself nothing is known.
LateNeverOvertaken ==
  [][\A d, c \in Call :
       /\ <<d, c>> \in Before
       /\ source[d] # {}
       /\ c \in done' \ done
       => ~ \E i \in 1..Len(requests') : requests'[i].call = d]_vars

\* Every accepted call is answered or the process ends, though the extension
\* may never answer and stop may empty the table just before a call enters it
\* (recv_timeout).
HandlersEnd ==
  \A c \in Call : handler[c] = "reading" ~> handler[c] \in {"done", "dead"}

====
