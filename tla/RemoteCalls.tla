---- MODULE RemoteCalls ----
(***************************************************************************)
(* What the browser adapters may assume of a call to the browser, however  *)
(* it is carried: the browser runs a command at most once, never before    *)
(* the call is made nor after a refusal, and "ok" is only said of a        *)
(* command that has run.  A failed call says nothing: its command may have *)
(* run, may run later, or never.                                           *)
(***************************************************************************)
CONSTANT Call

VARIABLES status, \* what the caller knows of each call
          done    \* the calls whose command the browser has run

vars == <<status, done>>

Status == {"idle", "waiting", "refused", "ok", "failed"}

Init == /\ status = [c \in Call |-> "idle"]
        /\ done = {}

Make(c) == /\ status[c] = "idle"
           /\ status' = [status EXCEPT ![c] = "waiting"]
           /\ UNCHANGED done

Refuse(c) == /\ status[c] = "idle"
             /\ status' = [status EXCEPT ![c] = "refused"]
             /\ UNCHANGED done

Run(c) == /\ status[c] \notin {"idle", "refused"}
          /\ c \notin done
          /\ done' = done \union {c}
          /\ UNCHANGED status

Succeed(c) == /\ status[c] = "waiting"
              /\ c \in done
              /\ status' = [status EXCEPT ![c] = "ok"]
              /\ UNCHANGED done

Fail(c) == /\ status[c] = "waiting"
           /\ status' = [status EXCEPT ![c] = "failed"]
           /\ UNCHANGED done

Next == \E c \in Call : Make(c) \/ Refuse(c) \/ Run(c) \/ Succeed(c) \/ Fail(c)

Spec == Init /\ [][Next]_vars
====
