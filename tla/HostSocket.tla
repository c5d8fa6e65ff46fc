---- MODULE HostSocket ----
(***************************************************************************)
(* The socket by which callers find the browser's native host (bind_socket *)
(* and run_native_host in adapters/apps/librewolf.rs).  A browser starts   *)
(* its host anew, another one its own; a host leaves the socket behind, so *)
(* that the next looks for it, asks who is behind it, removes it and binds *)
(* its own, in four steps.  What a host serves is BrowserBridge's.         *)
(***************************************************************************)
EXTENDS Integers

CONSTANTS BHost, MaxBStarts \* hosts, and how often each starts

ASSUME SocketAssumption == "none" \notin BHost /\ "stale" \notin BHost

VARIABLES
  path,     \* the socket's file: "none", "stale" or the host that bound it
  hosts,    \* [BHost -> what it does, and how often it has started]
  raced     \* history: two hosts were starting at once

socketVars == <<path, hosts, raced>>

DoesOf(h) == hosts[h].does
HostGoes(h, does) == hosts' = [hosts EXCEPT ![h].does = does]
Starting == {h \in BHost : DoesOf(h) \in {"look", "probe", "remove", "bind"}}

StartHost(h) ==
  /\ DoesOf(h) = "gone" /\ hosts[h].starts < MaxBStarts
  /\ hosts' = [hosts EXCEPT ![h] = [does |-> "look", starts |-> @.starts + 1]]
  /\ raced' = (raced \/ Starting # {}) /\ UNCHANGED path
LookForSocket(h) ==
  /\ DoesOf(h) = "look" /\ HostGoes(h, IF path = "none" THEN "bind" ELSE "probe")
  /\ UNCHANGED <<path, raced>>
\* A socket that nobody is behind refuses; so does one that has gone.
RemovesUnasked(h) == HostGoes(h, "remove")
ProbesSocket(h) == HostGoes(h, IF path \in BHost THEN "gone" ELSE "remove")
ProbeSocket(h) == DoesOf(h) = "probe" /\ ProbesSocket(h) /\ UNCHANGED <<path, raced>>
RemoveSocket(h) ==
  /\ DoesOf(h) = "remove"
  /\ IF path = "none" THEN HostGoes(h, "gone") /\ UNCHANGED path ELSE HostGoes(h, "bind") /\ path' = "none"
  /\ UNCHANGED raced
BindSocket(h) ==
  /\ DoesOf(h) = "bind"
  /\ IF path = "none" THEN HostGoes(h, "serves") /\ path' = h ELSE HostGoes(h, "gone") /\ UNCHANGED path
  /\ UNCHANGED raced
\* A host ends, or is killed: the file stays.
EndHost(h) ==
  /\ DoesOf(h) # "gone" /\ HostGoes(h, "gone")
  /\ path' = IF path = h THEN "stale" ELSE path
  /\ UNCHANGED raced

HostNext == \E h \in BHost :
  \/ StartHost(h) \/ LookForSocket(h) \/ ProbeSocket(h) \/ RemoveSocket(h) \/ BindSocket(h) \/ EndHost(h)

SocketInit ==
  /\ path = "none" /\ raced = FALSE
  /\ hosts = [h \in BHost |-> [does |-> "gone", starts |-> 0]]

SocketSpec == SocketInit /\ [][HostNext]_socketVars

Does == {"gone", "look", "probe", "remove", "bind", "serves"}
SocketTypeOK == /\ path \in BHost \cup {"none", "stale"} /\ raced \in BOOLEAN
                /\ hosts \in [BHost -> [does : Does, starts : Nat]]

(* A client that connects reaches a host as long as one serves, unless two *)
(* were starting at once: then the one may remove what the other has just  *)
(* bound (bind_socket).                                                    *)
SocketLeadsToHost == ~raced => \A h \in BHost : DoesOf(h) = "serves" => path = h
====
