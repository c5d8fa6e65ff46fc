---- MODULE MC_BrowserBridge ----
(***************************************************************************)
(* A browser and its native host: two calls of one process through the     *)
(* host, or two hosts that start, or an operation on the tabs.  None needs *)
(* the state of another, so a behaviour is one of them.                    *)
(***************************************************************************)
EXTENDS BrowserBridge, BrowserTabs, HostSocket, NativeMessages

CONSTANTS a1, a2

\* A call returns when its answer has come or when it has waited long enough, so that
\* the host may still be busy with the first when the second comes.
TwoInTurn == {<<a1, a2>>}

\* A window of up to three tabs, some pinned, with or without a second one, and a
\* third that may open.
StripsOf(n) == {[tabs |-> [i \in 1..n |-> i], pinned |-> p, at |-> a] : p \in 0..n, a \in 0..n - 1}
TheStrips0 == {<<s, t, EmptyStrip>> : s \in UNION {StripsOf(n) : n \in 1..3}, t \in {EmptyStrip, LoneTab(4)}}

\* The tab next to the active one is where focus goes; a move goes there or nowhere.
ASSUME IndicesInStrip ==
  \A n \in 1..5 : \A s \in StripsOf(n), d \in {"west", "east", "north", "south"} :
    /\ FocusTargetIndex(s, d) = ({s.at + StepTo(d)} \cap 0..n - 1) \ {s.at}
    /\ MoveTargetIndex(s, d) \subseteq FocusTargetIndex(s, d)

\* However a stream of messages is cut off, what is read of it are the first of them
\* as they were; it is an error just if the cut is within a body.
Bodies == UNION {[1..n -> {0}] : n \in {0, 1, 2, Base^Width - 1}} \cup {<<1, 0>>}
ReadsOn(stream) ==
  LET at[i \in 0..3] == IF i = 0 THEN [kind |-> "message", body |-> <<>>, rest |-> stream] ELSE ReadMessage(at[i - 1].rest)
      n == CHOOSE i \in 1..3 : at[i].kind # "message" /\ \A j \in 1..(i - 1) : at[j].kind = "message"
  IN  [bodies |-> [j \in 1..(n - 1) |-> at[j].body], kind |-> at[n].kind]
ASSUME MessagesArrive ==
  \A first, second \in Bodies :
    LET stream == Written(first) \o Written(second)  one == Len(Written(first))
    IN  \A cut \in 0..Len(stream) :
          LET read == ReadsOn(SubSeq(stream, 1, cut))
              whole == IF cut = Len(stream) THEN <<first, second>> ELSE IF cut >= one THEN <<first>> ELSE <<>>
              into == IF cut >= one THEN cut - one ELSE cut
          IN  /\ read.bodies = whole
              /\ read.kind = "error" <=> cut # Len(stream) /\ cut # one /\ into >= Width
\* What the length cannot say is refused, not cut short.
ASSUME LongIsRefused == /\ TooLong([i \in 1..(Base^Width) |-> 0])
                        /\ \A n \in 0..(Base^Width - 1) : LengthOf(LengthBytes(n)) = n

VARIABLE part \* which of the three runs in this behaviour

TabsWait ==
  /\ strips = CHOOSE s \in Strips0 : TabCount(s[1]) = 1 /\ s[2] = EmptyStrip
  /\ TabsInit
BrowserInit == /\ Init /\ SocketInit
               /\ \/ part \in {"calls", "hosts"} /\ TabsWait
                  \/ part = "tabs" /\ TabsInit

CallsAlone == part = "calls" /\ Next /\ UNCHANGED <<tabVars, socketVars>>
TabsAlone == part = "tabs" /\ TabsNext /\ UNCHANGED <<vars, socketVars>>
HostsAlone == part = "hosts" /\ HostNext /\ UNCHANGED <<vars, tabVars>>

BrowserSpec == /\ BrowserInit
               /\ [][(CallsAlone \/ TabsAlone \/ HostsAlone) /\ UNCHANGED part]_<<part, vars, tabVars, socketVars>>
               /\ Fairness
====
