--------------------------- MODULE DeviceRegistry ---------------------------
(***************************************************************************)
(* What the Server class promises about its two session maps, without the  *)
(* weak pointers, coroutines and timers it is built from: the set of live  *)
(* links, at most one for each remote endpoint and at most one for each    *)
(* device that has been identified (Server.h: "una sesion por              *)
(* dispositivo").  Server.tla implements this specification.               *)
(***************************************************************************)
CONSTANTS
  Sessions,   \* identities of the Session objects
  Endpoints,  \* remote "ip:port" keys
  Devices,    \* concentrator and meter codes
  None        \* a link whose device is not identified yet

VARIABLE links  \* the live links, [session, endpoint, device]

Link(s, e, m) == [session |-> s, endpoint |-> e, device |-> m]

Init == links = {}

\* A new connection takes its endpoint over from whoever held it.
Open(s, e) ==
  /\ \A l \in links : l.session # s
  /\ links' = {l \in links : l.endpoint # e} \union {Link(s, e, None)}

\* A live session is identified as device m: every other link of m goes, and
\* with it at most one link that was m's before it took another identity.
Claim(s, m) ==
  \E mine \in links, stale \in (Sessions \ {s}) \union {None} :
    /\ mine.session = s
    /\ links' = {l \in links : l.session \notin {s, stale} /\ l.device # m}
                  \union {Link(s, mine.endpoint, m)}

\* Connections end: the peer leaves, a read fails, a duplicate is closed.
Lose == links' \in SUBSET links

Next ==
  \/ \E s \in Sessions, e \in Endpoints : Open(s, e)
  \/ \E s \in Sessions, m \in Devices : Claim(s, m)
  \/ Lose

Spec == Init /\ [][Next]_links
=============================================================================
