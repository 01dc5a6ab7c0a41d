----------------------------- MODULE TunnelProxy -----------------------------
(***************************************************************************)
(* The tunnel proxy (package tunnelproxy) and a kite behind it, which runs *)
(* RegisterToProxy (kontrolclient.go) and serves kite.tunnel (handlers.go).*)
(*                                                                         *)
(* A session is a public client's connection to /proxy; its handleProxy    *)
(* makes a tunnel and asks the kite to dial /tunnel with a token naming    *)
(* the kite and the tunnel's number; handleTunnel then joins both.  The    *)
(* kite's connections to the proxy are numbered; the PrivateKite made by   *)
(* the register request of connection n is called n.  The proxy's maps     *)
(* have no lock; a step that reads or writes one is atomic here.           *)
(***************************************************************************)
EXTENDS Naturals

CONSTANTS
    Clients,
    NoClient,
    MaxConns     \* bound: connections the kite makes to the proxy

ASSUME ProxyAssumption == MaxConns \in Nat \ {0} /\ NoClient \notin Clients

VARIABLES
    kite,        \* where RegisterToProxy is
    current,     \* the connection it made last
    link,        \* every connection: "gone" once the proxy's OnDisconnect ran
    register,    \* the register request of every connection, at the proxy
    entry,       \* p.kites[kite ID]: a PrivateKite, 0 if there is none
    seq,         \* PrivateKite.seq
    tunnel,      \* the tunnel of every session: its PrivateKite and number
    tunnels,     \* sessions whose tunnel is in the map of its PrivateKite
    started,     \* sessions whose tunnel's startChan is closed
    closed,      \* sessions whose tunnel's closeChan is closed
    open,        \* sessions whose public connection is open
    proxy,       \* handleProxy of every session
    dial,        \* kite.tunnel and handleTunnel for every session
    joined,      \* the session whose tunnel that handleTunnel found
    server       \* "up", "closed" by Close, or "crashed" by a panic

kiteVars == <<kite, current, link, register>>
tunnelVars == <<tunnel, tunnels, started, closed, open>>
dialVars == <<dial, joined>>
proxyVars == <<kiteVars, entry, seq, tunnelVars, proxy, dialVars, server>>

Conns == 1..MaxConns

ProxyTypeOK ==
    /\ kite \in {"dial", "registering", "registered"}
    /\ current \in 0..MaxConns
    /\ link \in [Conns -> {"none", "up", "broken", "gone"}]
    /\ register \in [Conns -> {"none", "called", "named", "handled"}]
    /\ entry \in 0..MaxConns
    /\ seq \in [Conns -> Nat]
    /\ tunnel \in [Clients -> [kite : 0..MaxConns, id : Nat]]
    /\ tunnels \subseteq Clients /\ started \subseteq Clients
    /\ closed \subseteq Clients /\ open \subseteq Clients
    /\ proxy \in [Clients -> {"none", "tell", "wait", "done"}]
    /\ dial \in [Clients -> {"none", "asked", "dialed", "joined", "ended"}]
    /\ joined \in [Clients -> Clients \cup {NoClient}]
    /\ server \in {"up", "closed", "crashed"}

ProxyInit ==
    /\ kite = "dial" /\ current = 0
    /\ link = [n \in Conns |-> "none"] /\ register = [n \in Conns |-> "none"]
    /\ entry = 0 /\ seq = [n \in Conns |-> 0]
    /\ tunnel = [s \in Clients |-> [kite |-> 0, id |-> 0]]
    /\ tunnels = {} /\ started = {} /\ closed = {} /\ open = {}
    /\ proxy = [s \in Clients |-> "none"]
    /\ dial = [s \in Clients |-> "none"]
    /\ joined = [s \in Clients |-> NoClient]
    /\ server = "up"

-----------------------------------------------------------------------------
(* RegisterToProxy and registerToProxyKite. *)

(* Dial, and Tell("register"); before each attempt the kite sleeps. *)
KiteDials ==
    /\ kite = "dial" /\ current < MaxConns /\ server = "up"
    /\ kite' = "registering" /\ current' = current + 1
    /\ link' = [link EXCEPT ![current + 1] = "up"]
    /\ register' = [register EXCEPT ![current + 1] = "called"]
    /\ UNCHANGED <<entry, seq, tunnelVars, proxy, dialVars, server>>

(* The answer arrives; the URL goes to registerChan. *)
RegisterAnswered ==
    /\ kite = "registering" /\ register[current] = "handled" /\ link[current] = "up"
    /\ kite' = "registered"
    /\ UNCHANGED <<current, link, register, entry, seq, tunnelVars, proxy, dialVars, server>>

(* An error, or the timeout: the kite closes the connection and retries. *)
RegisterFails ==
    /\ kite = "registering"
    /\ kite' = "dial"
    /\ link' = [link EXCEPT ![current] = IF @ = "up" THEN "broken" ELSE @]
    /\ UNCHANGED <<current, register, entry, seq, tunnelVars, proxy, dialVars, server>>

LinkBreaks(n) ==
    /\ link[n] = "up"
    /\ link' = [link EXCEPT ![n] = "broken"]
    /\ UNCHANGED <<kite, current, register, entry, seq, tunnelVars, proxy, dialVars, server>>

(* <-disconnect, and the loop starts over. *)
KiteSeesDisconnect ==
    /\ kite = "registered" /\ link[current] # "up"
    /\ kite' = "dial"
    /\ UNCHANGED <<current, link, register, entry, seq, tunnelVars, proxy, dialVars, server>>

-----------------------------------------------------------------------------
(* The proxy's end of the kite's connections. *)

(* The goroutine of the register request, which may run before or after    *)
(* the disconnect: newRequest sets c.Kite, and with it the ID.             *)
NewRequest(n) ==
    /\ register[n] = "called"
    /\ register' = [register EXCEPT ![n] = "named"]
    /\ UNCHANGED <<kite, current, link, entry, seq, tunnelVars, proxy, dialVars, server>>

(* handleRegister makes a PrivateKite. *)
HandleRegister(n) ==
    /\ register[n] = "named"
    /\ register' = [register EXCEPT ![n] = "handled"]
    /\ entry' = n
    /\ UNCHANGED <<kite, current, link, seq, tunnelVars, proxy, dialVars, server>>

(* OnDisconnect: delete(p.kites, r.Kite.ID), whichever PrivateKite that    *)
(* is; before the first request r.Kite has no ID.                          *)
OnDisconnect(n) ==
    /\ link[n] = "broken"
    /\ link' = [link EXCEPT ![n] = "gone"]
    /\ entry' = IF register[n] \in {"named", "handled"} THEN 0 ELSE entry
    /\ UNCHANGED <<kite, current, register, seq, tunnelVars, proxy, dialVars, server>>

-----------------------------------------------------------------------------
(* Tunnels. *)

(* Tunnel.Close: once, under closedMutex. *)
CloseTunnel(S) ==
    /\ closed' = closed \cup S
    /\ open' = open \ S

(* Mutant: the number of a tunnel is read and written back, not added to. *)
SameNumber(n) == IF seq[n] = 0 THEN 1 ELSE seq[n]

(* atomic.AddUint64(&k.seq, 1) *)
NextNumber(n) == seq[n] + 1

(* handleProxy: newTunnel, and kite.tunnel with its token.  Without an     *)
(* entry for the kite the session is closed at once.                       *)
HandleProxy(s) ==
    /\ proxy[s] = "none" /\ entry # 0 /\ server = "up"
    /\ proxy' = [proxy EXCEPT ![s] = "tell"]
    /\ seq' = [seq EXCEPT ![entry] = NextNumber(entry)]
    /\ tunnel' = [tunnel EXCEPT ![s] = [kite |-> entry, id |-> NextNumber(entry)]]
    /\ tunnels' = tunnels \cup {s} /\ open' = open \cup {s}
    /\ dial' = [dial EXCEPT ![s] = IF link[entry] = "up" THEN "asked" ELSE "none"]
    /\ UNCHANGED <<kiteVars, entry, started, closed, joined, server>>

(* The kite answers once its dial has succeeded. *)
TunnelAnswered(s) ==
    /\ proxy[s] = "tell" /\ dial[s] \in {"dialed", "joined", "ended"}
    /\ proxy' = [proxy EXCEPT ![s] = "wait"]
    /\ UNCHANGED <<kiteVars, entry, seq, tunnelVars, dialVars, server>>

(* TellWithTimeout gives an error or has waited 4 seconds. *)
TunnelRefused(s) ==
    /\ proxy[s] = "tell"
    /\ proxy' = [proxy EXCEPT ![s] = "done"]
    /\ CloseTunnel({s})
    /\ UNCHANGED <<kiteVars, entry, seq, tunnel, tunnels, started, dialVars, server>>

(* Once it has started, handleProxy waits until the tunnel is closed. *)
CloseNotify(s) ==
    /\ proxy[s] = "wait" /\ s \in started /\ s \in closed
    /\ proxy' = [proxy EXCEPT ![s] = "done"]
    /\ UNCHANGED <<kiteVars, entry, seq, tunnelVars, dialVars, server>>

(* Nothing has started the tunnel within a minute. *)
StartTimeout(s) ==
    /\ proxy[s] = "wait" /\ s \notin started
    /\ proxy' = [proxy EXCEPT ![s] = "done"]
    /\ CloseTunnel({s})
    /\ UNCHANGED <<kiteVars, entry, seq, tunnel, tunnels, started, dialVars, server>>

(* The goroutine newTunnel leaves behind. *)
RemoveTunnel(s) ==
    /\ s \in tunnels \cap closed
    /\ tunnels' = tunnels \ {s}
    /\ UNCHANGED <<kiteVars, entry, seq, tunnel, started, closed, open, proxy, dialVars, server>>

(* The kite's handleTunnel dials the proxy, also when the proxy no longer  *)
(* waits for the answer; or the dial fails.                                *)
KiteDialsTunnel(s) ==
    /\ dial[s] = "asked" /\ server = "up"
    /\ dial' = [dial EXCEPT ![s] = "dialed"]
    /\ UNCHANGED <<kiteVars, entry, seq, tunnelVars, proxy, joined, server>>

KiteDialFails(s) ==
    /\ dial[s] = "asked"
    /\ dial' = [dial EXCEPT ![s] = "none"]
    /\ UNCHANGED <<kiteVars, entry, seq, tunnelVars, proxy, joined, server>>

(* The proxy's handleTunnel looks the token up among the tunnels of the    *)
(* PrivateKite there is now.                                               *)
Found(s) ==
    {t \in tunnels : tunnel[t].kite = entry /\ tunnel[t].id = tunnel[s].id}

(* Tunnel.Run begins with close(t.startChan), which panics the second time. *)
CanRun(t) == t \notin started

HandleTunnel(s) ==
    /\ dial[s] = "dialed" /\ entry # 0
    /\ \E t \in Found(s) :
          /\ CanRun(t)
          /\ dial' = [dial EXCEPT ![s] = "joined"]
          /\ joined' = [joined EXCEPT ![s] = t]
          /\ started' = started \cup {t}
    /\ UNCHANGED <<kiteVars, entry, seq, tunnel, tunnels, closed, open, proxy, server>>

KiteNotFound(s) ==
    /\ dial[s] = "dialed" /\ entry = 0
    /\ dial' = [dial EXCEPT ![s] = "ended"]
    /\ UNCHANGED <<kiteVars, entry, seq, tunnelVars, proxy, joined, server>>

(* "Tunnel not found" is logged, and Run called on a nil tunnel; that, and *)
(* a second Run, panic in a goroutine that does not recover.               *)
TunnelPanics(s) ==
    /\ dial[s] = "dialed" /\ entry # 0
    /\ \A t \in Found(s) : ~CanRun(t)
    /\ server' = "crashed"
    /\ UNCHANGED <<kiteVars, entry, seq, tunnelVars, proxy, dialVars>>

(* Mutant: the tunnel is left as it is when its streams have ended. *)
StreamsEndOnly(s) ==
    /\ dial[s] = "joined"
    /\ dial' = [dial EXCEPT ![s] = "ended"]
    /\ open' = open \ {joined[s]}
    /\ UNCHANGED <<kiteVars, entry, seq, tunnel, tunnels, started, closed, proxy, joined, server>>

(* JoinStreams: when either stream ends, both are closed, then the tunnel. *)
StreamsEnd(s) ==
    /\ dial[s] = "joined"
    /\ dial' = [dial EXCEPT ![s] = "ended"]
    /\ CloseTunnel({joined[s]})
    /\ UNCHANGED <<kiteVars, entry, seq, tunnel, tunnels, started, proxy, joined, server>>

(* The copy from the public session ends when that has closed; the other   *)
(* one when the kite closes its connection.                                *)
LocalCopyEnds(s) == dial[s] = "joined" /\ joined[s] \notin open /\ StreamsEnd(s)

RemoteCopyEnds(s) == StreamsEnd(s)

PublicCloses(s) ==
    /\ s \in open
    /\ open' = open \ {s}
    /\ UNCHANGED <<kiteVars, entry, seq, tunnel, tunnels, started, closed, proxy, dialVars, server>>

(* Close: the listener, and for every kite its connection and tunnels. *)
Close ==
    /\ server = "up"
    /\ server' = "closed"
    /\ link' = [n \in Conns |-> IF n = entry /\ link[n] = "up" THEN "broken" ELSE link[n]]
    /\ CloseTunnel({s \in tunnels : tunnel[s].kite = entry /\ entry # 0})
    /\ UNCHANGED <<kite, current, register, entry, seq, tunnel, tunnels, started, proxy, dialVars>>

-----------------------------------------------------------------------------
NotCrashed == server # "crashed"

KiteStep == KiteDials \/ RegisterAnswered \/ RegisterFails \/ KiteSeesDisconnect

LinkStep(n) == NewRequest(n) \/ HandleRegister(n) \/ OnDisconnect(n)

ProxyStep(s) ==
    TunnelAnswered(s) \/ TunnelRefused(s) \/ StartTimeout(s) \/ CloseNotify(s)

DialStep(s) ==
    \/ KiteDialsTunnel(s) \/ KiteDialFails(s)
    \/ HandleTunnel(s) \/ KiteNotFound(s) \/ TunnelPanics(s) \/ LocalCopyEnds(s)

ProxyNext ==
    /\ NotCrashed
    /\ \/ KiteStep \/ Close
       \/ \E n \in Conns : LinkBreaks(n) \/ LinkStep(n)
       \/ \E s \in Clients :
            \/ HandleProxy(s) \/ ProxyStep(s) \/ RemoveTunnel(s) \/ DialStep(s)
            \/ PublicCloses(s) \/ RemoteCopyEnds(s)

ProxySpec == ProxyInit /\ [][ProxyNext]_proxyVars

(* The goroutines of a session run and its timeouts expire (it takes       *)
(* finitely many steps, so one condition serves them all); nobody has to   *)
(* connect, to register or to hang up.                                     *)
ProxyFairness ==
    \A s \in Clients :
        WF_proxyVars(NotCrashed /\ (ProxyStep(s) \/ RemoveTunnel(s) \/ DialStep(s)))

ProxyFairSpec == ProxySpec /\ ProxyFairness

-----------------------------------------------------------------------------
(* A tunnel carries the streams of one dial, and the dial it joins is the  *)
(* one its own session asked for, unless the kite has registered anew in   *)
(* between: then numbers start over and a late dial finds another tunnel.  *)
RightTunnel ==
    \A s \in Clients : dial[s] = "joined" =>
        /\ tunnel[joined[s]].kite = tunnel[s].kite => joined[s] = s
        /\ \A t \in Clients \ {s} : dial[t] = "joined" => joined[t] # joined[s]

(* When its public connection has been closed, by the client, or because   *)
(* the kite's stream ended or a timeout passed, handleProxy returns, the   *)
(* tunnel leaves the map and no stream of the kite stays joined to it; the *)
(* alternative is a panic.                                                 *)
TunnelEnds ==
    \A s \in Clients :
        (proxy[s] # "none" /\ s \notin open)
            ~> \/ ~NotCrashed
               \/ /\ proxy[s] = "done" /\ s \notin tunnels
                  /\ \A t \in Clients : joined[t] = s => dial[t] = "ended"

(* "Remove URL from the map when PrivateKite disconnects" (proxy.go): a    *)
(* kite that is connected and registered, its older connections gone, is   *)
(* in the map.                                                             *)
RegisteredIsListed ==
    kite = "registered" /\ link[current] = "up"
        /\ (\A n \in 1..(current - 1) : link[n] = "gone") => entry = current
=============================================================================
