---------------------------- MODULE HttpLifecycle ----------------------------
(***************************************************************************)
(* The HTTP server lifecycle of src/src/http/mod.rs: HttpServerLifecycle   *)
(* (new, respawn_with_new_cert, shutdown) driving the actix servers that   *)
(* spawn_http_server starts, and the TLS clients that connect to them.     *)
(*                                                                         *)
(* Every spawned actix server is numbered 1, 2, ... in spawn order; the    *)
(* lifecycle's field `actix` holds the number of the one it owns.  A       *)
(* server holds the bind address while it is running or stopping; a       *)
(* stopping server accepts no new connection.  Certificates are model      *)
(* values, of which ValidCerts are those cert_payload_to_acceptor accepts. *)
(***************************************************************************)
EXTENDS Naturals, FiniteSets

CONSTANTS
    Certs,        \* TLS payloads the control plane may hand over
    ValidCerts,   \* those whose chain and key OpenSSL accepts
    Clients,      \* TLS clients
    BindFaults,   \* whether the bind address may be unavailable for other reasons
    MaxServers    \* bound on spawned servers (new plus respawns)

ASSUME LifecycleAssumption ==
    /\ ValidCerts \subseteq Certs /\ Certs # {}
    /\ BindFaults \in BOOLEAN
    /\ MaxServers \in Nat \ {0}

Servers == 1..MaxServers

VARIABLES
    srvState,    \* srvState[s]: "none" (not spawned), "running", "stopping", "stopped"
    srvCert,     \* srvCert[s]: the certificate server s presents
    srvGraceful, \* srvGraceful[s]: whether s was asked to stop gracefully
    nsrv,        \* number of servers spawned so far
    actix,       \* HttpServerLifecycle.actix: the server it owns (0 before new succeeds)
    lc,          \* where the lifecycle's caller is
    arg,         \* the certificate respawn_with_new_cert was called with
    ret,         \* result of the last new/respawn: "ok", "acceptor" or "port"
    conn         \* conn[k]: the server client k holds a connection to, or 0

vars == <<srvState, srvCert, srvGraceful, nsrv, actix, lc, arg, ret, conn>>
srvVars == <<srvState, srvCert, srvGraceful, nsrv, actix>>

\* The servers that hold the bind address.
Listening == {s \in Servers : srvState[s] \in {"running", "stopping"}}

-----------------------------------------------------------------------------
(* Starting a server.                                                      *)

\* cert_payload_to_acceptor: Ok exactly when every PEM block of the chain,
\* the RSA key and their pairing are accepted.
CertPayloadToAcceptor(c) == c \in ValidCerts

\* Mutant: the lifecycle does not take ownership of the new server.
StartServerKeepHandle(c) ==
    \/ /\ ~CertPayloadToAcceptor(c)
       /\ ret' = "acceptor"
       /\ UNCHANGED srvVars
    \/ /\ CertPayloadToAcceptor(c)
       /\ Listening # {} \/ BindFaults
       /\ ret' = "port"
       /\ UNCHANGED srvVars
    \/ /\ CertPayloadToAcceptor(c)
       /\ Listening = {}
       /\ srvState' = [srvState EXCEPT ![nsrv + 1] = "running"]
       /\ srvCert' = [srvCert EXCEPT ![nsrv + 1] = c]
       /\ nsrv' = nsrv + 1
       /\ ret' = "ok"
       /\ UNCHANGED <<srvGraceful, actix>>

\* The acceptor, then spawn_http_server: bind_openssl fails while the address
\* is held (or for an environmental reason), else the server runs and the
\* lifecycle owns it.  Either error returns before anything is spawned.
StartServer(c) ==
    \/ /\ ~CertPayloadToAcceptor(c)
       /\ ret' = "acceptor"
       /\ UNCHANGED srvVars
    \/ /\ CertPayloadToAcceptor(c)
       /\ Listening # {} \/ BindFaults
       /\ ret' = "port"
       /\ UNCHANGED srvVars
    \/ /\ CertPayloadToAcceptor(c)
       /\ Listening = {}
       /\ srvState' = [srvState EXCEPT ![nsrv + 1] = "running"]
       /\ srvCert' = [srvCert EXCEPT ![nsrv + 1] = c]
       /\ nsrv' = nsrv + 1
       /\ actix' = nsrv + 1
       /\ ret' = "ok"
       /\ UNCHANGED srvGraceful

\* actix's Server::stop(graceful): a running server stops accepting and
\* starts stopping; stopping an already stopped server does nothing.
StopServer(s, g) ==
    IF srvState[s] = "running"
    THEN /\ srvState' = [srvState EXCEPT ![s] = "stopping"]
         /\ srvGraceful' = [srvGraceful EXCEPT ![s] = g]
    ELSE UNCHANGED <<srvState, srvGraceful>>

-----------------------------------------------------------------------------
Init ==
    /\ srvState = [s \in Servers |-> "none"]
    /\ srvCert = [s \in Servers |-> CHOOSE c \in Certs : TRUE]
    /\ srvGraceful = [s \in Servers |-> FALSE]
    /\ nsrv = 0
    /\ actix = 0
    /\ lc = "init"
    /\ arg = CHOOSE c \in Certs : TRUE
    /\ ret = "none"
    /\ conn = [k \in Clients |-> 0]

\* HttpServerLifecycle::new: an error is fatal to the node.
New(c) ==
    /\ lc = "init"
    /\ nsrv < MaxServers
    /\ StartServer(c)
    /\ lc' = IF ret' = "ok" THEN "idle" ELSE "exit"
    /\ UNCHANGED <<arg, conn>>

\* Mutant: the certificate is checked before the old server is stopped.
RespawnStartCheckFirst(c) ==
    /\ lc = "idle"
    /\ nsrv < MaxServers
    /\ \/ /\ CertPayloadToAcceptor(c)
          /\ StopServer(actix, FALSE)
          /\ lc' = "respawn"
          /\ UNCHANGED ret
       \/ /\ ~CertPayloadToAcceptor(c)
          /\ ret' = "acceptor"
          /\ UNCHANGED <<srvState, srvGraceful, lc>>
    /\ arg' = c
    /\ UNCHANGED <<srvCert, nsrv, actix, conn>>

\* respawn_with_new_cert, up to its await: self.shutdown(false) asks the
\* owned server to stop at once.
RespawnStart(c) ==
    /\ lc = "idle"
    /\ nsrv < MaxServers
    /\ StopServer(actix, FALSE)
    /\ arg' = c
    /\ lc' = "respawn"
    /\ UNCHANGED <<srvCert, nsrv, actix, ret, conn>>

\* Mutant: the stop future is not awaited before rebinding.
RespawnRebuildNoAwait ==
    /\ lc = "respawn"
    /\ StartServer(arg)
    /\ lc' = "idle"
    /\ UNCHANGED <<arg, conn>>

\* After the stop has completed: build the acceptor, bind, and own the new
\* server; an error is returned to the caller, with the old server stopped.
RespawnRebuild ==
    /\ lc = "respawn"
    /\ srvState[actix] = "stopped"
    /\ StartServer(arg)
    /\ lc' = "idle"
    /\ UNCHANGED <<arg, conn>>

\* shutdown(graceful), up to its await.
Shutdown(g) ==
    /\ lc = "idle"
    /\ StopServer(actix, g)
    /\ lc' = "shutdown"
    /\ UNCHANGED <<srvCert, nsrv, actix, arg, ret, conn>>

ShutdownDone ==
    /\ lc = "shutdown"
    /\ srvState[actix] = "stopped"
    /\ lc' = "down"
    /\ UNCHANGED <<srvState, srvCert, srvGraceful, nsrv, actix, arg, ret, conn>>

-----------------------------------------------------------------------------
(* The actix runtime and the clients.                                      *)

\* A TLS client completes a handshake with the server accepting on the
\* address, which presents its certificate.
Connect(k) ==
    /\ conn[k] = 0
    /\ \E s \in Servers :
          /\ srvState[s] = "running"
          /\ conn' = [conn EXCEPT ![k] = s]
    /\ UNCHANGED <<srvState, srvCert, srvGraceful, nsrv, actix, lc, arg, ret>>

\* A client closes its (keep-alive) connection.
Close(k) ==
    /\ conn[k] # 0
    /\ conn' = [conn EXCEPT ![k] = 0]
    /\ UNCHANGED <<srvState, srvCert, srvGraceful, nsrv, actix, lc, arg, ret>>

Drained(s) == \A k \in Clients : conn[k] # s

\* The server finishes stopping: at once when forced (its connections are
\* dropped), after its connections have closed when graceful.
ServerStop(s) ==
    /\ srvState[s] = "stopping"
    /\ ~srvGraceful[s] \/ Drained(s)
    /\ srvState' = [srvState EXCEPT ![s] = "stopped"]
    /\ conn' = [k \in Clients |-> IF conn[k] = s THEN 0 ELSE conn[k]]
    /\ UNCHANGED <<srvCert, srvGraceful, nsrv, actix, lc, arg, ret>>

\* shutdown_timeout(60): a graceful stop whose connections are still open
\* after the timeout drops them and completes.
ShutdownTimeout(s) ==
    /\ srvState[s] = "stopping"
    /\ srvGraceful[s]
    /\ ~Drained(s)
    /\ srvState' = [srvState EXCEPT ![s] = "stopped"]
    /\ conn' = [k \in Clients |-> IF conn[k] = s THEN 0 ELSE conn[k]]
    /\ UNCHANGED <<srvCert, srvGraceful, nsrv, actix, lc, arg, ret>>

-----------------------------------------------------------------------------
Next ==
    \/ \E c \in Certs : New(c) \/ RespawnStart(c)
    \/ RespawnRebuild
    \/ \E g \in BOOLEAN : Shutdown(g)
    \/ ShutdownDone
    \/ \E k \in Clients : Connect(k) \/ Close(k)
    \/ \E s \in Servers : ServerStop(s) \/ ShutdownTimeout(s)

Spec == Init /\ [][Next]_vars

-----------------------------------------------------------------------------
(* Properties.                                                             *)

\* Type invariant, with the numbering of spawned servers.
TypeOK ==
    /\ srvState \in [Servers -> {"none", "running", "stopping", "stopped"}]
    /\ srvCert \in [Servers -> Certs]
    /\ srvGraceful \in [Servers -> BOOLEAN]
    /\ nsrv \in 0..MaxServers
    /\ \A s \in Servers : srvState[s] = "none" <=> s > nsrv
    /\ actix \in 0..nsrv
    /\ lc \in {"init", "idle", "respawn", "shutdown", "down", "exit"}
    /\ arg \in Certs
    /\ ret \in {"none", "ok", "acceptor", "port"}
    /\ conn \in [Clients -> 0..nsrv]

\* Whatever sequence of new, respawns and failed respawns ran, the server
\* holding the address is the one self.actix owns, so the next
\* respawn_with_new_cert or shutdown stops the server that is listening.
HandleOwnsListener == \A s \in Listening : s = actix

\* The ordering of respawn_with_new_cert: when it rebinds, the server it
\* stopped has fully released the address, so its bind never fails on the
\* node's own socket.
BindAfterRelease ==
    [][lc = "respawn" /\ lc' = "idle" =>
         \A s \in Servers : srvState[s] \in {"none", "stopped"}]_vars

\* Rotation failure isolation (the documented availability gap): after
\* respawn_with_new_cert returned an error, no server is listening.
FailedRespawnLeavesNoListener ==
    lc = "idle" /\ ret \in {"acceptor", "port"} => Listening = {}

\* Strengthening of the safety properties into an inductive invariant: every
\* open connection is to a server holding the address (the actix runtime
\* drops a server's connections when its stop completes), the lifecycle
\* owns a spawned server once new has succeeded, and a respawn in progress
\* has a server number left for its rebuild.
ConnsListening == \A k \in Clients : conn[k] # 0 => conn[k] \in Listening
LInv ==
    /\ TypeOK
    /\ HandleOwnsListener
    /\ ConnsListening
    /\ lc \in {"idle", "respawn", "shutdown", "down"} => actix \in Servers
    /\ lc = "respawn" => nsrv < MaxServers
    /\ FailedRespawnLeavesNoListener

=============================================================================
