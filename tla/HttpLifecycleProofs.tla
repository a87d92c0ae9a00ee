------------------------ MODULE HttpLifecycleProofs -------------------------
(***************************************************************************)
(* Proofs about HttpLifecycle, for every set of certificates and clients   *)
(* and every bound on the number of spawned servers.                       *)
(***************************************************************************)
EXTENDS HttpLifecycle, TLAPS

USE LifecycleAssumption

-----------------------------------------------------------------------------
(* What spawn_http_server does to the server table.                        *)

\* cert_payload_to_acceptor followed by spawn_http_server either fails and
\* leaves every server as it was, or finds the address free and makes the
\* next server number the only listener and the owned one.
LEMMA StartServerCases ==
    ASSUME TypeOK, NEW c \in Certs, nsrv < MaxServers, StartServer(c)
    PROVE  \/ /\ UNCHANGED srvVars
              /\ ret' \in {"acceptor", "port"}
           \/ /\ Listening = {}
              /\ ret' = "ok"
              /\ nsrv' = nsrv + 1 /\ actix' = nsrv + 1
              /\ srvState' = [srvState EXCEPT ![nsrv + 1] = "running"]
              /\ srvCert' = [srvCert EXCEPT ![nsrv + 1] = c]
              /\ srvGraceful' = srvGraceful
              /\ Listening' = {nsrv + 1}
<1>1. CASE \/ ~CertPayloadToAcceptor(c)
           \/ (Listening # {} \/ BindFaults) /\ ret' = "port"
  BY <1>1 DEF StartServer
<1>2. CASE /\ CertPayloadToAcceptor(c)
           /\ Listening = {}
           /\ srvState' = [srvState EXCEPT ![nsrv + 1] = "running"]
           /\ srvCert' = [srvCert EXCEPT ![nsrv + 1] = c]
           /\ nsrv' = nsrv + 1
           /\ actix' = nsrv + 1
           /\ ret' = "ok"
           /\ UNCHANGED srvGraceful
  <2>1. nsrv + 1 \in Servers
    BY DEF TypeOK, Servers
  <2>2. \A s \in Servers \ {nsrv + 1} : srvState'[s] = srvState[s]
    BY <1>2 DEF TypeOK
  <2>3. Listening' = {nsrv + 1}
    BY <1>2, <2>1, <2>2 DEF Listening, TypeOK
  <2>. QED  BY <1>2, <2>3
<1>. QED  BY <1>1, <1>2 DEF StartServer

\* Server::stop keeps the stopped server in the address-holding set and
\* changes nothing but its state and gracefulness.
LEMMA StopServerEffect ==
    ASSUME TypeOK, NEW s \in Servers, NEW g \in BOOLEAN, StopServer(s, g)
    PROVE  /\ Listening' = Listening
           /\ srvState' \in [Servers -> {"none", "running", "stopping", "stopped"}]
           /\ srvGraceful' \in [Servers -> BOOLEAN]
           /\ \A t \in Servers : srvState'[t] = "none" <=> srvState[t] = "none"
           /\ srvState[s] \in {"stopping", "stopped"} => srvState' = srvState
           /\ srvState'[s] \in {"stopping", "stopped"} \/ srvState[s] = "none"
<1>1. CASE srvState[s] = "running"
  BY <1>1 DEF StopServer, Listening, TypeOK
<1>2. CASE srvState[s] # "running"
  BY <1>2 DEF StopServer, Listening, TypeOK
<1>. QED  BY <1>1, <1>2

-----------------------------------------------------------------------------
(* The inductive invariant.                                                *)

THEOREM InitLInv == Init => LInv
<1> SUFFICES ASSUME Init PROVE LInv
  OBVIOUS
<1>1. Listening = {}
  BY DEF Init, Listening
<1>2. (CHOOSE c \in Certs : TRUE) \in Certs
  OBVIOUS
<1>. QED
  BY <1>1, <1>2
  DEF Init, LInv, TypeOK, Servers, HandleOwnsListener, ConnsListening,
      FailedRespawnLeavesNoListener

\* new: on success the new server is the only listener and is owned.
LEMMA NewLInv ==
    ASSUME LInv, NEW c \in Certs, New(c)
    PROVE  LInv'
<1>1. TypeOK /\ nsrv < MaxServers /\ StartServer(c)
  BY DEF LInv, New
<1>2. CASE UNCHANGED srvVars /\ ret' \in {"acceptor", "port"}
  <2>1. lc' = "exit" /\ UNCHANGED <<arg, conn>>
    BY <1>2 DEF New
  <2>. QED
    BY <1>2, <2>1
    DEF LInv, TypeOK, HandleOwnsListener, ConnsListening, Listening, srvVars,
        FailedRespawnLeavesNoListener
<1>3. CASE /\ Listening = {}
           /\ ret' = "ok"
           /\ nsrv' = nsrv + 1 /\ actix' = nsrv + 1
           /\ srvState' = [srvState EXCEPT ![nsrv + 1] = "running"]
           /\ srvCert' = [srvCert EXCEPT ![nsrv + 1] = c]
           /\ srvGraceful' = srvGraceful
           /\ Listening' = {nsrv + 1}
  <2>1. lc' = "idle" /\ UNCHANGED <<arg, conn>>
    BY <1>3 DEF New
  <2>2. \A k \in Clients : conn[k] = 0
    BY <1>3 DEF LInv, ConnsListening
  <2>3. TypeOK'
    BY <1>1, <1>3, <2>1 DEF TypeOK, Servers
  <2>. QED
    BY <1>1, <1>3, <2>1, <2>2, <2>3
    DEF LInv, HandleOwnsListener, ConnsListening, Servers, TypeOK,
        FailedRespawnLeavesNoListener
<1>. QED  BY <1>1, <1>2, <1>3, StartServerCases

\* respawn_with_new_cert up to its await: the owned server is told to stop.
LEMMA RespawnStartLInv ==
    ASSUME LInv, NEW c \in Certs, RespawnStart(c)
    PROVE  LInv'
<1>1. actix \in Servers /\ TypeOK /\ StopServer(actix, FALSE)
  BY DEF LInv, RespawnStart
<1>2. /\ Listening' = Listening
      /\ srvState' \in [Servers -> {"none", "running", "stopping", "stopped"}]
      /\ srvGraceful' \in [Servers -> BOOLEAN]
      /\ \A t \in Servers : srvState'[t] = "none" <=> srvState[t] = "none"
  BY <1>1, StopServerEffect
<1>. QED
  BY <1>1, <1>2
  DEF LInv, RespawnStart, TypeOK, HandleOwnsListener, ConnsListening,
      FailedRespawnLeavesNoListener

\* The rebuild half of respawn_with_new_cert: the old server has stopped, so
\* nothing listens; a failed rebuild leaves it so, a successful one makes
\* the new server the only listener.
LEMMA RespawnRebuildLInv ==
    ASSUME LInv, RespawnRebuild
    PROVE  LInv'
<1>1. /\ TypeOK /\ actix \in Servers /\ nsrv < MaxServers /\ arg \in Certs
      /\ StartServer(arg) /\ lc' = "idle" /\ UNCHANGED <<arg, conn>>
  BY DEF LInv, RespawnRebuild, TypeOK
<1>2. Listening = {}
  BY DEF LInv, RespawnRebuild, HandleOwnsListener, Listening
<1>3. \A k \in Clients : conn[k] = 0
  BY <1>2 DEF LInv, ConnsListening
<1>4. CASE UNCHANGED srvVars /\ ret' \in {"acceptor", "port"}
  BY <1>1, <1>2, <1>3, <1>4
  DEF LInv, TypeOK, HandleOwnsListener, ConnsListening, Listening, srvVars,
      FailedRespawnLeavesNoListener
<1>5. CASE /\ ret' = "ok"
           /\ nsrv' = nsrv + 1 /\ actix' = nsrv + 1
           /\ srvState' = [srvState EXCEPT ![nsrv + 1] = "running"]
           /\ srvCert' = [srvCert EXCEPT ![nsrv + 1] = arg]
           /\ srvGraceful' = srvGraceful
           /\ Listening' = {nsrv + 1}
  <2>1. TypeOK'
    BY <1>1, <1>3, <1>5 DEF TypeOK, Servers
  <2>. QED
    BY <1>1, <1>3, <1>5, <2>1
    DEF LInv, HandleOwnsListener, ConnsListening, Servers, TypeOK,
        FailedRespawnLeavesNoListener
<1>. QED  BY <1>1, <1>4, <1>5, StartServerCases

\* shutdown(graceful) up to its await, and its return.
LEMMA ShutdownLInv ==
    ASSUME LInv, (\E g \in BOOLEAN : Shutdown(g)) \/ ShutdownDone
    PROVE  LInv'
<1>1. CASE \E g \in BOOLEAN : Shutdown(g)
  <2>1. PICK g \in BOOLEAN : Shutdown(g)
    BY <1>1
  <2>2. actix \in Servers /\ TypeOK /\ StopServer(actix, g)
    BY <2>1 DEF LInv, Shutdown
  <2>3. /\ Listening' = Listening
        /\ srvState' \in [Servers -> {"none", "running", "stopping", "stopped"}]
        /\ srvGraceful' \in [Servers -> BOOLEAN]
        /\ \A t \in Servers : srvState'[t] = "none" <=> srvState[t] = "none"
    BY <2>2, StopServerEffect
  <2>. QED
    BY <2>1, <2>2, <2>3
    DEF LInv, Shutdown, TypeOK, HandleOwnsListener, ConnsListening,
        FailedRespawnLeavesNoListener
<1>2. CASE ShutdownDone
  BY <1>2
  DEF LInv, ShutdownDone, TypeOK, HandleOwnsListener, ConnsListening,
      Listening, FailedRespawnLeavesNoListener
<1>. QED  BY <1>1, <1>2

\* A client connects to a running server, or closes its connection.
LEMMA ClientLInv ==
    ASSUME LInv, NEW k \in Clients, Connect(k) \/ Close(k)
    PROVE  LInv'
<1>1. CASE Connect(k)
  <2>1. PICK s \in Servers : srvState[s] = "running" /\ conn' = [conn EXCEPT ![k] = s]
    BY <1>1 DEF Connect
  <2>2. s \in Listening /\ s \in 0..nsrv
    BY <2>1 DEF Listening, LInv, TypeOK, Servers
  <2>3. Listening' = Listening
    BY <1>1 DEF Connect, Listening
  <2>. QED
    BY <1>1, <2>1, <2>2, <2>3
    DEF LInv, Connect, TypeOK, HandleOwnsListener, ConnsListening,
        FailedRespawnLeavesNoListener
<1>2. CASE Close(k)
  <2>1. Listening' = Listening
    BY <1>2 DEF Close, Listening
  <2>. QED
    BY <1>2, <2>1
    DEF LInv, Close, TypeOK, HandleOwnsListener, ConnsListening,
        FailedRespawnLeavesNoListener
<1>. QED  BY <1>1, <1>2

\* A stopping server completes its stop (forced, drained or timed out) and
\* its connections are dropped.
LEMMA StopCompletesLInv ==
    ASSUME LInv, NEW s \in Servers, ServerStop(s) \/ ShutdownTimeout(s)
    PROVE  LInv'
<1>1. /\ srvState[s] = "stopping"
      /\ srvState' = [srvState EXCEPT ![s] = "stopped"]
      /\ conn' = [k \in Clients |-> IF conn[k] = s THEN 0 ELSE conn[k]]
      /\ UNCHANGED <<srvCert, srvGraceful, nsrv, actix, lc, arg, ret>>
  BY DEF ServerStop, ShutdownTimeout
<1>2. Listening' = Listening \ {s}
  BY <1>1 DEF Listening, LInv, TypeOK
<1>3. TypeOK'
  BY <1>1 DEF LInv, TypeOK
<1>. QED
  BY <1>1, <1>2, <1>3
  DEF LInv, HandleOwnsListener, ConnsListening, FailedRespawnLeavesNoListener

\* Every step of the lifecycle, the runtime and the clients preserves LInv.
THEOREM NextLInv == LInv /\ [Next]_vars => LInv'
<1> SUFFICES ASSUME LInv, [Next]_vars PROVE LInv'
  OBVIOUS
<1>1. CASE UNCHANGED vars
  BY <1>1
  DEF vars, LInv, TypeOK, HandleOwnsListener, ConnsListening, Listening,
      FailedRespawnLeavesNoListener
<1>2. CASE Next
  BY <1>2, NewLInv, RespawnStartLInv, RespawnRebuildLInv, ShutdownLInv,
     ClientLInv, StopCompletesLInv
  DEF Next
<1>. QED  BY <1>1, <1>2

-----------------------------------------------------------------------------
(* The safety properties of the lifecycle.                                 *)

\* The lifecycle's ownership, for every number of clients, certificates and
\* respawns: whatever sequence of new, respawns and failed respawns ran, the
\* server holding the address is always the one self.actix owns, so
\* respawn_with_new_cert and shutdown stop the listener.
THEOREM LifecycleSafe == Spec => []HandleOwnsListener
<1>1. LInv => HandleOwnsListener
  BY DEF LInv
<1>. QED  BY InitLInv, NextLInv, <1>1, PTL DEF Spec

\* Type correctness of the lifecycle: server numbers are handed out in
\* order, self.actix always names a spawned server (or none before new),
\* and every open connection is to a spawned server.
THEOREM LifecycleTypeCorrect == Spec => []TypeOK
<1>1. LInv => TypeOK
  BY DEF LInv
<1>. QED  BY InitLInv, NextLInv, <1>1, PTL DEF Spec

\* Failure isolation: after respawn_with_new_cert returned
\* Error::Acceptor or Error::Port, nothing listens on the address.
THEOREM FailedRespawnIsolated == Spec => []FailedRespawnLeavesNoListener
<1>1. LInv => FailedRespawnLeavesNoListener
  BY DEF LInv
<1>. QED  BY InitLInv, NextLInv, <1>1, PTL DEF Spec

\* respawn_with_new_cert rebinds only once every server it spawned before
\* has released the address: the await on the stop is what makes the bind
\* succeed.
THEOREM RebindAfterRelease == Spec => BindAfterRelease
<1>1. LInv /\ [Next]_vars =>
        [lc = "respawn" /\ lc' = "idle" =>
           \A s \in Servers : srvState[s] \in {"none", "stopped"}]_vars
  <2> SUFFICES ASSUME LInv, [Next]_vars, lc = "respawn", lc' = "idle",
                      NEW s \in Servers
               PROVE  srvState[s] \in {"none", "stopped"}
    OBVIOUS
  <2>1. RespawnRebuild
    BY DEF Next, vars, New, RespawnStart, Shutdown, ShutdownDone, Connect,
           Close, ServerStop, ShutdownTimeout
  <2>2. Listening = {}
    BY <2>1 DEF LInv, RespawnRebuild, HandleOwnsListener, Listening
  <2>. QED  BY <2>2 DEF Listening, LInv, TypeOK
<1>. QED  BY InitLInv, NextLInv, <1>1, PTL DEF Spec, BindAfterRelease

=============================================================================
