------------------------------- MODULE Proxy -------------------------------
(***************************************************************************)
(* server/openai_proxy.py: serve starts a llama.cpp server, waits until it *)
(* has loaded the model, answers clients by handing their requests on, one *)
(* thread each, and stops the server on its way out.                       *)
(*                                                                         *)
(* A squatter is a server that an earlier, killed serve left on the        *)
(* backend port.  An answer is what its client has received: "head"        *)
(* (status line and headers), "data", "end" (the body is framed as         *)
(* complete) and "error" (a whole 502 response).                           *)
(***************************************************************************)
EXTENDS Integers, Sequences

CONSTANTS
  Client,                  \* requests, each by a thread of its own
  MaxChunks                \* bound: chunks of a streamed answer

VARIABLES
  srv,          \* serve: "start", "launch", "wait", "serving", "stopping", "gone"
  kind,         \* backend served: "sabah", "reference"
  squatter,     \* is the port taken by an earlier backend?
  backend,      \* our llama-server: "none", "loading", "ready", "dead"
  statusFile,   \* "none", "old", "torn", "own"
  statusPath,   \* is state.status_file set?
  told,         \* the last answer of /health
  req,          \* of each client's thread: where it is
  via,          \* of each thread: "sized" or "chunked" answer from upstream,
                \* "ended" once all of it was read
  answer        \* of each client: what it has received

proxyServer == <<srv, kind, squatter, backend, statusFile, statusPath, told>>
proxyClients == <<req, via, answer>>
proxyVars == <<proxyServer, proxyClients>>

NotTold == [status |-> "unasked", counters |-> "null"]

-----------------------------------------------------------------------------
(* serve and its backend.                                                  *)

(* Everything serve may refuse before it has a process: an unsupported     *)
(* model, a residency plan that does not fit, the reference without        *)
(* --allow-reference, no llama-server, no runtime library.                 *)
ServeRefuses ==
  /\ srv = "start" /\ srv' = "gone"
  /\ UNCHANGED <<kind, squatter, backend, statusFile, statusPath, told, proxyClients>>

ServeReady(k, other, file) ==
  /\ srv = "start" /\ srv' = "launch" /\ kind' = k
  /\ squatter' = other /\ statusFile' = file
  /\ UNCHANGED <<backend, statusPath, told, proxyClients>>

(* backend_launch removes the status file before the process starts.  The  *)
(* reference's environment is stripped of every SABAH_LLAMA variable.      *)
Launch ==
  /\ srv = "launch" /\ srv' = "wait" /\ backend' = "loading"
  /\ statusPath' = (kind = "sabah")
  /\ statusFile' = IF kind = "sabah" THEN "none" ELSE statusFile
  /\ UNCHANGED <<kind, squatter, told, proxyClients>>

(* Mutant of HealthAnswers200: any answer of the port will do.             *)
PortAnswers == squatter \/ backend \in {"loading", "ready"}

HealthAnswers200 == squatter \/ backend = "ready"

(* One turn of _wait_backend: it looks at the process, then asks the port. *)
BackendUp ==
  /\ srv = "wait" /\ backend # "dead" /\ HealthAnswers200
  /\ srv' = "serving"
  /\ UNCHANGED <<kind, squatter, backend, statusFile, statusPath, told, proxyClients>>

(* The process exited, or 900 s passed.                                    *)
BackendNotUp ==
  /\ srv = "wait" /\ srv' = "stopping"
  /\ UNCHANGED <<kind, squatter, backend, statusFile, statusPath, told, proxyClients>>

(* serve_forever is left by an interrupt, or the proxy's port is taken.    *)
ServeInterrupted ==
  /\ srv = "serving" /\ srv' = "stopping"
  /\ UNCHANGED <<kind, squatter, backend, statusFile, statusPath, told, proxyClients>>

(* SIGTERM, ten seconds, SIGKILL, which no process outlives.  Handler      *)
(* threads are daemons and go with the process.                            *)
StopBackend ==
  /\ srv = "stopping" /\ srv' = "gone" /\ backend' = "dead"
  /\ req' = [c \in Client |-> IF req[c] = "idle" THEN "idle" ELSE "done"]
  /\ UNCHANGED <<kind, squatter, statusFile, statusPath, told, via, answer>>

(* llama-server binds before it loads: it gives up on a taken port.        *)
BackendLoads ==
  /\ backend = "loading" /\ ~squatter /\ backend' = "ready"
  /\ UNCHANGED <<srv, kind, squatter, statusFile, statusPath, told, proxyClients>>

BackendDies ==
  /\ backend \in {"loading", "ready"} /\ backend' = "dead"
  /\ UNCHANGED <<srv, kind, squatter, statusFile, statusPath, told, proxyClients>>

(* The runtime rewrites its status file in place while it serves.          *)
WriteStatus ==
  /\ backend = "ready" /\ kind = "sabah"
  /\ statusFile' \in {"torn", "own"}
  /\ UNCHANGED <<srv, kind, squatter, backend, statusPath, told, proxyClients>>

(* An earlier backend on this port writes to the same path.                *)
SquatterWrites ==
  /\ squatter /\ statusFile' = "old"
  /\ UNCHANGED <<srv, kind, squatter, backend, statusPath, told, proxyClients>>

(* read_runtime_status: a torn read is retried, and given up as null.      *)
Counters == IF ~statusPath \/ statusFile \in {"none", "torn"} THEN "null" ELSE statusFile

Health ==
  /\ srv = "serving"
  /\ told' = [status |-> IF backend = "dead" THEN "failed" ELSE "ok",
              counters |-> Counters]
  /\ UNCHANGED <<srv, kind, squatter, backend, statusFile, statusPath, proxyClients>>

-----------------------------------------------------------------------------
(* The handler threads: _proxy.                                            *)

Says(c, what, next) ==
  /\ answer' = [answer EXCEPT ![c] = @ \o what]
  /\ req' = [req EXCEPT ![c] = next]

Upstream == squatter \/ backend = "ready"

(* conn.request and getresponse.  A streamed answer is chunked upstream.   *)
Forward(c, v) ==
  /\ srv = "serving" /\ req[c] = "idle"
  /\ IF Upstream
     THEN /\ req' = [req EXCEPT ![c] = "open"] /\ via' = [via EXCEPT ![c] = v]
          /\ UNCHANGED answer
     ELSE Says(c, <<"error">>, "done") /\ UNCHANGED via
  /\ UNCHANGED proxyServer

(* Not a stream: the whole body, then headers with its length.  A broken   *)
(* upstream is a 502 of its own, or, if http.client finds the body short,  *)
(* an exception nobody catches: the connection is dropped.                 *)
InOneRead(c) ==
  /\ req[c] = "open" /\ via[c] = "sized"
  /\ \/ /\ Upstream /\ via' = [via EXCEPT ![c] = "ended"]
        /\ Says(c, <<"head", "data", "end">>, "done")
     \/ /\ ~Upstream /\ UNCHANGED via
        /\ Says(c, <<"error">>, "done") \/ Says(c, <<>>, "done")
  /\ UNCHANGED proxyServer

StreamHead(c) ==
  /\ req[c] = "open" /\ via[c] = "chunked"
  /\ Says(c, <<"head">>, "stream")
  /\ UNCHANGED <<via, proxyServer>>

StreamChunk(c) ==
  /\ req[c] = "stream" /\ Upstream /\ Len(answer[c]) <= MaxChunks
  /\ Says(c, <<"data">>, "stream")
  /\ UNCHANGED <<via, proxyServer>>

StreamEnd(c) ==
  /\ req[c] = "stream" /\ Upstream
  /\ via' = [via EXCEPT ![c] = "ended"]
  /\ Says(c, <<"end">>, "done")
  /\ UNCHANGED proxyServer

(* The upstream connection breaks: a reset becomes a 502 written into the  *)
(* chunked body, a body cut short an exception nobody catches.             *)
StreamBreaks(c) ==
  /\ req[c] = "stream" /\ ~Upstream
  /\ Says(c, <<"error">>, "done") \/ Says(c, <<>>, "done")
  /\ UNCHANGED <<via, proxyServer>>

(* The client went away: the write fails, and so does the 502 after it.    *)
ClientGone(c) ==
  /\ req[c] \in {"open", "stream"}
  /\ Says(c, <<>>, "done")
  /\ UNCHANGED <<via, proxyServer>>

Handle(c) ==
  InOneRead(c) \/ StreamHead(c) \/ StreamChunk(c) \/ StreamEnd(c) \/ StreamBreaks(c)

ProxyInit ==
  /\ srv = "start" /\ kind = "sabah" /\ squatter = FALSE /\ backend = "none"
  /\ statusFile = "none" /\ statusPath = FALSE /\ told = NotTold
  /\ req = [c \in Client |-> "idle"] /\ via = [c \in Client |-> "sized"]
  /\ answer = [c \in Client |-> <<>>]

ProxyNext ==
  \/ \E k \in {"sabah", "reference"}, other \in BOOLEAN, file \in {"none", "old"} :
       ServeReady(k, other, file)
  \/ ServeRefuses \/ Launch \/ BackendUp \/ BackendNotUp \/ ServeInterrupted
  \/ StopBackend \/ BackendLoads \/ BackendDies \/ WriteStatus \/ SquatterWrites \/ Health
  \/ \E c \in Client :
       Handle(c) \/ ClientGone(c) \/ \E v \in {"sized", "chunked"} : Forward(c, v)

(* The process gives up on a port it cannot bind; the main thread runs its *)
(* finally; somebody asks for /health now and then.                        *)
ProxyFair ==
  /\ WF_proxyVars(squatter /\ BackendDies)
  /\ WF_proxyVars(StopBackend)
  /\ WF_proxyVars(Health)
  /\ \A c \in Client : WF_proxyVars(Handle(c))

ProxySpec == ProxyInit /\ [][ProxyNext]_proxyVars /\ ProxyFair

-----------------------------------------------------------------------------
ProxyTypeOK ==
  /\ srv \in {"start", "launch", "wait", "serving", "stopping", "gone"}
  /\ backend \in {"none", "loading", "ready", "dead"}
  /\ req \in [Client -> {"idle", "open", "stream", "done"}]
  /\ \A c \in Client : req[c] = "stream" => via[c] = "chunked"

(* However a connection breaks, a client that sees a complete answer has   *)
(* the backend's whole answer, or one 502 and nothing else: the 502 that   *)
(* _proxy writes into an open stream leaves the stream without its end.    *)
CompleteIsWhole ==
  \A c \in Client :
    LET a == answer[c] IN
    /\ a # <<>> /\ a[Len(a)] = "end" =>
         via[c] = "ended" /\ a[1] = "head" /\ \A i \in 2..Len(a) - 1 : a[i] = "data"
    /\ \A i \in 1..Len(a) - 1 : a[i] \notin {"end", "error"}

(* The runtime's counters in /health are "proof that Sabah, not stock      *)
(* llama.cpp, is executing" (openai_proxy.py:129, "null for reference"):   *)
(* without a squatter they are never those of an earlier backend's file.   *)
CountersAreOurs ==
  /\ ~squatter => told.counters \in {"null", "own"}
  /\ kind = "reference" => told.counters = "null"

(* Clients are served only once the model is loaded, as _wait_backend says *)
(* (openai_proxy.py:235), unless a squatter answered in its place.         *)
ServesLoadedModel == srv = "serving" /\ ~squatter => backend \in {"ready", "dead"}

(* No way out of serve leaves the backend running.                         *)
GoneMeansStopped == srv = "gone" => backend \in {"none", "dead"}

(* /health tells in the end that it is not our backend that answers.       *)
HealthTells ==
  (srv = "serving" /\ squatter) ~> (told.status = "failed" \/ srv # "serving")

(* Every request taken is answered or dropped, with serve itself at the    *)
(* latest, as long as the upstream's answers have an end.                  *)
RequestsEnd == \A c \in Client : req[c] = "open" ~> req[c] \in {"stream", "done"}
(* What the proxy says is so: of a completion, of the counters, of the      *)
(* model it serves, and of the backend it stopped (openai_proxy.py:91-338). *)
ProxyIsTruthful ==
  /\ ProxyTypeOK
  /\ CompleteIsWhole
  /\ CountersAreOurs
  /\ ServesLoadedModel
  /\ GoneMeansStopped
=============================================================================
