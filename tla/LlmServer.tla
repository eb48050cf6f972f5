----------------------------- MODULE LlmServer -----------------------------
(***************************************************************************)
(* What the allocator's LLM lock promises its users (queue/allocator.py,   *)
(* try_acquire_llm and release_llm): one server, and one thread at a time  *)
(* that may launch it, work with it or stop it.  GpuSharing implements it. *)
(***************************************************************************)
CONSTANTS
  Threads,   \* the threads that may want the server
  Nobody

VARIABLES
  holder,    \* the thread that has the server for itself
  users,     \* the threads that work with it
  server     \* off, loading (launched and not answering yet), up

vars == <<holder, users, server>>

Init == holder = Nobody /\ users = {} /\ server \in {"off", "up"}

Enter(t) == holder = Nobody /\ holder' = t /\ UNCHANGED <<users, server>>

Launch(t) ==
  /\ holder = t /\ users = {} /\ server = "off"
  /\ server' = "loading"
  /\ UNCHANGED <<holder, users>>

\* A launch ends with a server to work with, or with none.
Answer(t) ==
  /\ holder = t /\ server = "loading"
  /\ \/ server' = "up" /\ users' = {t}
     \/ server' = "off" /\ UNCHANGED users
  /\ UNCHANGED holder

Work(t) ==
  /\ holder = t /\ server = "up"
  /\ users' = {t}
  /\ UNCHANGED <<holder, server>>

\* The work is over; the server stays, or is stopped by the one that launched it.
Finish(t) ==
  /\ users = {t}
  /\ users' = {}
  /\ server' \in {server, "off"}
  /\ UNCHANGED holder

Stop(t) ==
  /\ holder = t /\ users = {}
  /\ server' = "off"
  /\ UNCHANGED <<holder, users>>

Leave(t) ==
  /\ holder = t /\ users = {} /\ server # "loading"
  /\ holder' = Nobody
  /\ UNCHANGED <<users, server>>

Next ==
  \E t \in Threads : \/ Enter(t) \/ Launch(t) \/ Answer(t) \/ Work(t)
                     \/ Finish(t) \/ Stop(t) \/ Leave(t)

Spec == Init /\ [][Next]_vars
=============================================================================
