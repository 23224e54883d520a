----------------------------- MODULE MCServices -----------------------------
(***************************************************************************)
(* The service pool and the client's authentication, which share no state, *)
(* in one run: the run takes one of them and leaves the other where it     *)
(* starts.                                                                 *)
(***************************************************************************)
EXTENDS IoServices, ZkAuth

CONSTANTS s1, s2, a1, a2, r1

VARIABLE active    \* the module that takes the steps of this behaviour

vars == <<active, serviceVars, authVars>>

Init == active \in {"services", "auth"} /\ ServicesInit /\ AuthInit

Next ==
  /\ UNCHANGED active
  /\ \/ active = "services" /\ ServicesNext /\ UNCHANGED authVars
     \/ active = "auth" /\ AuthNext /\ UNCHANGED serviceVars

\* The threads of the pool run; nobody is obliged to call stop, to register or to
\* raise a signal.
ServicesFairness ==
  /\ WF_serviceVars(active = "services" /\ init)
  /\ WF_serviceVars(active = "services" /\ Main)
  /\ WF_serviceVars(active = "services" /\ Handler)
  /\ WF_serviceVars(active = "services" /\ Stop("app"))
  /\ \A i \in Services : WF_serviceVars(active = "services" /\ ThreadEnds(i))

\* The threads of the client run and the server reads; calls, faults and refusals
\* need not happen.
AuthFairness ==
  /\ \A a \in Auths :
       WF_authVars(active = "auth" /\ (AddLast(a) \/ TestConnected(a) \/ SendLast(a)))
  /\ WF_authVars(active = "auth" /\ do_io)
  /\ WF_authVars(active = "auth" /\ \E v \in {"ok", "failed"} : ServerReads(v))
  /\ WF_authVars(active = "auth" /\ ServerGivesUp)

Spec == Init /\ [][Next]_vars /\ ServicesFairness /\ AuthFairness
=============================================================================
