-------------------------- MODULE ControllersProofs --------------------------
(***************************************************************************)
(* The invariants of Controllers, for any sets of screens, phones, workers *)
(* and codes and any time to live.  The invariants are inductive together  *)
(* (IInv): a stale worker copy is ruled out because a host owns at most    *)
(* one registration, which is CodesMatchHosts.                             *)
(***************************************************************************)
EXTENDS Controllers, TLAPS

(* What pruning does to the two code maps, given that they agree: exactly  *)
(* the expired codes and the entries of their hosts disappear              *)
(* (prune_expired, controllers.rs:187-206).                                *)
LEMMA PruneKeepsAgreement ==
    ASSUME TypeOK, CodesMatchHosts
    PROVE  /\ PrunedCodes \in [Codes -> HostRegistration \cup {None}]
           /\ PrunedHosts \in [Screens -> Codes \cup {None}]
           /\ \A c \in Codes : PrunedCodes[c] # None =>
                    /\ Live(c)
                    /\ PrunedCodes[c] = codeToHost[c]
                    /\ PrunedHosts[PrunedCodes[c].host] = c
           /\ \A h \in Screens : PrunedHosts[h] # None =>
                    /\ PrunedHosts[h] = hostToCode[h]
                    /\ PrunedCodes[PrunedHosts[h]] # None
                    /\ PrunedCodes[PrunedHosts[h]].host = h
<1> USE TTLAssumption, NoneAssumption
         DEF TypeOK, CodesMatchHosts, HostRegistration, Registered, Expired, Live
<1>1. PrunedCodes \in [Codes -> HostRegistration \cup {None}]
  BY DEF PrunedCodes
<1>2. PrunedHosts \in [Screens -> Codes \cup {None}]
  BY DEF PrunedHosts
<1>3. ASSUME NEW c \in Codes, PrunedCodes[c] # None
      PROVE  /\ Live(c)
             /\ PrunedCodes[c] = codeToHost[c]
             /\ PrunedHosts[PrunedCodes[c].host] = c
  BY <1>3 DEF PrunedCodes, PrunedHosts
<1>4. ASSUME NEW h \in Screens, PrunedHosts[h] # None
      PROVE  /\ PrunedHosts[h] = hostToCode[h]
             /\ PrunedCodes[PrunedHosts[h]] # None
             /\ PrunedCodes[PrunedHosts[h]].host = h
  BY <1>4 DEF PrunedCodes, PrunedHosts
<1>5. QED
  BY <1>1, <1>2, <1>3, <1>4

-----------------------------------------------------------------------------
(* Every step keeps the types (controllers.rs:23-40). *)
LEMMA TypeOKStep ==
    ASSUME TypeOK, [Next]_vars
    PROVE  TypeOK'
<1> USE TTLAssumption, NoneAssumption
         DEF TypeOK, HostRegistration, ControllerRoute, Peers
<1>0. /\ PrunedCodes \in [Codes -> HostRegistration \cup {None}]
      /\ PrunedHosts \in [Screens -> Codes \cup {None}]
  BY DEF PrunedCodes, PrunedHosts
<1>1. ASSUME NEW h \in Screens \ gone, NEW w \in Workers, NEW c \in Codes, RegisterHost(h, w, c)
      PROVE  TypeOK'
  BY <1>0, <1>1 DEF RegisterHost, RoutesRefreshed
<1>2. ASSUME NEW p \in Phones \ gone, NEW c \in Codes, JoinAccepted(p, c)
      PROVE  TypeOK'
  BY <1>0, <1>2 DEF JoinAccepted, Live, Registered
<1>3. ASSUME NEW p \in Phones \ gone, NEW c \in Codes, JoinRefused(p, c)
      PROVE  TypeOK'
  BY <1>0, <1>3 DEF JoinRefused
<1>4. ASSUME NEW p \in Peers \ gone, CleanupController(p)
      PROVE  TypeOK'
  BY <1>4 DEF CleanupController
<1>5. ASSUME NEW p \in Peers \ gone, CleanupHost(p)
      PROVE  TypeOK'
  BY <1>5 DEF CleanupHost
<1>6. ASSUME Tick
      PROVE  TypeOK'
  BY <1>6 DEF Tick, Live, Registered
<1>7. CASE UNCHANGED vars
  BY <1>7 DEF vars
<1>8. QED
  BY <1>1, <1>2, <1>3, <1>4, <1>5, <1>6, <1>7 DEF Next, CleanupPeer

(* Type correctness (controllers.rs:23-40). *)
THEOREM TypeCorrect == Spec => []TypeOK
<1>1. Init => TypeOK
  BY TTLAssumption, NoneAssumption DEF Init, TypeOK, HostRegistration, ControllerRoute, Peers
<1>2. TypeOK /\ [Next]_vars => TypeOK'
  BY TypeOKStep
<1>3. QED
  BY <1>1, <1>2, PTL DEF Spec

-----------------------------------------------------------------------------
(* The passing of time changes nothing of a registration but what is left  *)
(* of its life (controllers.rs:187-193).                                   *)
LEMMA TickEffect ==
    ASSUME TypeOK, Tick, NEW c \in Codes
    PROVE  /\ codeToHost'[c] = None <=> codeToHost[c] = None
           /\ codeToHost[c] # None =>
                /\ codeToHost'[c].host = codeToHost[c].host
                /\ codeToHost'[c].worker = codeToHost[c].worker
<1> USE NoneAssumption DEF TypeOK, HostRegistration
<1>1. CASE Live(c)
  <2>1. codeToHost'[c] = [codeToHost[c] EXCEPT !.left = @ - 1]
    BY <1>1 DEF Tick
  <2>2. codeToHost[c] \in HostRegistration /\ codeToHost[c].left \in 1..TTL
    BY <1>1, TTLAssumption DEF Live, Registered
  <2>3. codeToHost'[c] \in HostRegistration
    BY <2>1, <2>2, TTLAssumption
  <2>4. QED
    BY <2>1, <2>2, <2>3
<1>2. CASE ~Live(c)
  BY <1>2 DEF Tick
<1>3. QED
  BY <1>1, <1>2

(* CodesMatchHosts is inductive on its own, given the types. *)
LEMMA CodesMatchHostsStep ==
    ASSUME TypeOK, CodesMatchHosts, [Next]_vars
    PROVE  CodesMatchHosts'
<1> USE TTLAssumption, NoneAssumption
         DEF TypeOK, HostRegistration, ControllerRoute, Peers, CodesMatchHosts, Registered
<1>0. /\ PrunedCodes \in [Codes -> HostRegistration \cup {None}]
      /\ PrunedHosts \in [Screens -> Codes \cup {None}]
      /\ \A c \in Codes : PrunedCodes[c] # None => PrunedHosts[PrunedCodes[c].host] = c
      /\ \A h \in Screens : PrunedHosts[h] # None =>
            /\ PrunedCodes[PrunedHosts[h]] # None
            /\ PrunedCodes[PrunedHosts[h]].host = h
  BY PruneKeepsAgreement
<1>1. ASSUME NEW h \in Screens \ gone, NEW w \in Workers, NEW c \in Codes, RegisterHost(h, w, c)
      PROVE  CodesMatchHosts'
  <2>1. CASE PrunedCodes[c] = None
    BY <1>0, <1>1, <2>1 DEF RegisterHost, CodeFor
  <2>2. CASE PrunedCodes[c] # None
    BY <1>0, <1>1, <2>2 DEF RegisterHost, CodeFor
  <2>3. QED
    BY <2>1, <2>2
<1>2. ASSUME NEW p \in Phones \ gone, NEW c \in Codes, JoinAccepted(p, c) \/ JoinRefused(p, c)
      PROVE  CodesMatchHosts'
  BY <1>0, <1>2 DEF JoinAccepted, JoinRefused
<1>3. ASSUME NEW p \in Peers \ gone, CleanupController(p)
      PROVE  CodesMatchHosts'
  BY <1>3 DEF CleanupController
<1>4. ASSUME NEW p \in Peers \ gone, CleanupHost(p)
      PROVE  CodesMatchHosts'
  BY <1>4 DEF CleanupHost
<1>5. ASSUME Tick
      PROVE  CodesMatchHosts'
  <2>1. UNCHANGED hostToCode
    BY <1>5 DEF Tick
  <2>2. QED
    BY <1>5, <2>1, TickEffect
<1>6. CASE UNCHANGED vars
  BY <1>6 DEF vars
<1>7. QED
  BY <1>1, <1>2, <1>3, <1>4, <1>5, <1>6 DEF Next, CleanupPeer

(* Codes and hosts always pair up one to one (controllers.rs:64-91).       *)
THEOREM CodesAgree == Spec => []CodesMatchHosts
<1>1. Init => CodesMatchHosts
  BY DEF Init, CodesMatchHosts, Registered
<1>2. TypeOK /\ CodesMatchHosts /\ [Next]_vars => CodesMatchHosts'
  BY CodesMatchHostsStep
<1>3. QED
  BY <1>1, <1>2, TypeCorrect, PTL DEF Spec

-----------------------------------------------------------------------------
(* What the remaining invariants need of register_host, the one action     *)
(* that changes a worker: afterwards every registration and every route of *)
(* the host names the new worker, and those of other hosts are untouched.  *)
LEMMA RegisterHostEffect ==
    ASSUME TypeOK, CodesMatchHosts,
           NEW h \in Screens, NEW w \in Workers, NEW c \in Codes, RegisterHost(h, w, c)
    PROVE  /\ codeToHost'[c] = [host |-> h, worker |-> w, left |-> TTL]
           /\ \A d \in Codes \ {c} : codeToHost'[d] # None =>
                    codeToHost'[d] = codeToHost[d] /\ codeToHost[d].host # h
           /\ \A p \in Phones : controllerToHost'[p] # None =>
                    \/ controllerToHost'[p] = [host |-> h, worker |-> w]
                    \/ /\ controllerToHost'[p] = controllerToHost[p]
                       /\ controllerToHost[p].host # h
           /\ lastWorker' = [lastWorker EXCEPT ![h] = w]
<1> USE TTLAssumption, NoneAssumption
         DEF TypeOK, HostRegistration, ControllerRoute, Registered
<1>0. /\ PrunedCodes \in [Codes -> HostRegistration \cup {None}]
      /\ PrunedHosts \in [Screens -> Codes \cup {None}]
      /\ \A d \in Codes : PrunedCodes[d] # None =>
            PrunedCodes[d] = codeToHost[d] /\ PrunedHosts[PrunedCodes[d].host] = d
      /\ \A s \in Screens : PrunedHosts[s] # None =>
            PrunedCodes[PrunedHosts[s]] # None /\ PrunedCodes[PrunedHosts[s]].host = s
  BY PruneKeepsAgreement
<1>1. codeToHost'[c] = [host |-> h, worker |-> w, left |-> TTL]
  BY <1>0 DEF RegisterHost, CodeFor
<1>2. ASSUME NEW d \in Codes \ {c}, codeToHost'[d] # None
      PROVE  codeToHost'[d] = codeToHost[d] /\ codeToHost[d].host # h
  BY <1>0, <1>2 DEF RegisterHost, CodeFor
<1>3. ASSUME NEW p \in Phones, controllerToHost'[p] # None
      PROVE  \/ controllerToHost'[p] = [host |-> h, worker |-> w]
             \/ /\ controllerToHost'[p] = controllerToHost[p]
                /\ controllerToHost[p].host # h
  BY <1>3 DEF RegisterHost, RoutesRefreshed
<1>4. lastWorker' = [lastWorker EXCEPT ![h] = w]
  BY DEF RegisterHost
<1>5. QED
  BY <1>1, <1>2, <1>3, <1>4

LEMMA InputsFollowHostStep ==
    ASSUME TypeOK, CodesMatchHosts, InputsFollowHost, [Next]_vars
    PROVE  InputsFollowHost'
<1> USE TTLAssumption, NoneAssumption
         DEF TypeOK, HostRegistration, ControllerRoute, Peers, InputsFollowHost, Registered
<1>0. /\ PrunedCodes \in [Codes -> HostRegistration \cup {None}]
      /\ \A c \in Codes : PrunedCodes[c] # None => PrunedCodes[c] = codeToHost[c]
  BY PruneKeepsAgreement
<1>1. ASSUME NEW h \in Screens \ gone, NEW w \in Workers, NEW c \in Codes, RegisterHost(h, w, c)
      PROVE  InputsFollowHost'
  <2>1. /\ codeToHost'[c] = [host |-> h, worker |-> w, left |-> TTL]
        /\ \A d \in Codes \ {c} : codeToHost'[d] # None =>
              codeToHost'[d] = codeToHost[d] /\ codeToHost[d].host # h
        /\ \A p \in Phones : controllerToHost'[p] # None =>
              \/ controllerToHost'[p] = [host |-> h, worker |-> w]
              \/ controllerToHost'[p] = controllerToHost[p] /\ controllerToHost[p].host # h
        /\ lastWorker' = [lastWorker EXCEPT ![h] = w]
    BY <1>1, RegisterHostEffect
  <2>2. QED
    BY <2>1
<1>2. ASSUME NEW p \in Phones \ gone, NEW c \in Codes, JoinAccepted(p, c)
      PROVE  InputsFollowHost'
  BY <1>0, <1>2 DEF JoinAccepted, Live
<1>3. ASSUME NEW p \in Phones \ gone, NEW c \in Codes, JoinRefused(p, c)
      PROVE  InputsFollowHost'
  BY <1>0, <1>3 DEF JoinRefused
<1>4. ASSUME NEW p \in Peers \ gone, CleanupPeer(p)
      PROVE  InputsFollowHost'
  BY <1>4 DEF CleanupPeer, CleanupController, CleanupHost
<1>5. ASSUME Tick
      PROVE  InputsFollowHost'
  <2>1. UNCHANGED <<controllerToHost, lastWorker>>
    BY <1>5 DEF Tick
  <2>2. QED
    BY <1>5, <2>1, TickEffect
<1>6. CASE UNCHANGED vars
  BY <1>6 DEF vars
<1>7. QED
  BY <1>1, <1>2, <1>3, <1>4, <1>5, <1>6 DEF Next

LEMMA GoneLeavesNothingStep ==
    ASSUME TypeOK, CodesMatchHosts, GoneLeavesNothing, [Next]_vars
    PROVE  GoneLeavesNothing'
<1> USE TTLAssumption, NoneAssumption
         DEF TypeOK, HostRegistration, ControllerRoute, Peers, GoneLeavesNothing,
             Registered, RoutedTo, IsRouted
<1>0. /\ PrunedCodes \in [Codes -> HostRegistration \cup {None}]
      /\ \A c \in Codes : PrunedCodes[c] # None => PrunedCodes[c] = codeToHost[c]
  BY PruneKeepsAgreement
<1>1. ASSUME NEW h \in Screens \ gone, NEW w \in Workers, NEW c \in Codes, RegisterHost(h, w, c)
      PROVE  GoneLeavesNothing'
  <2>1. /\ codeToHost'[c] = [host |-> h, worker |-> w, left |-> TTL]
        /\ \A d \in Codes \ {c} : codeToHost'[d] # None => codeToHost'[d] = codeToHost[d]
        /\ \A p \in Phones : controllerToHost'[p] # None =>
              \/ controllerToHost'[p] = [host |-> h, worker |-> w]
              \/ controllerToHost'[p] = controllerToHost[p]
    BY <1>1, RegisterHostEffect
  <2>2. h \notin gone /\ gone' = gone
    BY <1>1 DEF RegisterHost
  <2>3. \A p \in Phones : controllerToHost[p] = None => controllerToHost'[p] = None
    BY <1>1 DEF RegisterHost, RoutesRefreshed
  <2>4. QED
    BY <2>1, <2>2, <2>3
<1>2. ASSUME NEW p \in Phones \ gone, NEW c \in Codes, JoinAccepted(p, c)
      PROVE  GoneLeavesNothing'
  BY <1>0, <1>2 DEF JoinAccepted, Live
<1>3. ASSUME NEW p \in Phones \ gone, NEW c \in Codes, JoinRefused(p, c)
      PROVE  GoneLeavesNothing'
  BY <1>0, <1>3 DEF JoinRefused
<1>4. ASSUME NEW p \in Peers \ gone, CleanupController(p)
      PROVE  GoneLeavesNothing'
  BY <1>4 DEF CleanupController
<1>5. ASSUME NEW p \in Peers \ gone, CleanupHost(p)
      PROVE  GoneLeavesNothing'
  BY <1>5 DEF CleanupHost, CodesMatchHosts
<1>6. ASSUME Tick
      PROVE  GoneLeavesNothing'
  <2>1. UNCHANGED <<controllerToHost, gone>>
    BY <1>6 DEF Tick
  <2>2. QED
    BY <1>6, <2>1, TickEffect
<1>7. CASE UNCHANGED vars
  BY <1>7 DEF vars
<1>8. QED
  BY <1>1, <1>2, <1>3, <1>4, <1>5, <1>6, <1>7 DEF Next, CleanupPeer

(* The inductive invariant. *)
IInv == TypeOK /\ CodesMatchHosts /\ InputsFollowHost /\ GoneLeavesNothing

LEMMA IInvHolds == Spec => []IInv
<1>1. Init => IInv
  BY NoneAssumption
     DEF Init, IInv, TypeOK, CodesMatchHosts, InputsFollowHost, GoneLeavesNothing,
         Registered, RoutedTo, IsRouted, Peers
<1>2. TypeOK' /\ IInv /\ [Next]_vars => IInv'
  BY CodesMatchHostsStep, InputsFollowHostStep, GoneLeavesNothingStep DEF IInv
<1>3. QED
  BY <1>1, <1>2, TypeCorrect, PTL DEF Spec

(* An input never goes to a worker its host has left behind: every copy of *)
(* the worker in the table is the one the host named last                  *)
(* (controllers.rs:60-95, 112-123, 129-137).                               *)
THEOREM InputsReachTheHostsWorker == Spec => []InputsFollowHost
BY IInvHolds, PTL DEF IInv

(* After cleanup_peer nothing in the table mentions the peer               *)
(* (controllers.rs:139-174), if it was a screen or a phone and not both.   *)
THEOREM CleanupIsComplete == Spec => []GoneLeavesNothing
BY IInvHolds, PTL DEF IInv

-----------------------------------------------------------------------------
(* A live code stays its host's code (controllers.rs:64-76, 208-224).      *)
THEOREM CodeStability == Spec => LiveCodeIsStable
<1> DEFINE Stable ==
        \A h \in Screens :
            hostToCode[h] # None /\ Live(hostToCode[h]) =>
                \/ h \in gone'
                \/ hostToCode'[h] = hostToCode[h] /\ codeToHost'[hostToCode[h]].host = h
<1>1. IInv /\ [Next]_vars => [Stable]_vars
  <2> SUFFICES ASSUME IInv, Next, NEW h \in Screens,
                      hostToCode[h] # None, Live(hostToCode[h]), h \notin gone'
               PROVE  hostToCode'[h] = hostToCode[h] /\ codeToHost'[hostToCode[h]].host = h
    OBVIOUS
  <2> DEFINE c == hostToCode[h]
  <2> USE TTLAssumption, NoneAssumption
           DEF IInv, TypeOK, CodesMatchHosts, HostRegistration, ControllerRoute, Peers,
               Registered, Live
  <2>0. /\ c \in Codes
        /\ codeToHost[c] # None
        /\ codeToHost[c].host = h
        /\ PrunedCodes[c] = codeToHost[c]
        /\ PrunedHosts[h] = c
    BY DEF PrunedCodes, PrunedHosts, Expired
  <2>1. ASSUME NEW s \in Screens \ gone, NEW w \in Workers, NEW d \in Codes, RegisterHost(s, w, d)
        PROVE  hostToCode'[h] = c /\ codeToHost'[c].host = h
    <3>1. CASE s = h
      BY <2>0, <2>1, <3>1 DEF RegisterHost, CodeFor, PrunedCodes, PrunedHosts
    <3>2. CASE s # h
      <4>1. d # c
        BY <2>0, <2>1, <3>2, PruneKeepsAgreement DEF RegisterHost, CodeFor
      <4>2. QED
        BY <2>0, <2>1, <3>2, <4>1 DEF RegisterHost, PrunedCodes, PrunedHosts
    <3>3. QED
      BY <3>1, <3>2
  <2>2. ASSUME NEW p \in Phones \ gone, NEW d \in Codes, JoinAccepted(p, d) \/ JoinRefused(p, d)
        PROVE  hostToCode'[h] = c /\ codeToHost'[c].host = h
    BY <2>0, <2>2 DEF JoinAccepted, JoinRefused
  <2>3. ASSUME NEW p \in Peers \ gone, CleanupPeer(p)
        PROVE  hostToCode'[h] = c /\ codeToHost'[c].host = h
    BY <2>0, <2>3 DEF CleanupPeer, CleanupController, CleanupHost
  <2>4. ASSUME Tick
        PROVE  hostToCode'[h] = c /\ codeToHost'[c].host = h
    BY <2>0, <2>4 DEF Tick
  <2>5. QED
    BY <2>1, <2>2, <2>3, <2>4 DEF Next
<1>2. QED
  BY <1>1, IInvHolds, PTL DEF Spec, LiveCodeIsStable

(* A pairing ends only when the phone or its host leaves                   *)
(* (controllers.rs:139-174).                                               *)
THEOREM PairingDuration == Spec => PairingOutlivesCode
<1> DEFINE Outlives ==
        \A p \in Phones :
            controllerToHost[p] # None /\ controllerToHost'[p] = None =>
                p \in gone' \/ controllerToHost[p].host \in gone'
<1>1. TypeOK /\ [Next]_vars => [Outlives]_vars
  BY NoneAssumption
     DEF TypeOK, Next, RegisterHost, RoutesRefreshed, JoinAccepted, JoinRefused,
         CleanupPeer, CleanupController, CleanupHost, RoutedTo, Tick,
         ControllerRoute, HostRegistration, Live, Registered
<1>2. QED
  BY <1>1, TypeCorrect, PTL DEF Spec, PairingOutlivesCode
=============================================================================
