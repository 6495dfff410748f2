--------------------------- MODULE TargetedRdProofs --------------------------
(***************************************************************************)
(* Proofs about TargetedRd for any number of threads and CPUs: the         *)
(* controller and the module agree, the results carry the right label, and *)
(* the controller implements the window semantics of RdWindows.            *)
(***************************************************************************)
EXTENDS TargetedRd, SequenceTheorems, WellFoundedInduction, TLAPS

ContextType == [tid : Tids, cpu : Cpus, active : BOOLEAN, enabled : BOOLEAN,
                alive : BOOLEAN, data : SUBSET {"auto", "explicit"}, late : BOOLEAN]

(***************************************************************************)
(* The constructor has opened the automatic window before any callback can *)
(* reach the controller, and nothing is active after close.                *)
(***************************************************************************)
StartupInv ==
    /\ lib \in {"construct", "enumerate", "register"} =>
          window = [open |-> FALSE, auto |-> FALSE, seen |-> FALSE]
    /\ lib \in {"construct", "enumerate", "register", "store", "aborted"} =>
          /\ ~lib_targeted_rd
          /\ \A t \in Tids : pc[t] \notin {"start", "stop"}
    /\ lib \notin {"construct", "enumerate", "register", "aborted"} => window.auto \/ window.seen
    /\ lib = "down" => \A i \in DOMAIN contexts : ~contexts[i].active

(***************************************************************************)
(* A handler in flight was let in by a window of the kind that the results *)
(* are labelled with, or by the automatic one and its context is late.     *)
(***************************************************************************)
HitInv ==
    \A t \in Handling :
        /\ hit[t].context \in DOMAIN contexts
        /\ \/ hit[t].kind = Label
           \/ hit[t].kind = "auto" /\ contexts[hit[t].context].late

IInv ==
    /\ TypeOK /\ StartupInv /\ BindingsAgree /\ EventsFollowWindow
    /\ HitInv /\ LabelMatchesData

-----------------------------------------------------------------------------
(***************************************************************************)
(* The operations on the list of contexts keep its length and its type.    *)
(***************************************************************************)

LEMMA MapSeq ==
    ASSUME NEW S, NEW s \in Seq(S), NEW f \in [DOMAIN s -> S]
    PROVE  f \in Seq(S) /\ Len(f) = Len(s) /\ DOMAIN f = DOMAIN s
  OBVIOUS

LEMMA SwitchedType ==
    ASSUME NEW c \in Seq(ContextType), NEW on \in BOOLEAN
    PROVE  /\ Switched(c, on) \in Seq(ContextType)
           /\ Len(Switched(c, on)) = Len(c)
           /\ DOMAIN Switched(c, on) = DOMAIN c
           /\ \A i \in DOMAIN c :
                 /\ Switched(c, on)[i].tid = c[i].tid
                 /\ Switched(c, on)[i].cpu = c[i].cpu
                 /\ Switched(c, on)[i].active = c[i].active
                 /\ Switched(c, on)[i].data = c[i].data
                 /\ Switched(c, on)[i].late = c[i].late
                 /\ Switched(c, on)[i].enabled = IF c[i].active THEN on ELSE c[i].enabled
<1>1. \A i \in DOMAIN c : c[i] \in ContextType
  OBVIOUS
<1>2. Switched(c, on) \in [DOMAIN c -> ContextType]
  BY <1>1, Zenon DEF Switched, ContextType
<1>3. \A i \in DOMAIN c :
                 /\ Switched(c, on)[i].tid = c[i].tid
                 /\ Switched(c, on)[i].cpu = c[i].cpu
                 /\ Switched(c, on)[i].active = c[i].active
                 /\ Switched(c, on)[i].data = c[i].data
                 /\ Switched(c, on)[i].late = c[i].late
                 /\ Switched(c, on)[i].enabled = IF c[i].active THEN on ELSE c[i].enabled
  BY <1>1, Zenon DEF Switched, ContextType
<1> QED BY <1>2, <1>3, MapSeq, Zenon

LEMMA ClearedType ==
    ASSUME NEW c \in Seq(ContextType)
    PROVE  /\ Cleared(c) \in Seq(ContextType)
           /\ Len(Cleared(c)) = Len(c)
           /\ DOMAIN Cleared(c) = DOMAIN c
           /\ \A i \in DOMAIN c :
                 /\ Cleared(c)[i].tid = c[i].tid
                 /\ Cleared(c)[i].cpu = c[i].cpu
                 /\ Cleared(c)[i].active = c[i].active
                 /\ Cleared(c)[i].enabled = c[i].enabled
                 /\ Cleared(c)[i].data = {}
                 /\ Cleared(c)[i].late = Busy(i)
<1>1. \A i \in DOMAIN c : c[i] \in ContextType
  OBVIOUS
<1>4. \A i : Busy(i) \in BOOLEAN
  BY Zenon DEF Busy
<1>2. Cleared(c) \in [DOMAIN c -> ContextType]
  BY <1>1, <1>4, Zenon DEF Cleared, ContextType
<1>3. \A i \in DOMAIN c :
                 /\ Cleared(c)[i].tid = c[i].tid
                 /\ Cleared(c)[i].cpu = c[i].cpu
                 /\ Cleared(c)[i].active = c[i].active
                 /\ Cleared(c)[i].enabled = c[i].enabled
                 /\ Cleared(c)[i].data = {}
                 /\ Cleared(c)[i].late = Busy(i)
  BY <1>1, Zenon DEF Cleared, ContextType
<1> QED BY <1>2, <1>3, MapSeq, Zenon

LEMMA DetachedType ==
    ASSUME NEW S, contexts \in Seq(ContextType)
    PROVE  /\ Detached(S) \in Seq(ContextType)
           /\ Len(Detached(S)) = Len(contexts)
           /\ DOMAIN Detached(S) = DOMAIN contexts
           /\ \A i \in DOMAIN contexts :
                 /\ Detached(S)[i].tid = contexts[i].tid
                 /\ Detached(S)[i].cpu = contexts[i].cpu
                 /\ Detached(S)[i].data = contexts[i].data
                 /\ Detached(S)[i].late = contexts[i].late
                 /\ contexts[i].tid \in S =>
                       ~Detached(S)[i].active /\ ~Detached(S)[i].enabled
                 /\ contexts[i].tid \notin S => Detached(S)[i] = contexts[i]
<1>1. \A i \in DOMAIN contexts : contexts[i] \in ContextType
  OBVIOUS
<1>2. Detached(S) \in [DOMAIN contexts -> ContextType]
  BY <1>1, Zenon DEF Detached, ContextType
<1>3. \A i \in DOMAIN contexts :
                 /\ Detached(S)[i].tid = contexts[i].tid
                 /\ Detached(S)[i].cpu = contexts[i].cpu
                 /\ Detached(S)[i].data = contexts[i].data
                 /\ Detached(S)[i].late = contexts[i].late
                 /\ contexts[i].tid \in S =>
                       ~Detached(S)[i].active /\ ~Detached(S)[i].enabled
                 /\ contexts[i].tid \notin S => Detached(S)[i] = contexts[i]
  BY <1>1, Zenon DEF Detached, ContextType
<1> QED BY <1>2, <1>3, MapSeq, Zenon

LEMMA EndedType ==
    ASSUME NEW t, contexts \in Seq(ContextType)
    PROVE  /\ Ended(t) \in Seq(ContextType)
           /\ Len(Ended(t)) = Len(contexts)
           /\ DOMAIN Ended(t) = DOMAIN contexts
           /\ \A i \in DOMAIN contexts :
                 /\ Ended(t)[i].tid = contexts[i].tid
                 /\ Ended(t)[i].cpu = contexts[i].cpu
                 /\ Ended(t)[i].active = contexts[i].active
                 /\ Ended(t)[i].enabled = contexts[i].enabled
                 /\ Ended(t)[i].data = contexts[i].data
                 /\ Ended(t)[i].late = contexts[i].late
<1>1. \A i \in DOMAIN contexts : contexts[i] \in ContextType
  OBVIOUS
<1>2. Ended(t) \in [DOMAIN contexts -> ContextType]
  BY <1>1, Zenon DEF Ended, ContextType
<1>3. \A i \in DOMAIN contexts :
                 /\ Ended(t)[i].tid = contexts[i].tid
                 /\ Ended(t)[i].cpu = contexts[i].cpu
                 /\ Ended(t)[i].active = contexts[i].active
                 /\ Ended(t)[i].enabled = contexts[i].enabled
                 /\ Ended(t)[i].data = contexts[i].data
                 /\ Ended(t)[i].late = contexts[i].late
  BY <1>1, Zenon DEF Ended, ContextType
<1> QED BY <1>2, <1>3, MapSeq, Zenon

LEMMA AppendedType ==
    ASSUME contexts \in Seq(ContextType), running \in BOOLEAN,
           NEW t \in Tids, NEW cpu \in Cpus,
           contexts' = Append(contexts, NewContext(t, cpu))
    PROVE  /\ contexts' \in Seq(ContextType)
           /\ Len(contexts') = Len(contexts) + 1
           /\ DOMAIN contexts' = DOMAIN contexts \cup {Len(contexts) + 1}
           /\ Len(contexts) + 1 \notin DOMAIN contexts
           /\ \A i \in DOMAIN contexts : contexts'[i] = contexts[i]
           /\ contexts'[Len(contexts) + 1] = NewContext(t, cpu)
<1>1. NewContext(t, cpu) \in ContextType
  BY Zenon DEF NewContext, ContextType
<1> QED BY <1>1, AppendProperties

-----------------------------------------------------------------------------
(***************************************************************************)
(* Steps that change contexts at most in enabled, alive and data.          *)
(***************************************************************************)

SameContexts ==
    /\ DOMAIN contexts' = DOMAIN contexts
    /\ \A i \in DOMAIN contexts :
          /\ contexts'[i].tid = contexts[i].tid
          /\ contexts'[i].cpu = contexts[i].cpu
          /\ contexts'[i].active = contexts[i].active

SameResults ==
    \A i \in DOMAIN contexts :
          /\ contexts'[i].enabled = contexts[i].enabled
          /\ contexts'[i].data = contexts[i].data
          /\ contexts'[i].late = contexts[i].late

\* No handler starts or ends.
SameHits == hit' = hit /\ \A t \in Tids : pc'[t] = "hit" <=> pc[t] = "hit"

LEMMA HandlingSame ==
    ASSUME SameHits
    PROVE  Handling' = Handling /\ InFlight' = InFlight
<1>1. Handling' = Handling
  BY Zenon DEF SameHits, Handling
<1> QED BY <1>1, Zenon DEF SameHits, InFlight

LEMMA HitsKept ==
    ASSUME HitInv, SameHits, window'.seen = window.seen,
           DOMAIN contexts \subseteq DOMAIN contexts',
           \A i \in DOMAIN contexts : contexts'[i].late = contexts[i].late
    PROVE  HitInv'
<1>1. Label' = Label
  BY Zenon DEF Label
<1>2. Handling' = Handling /\ hit' = hit
  BY HandlingSame, Zenon DEF SameHits
<1> QED BY <1>1, <1>2, Zenon DEF HitInv

LEMMA AgreeSame ==
    ASSUME BindingsAgree, lib' # "down" => lib # "down", SameContexts, UNCHANGED bindVars
    PROVE  BindingsAgree'
<1>1. \A t \in Tids : ActiveContexts(t)' = ActiveContexts(t)
  BY Zenon DEF ActiveContexts, SameContexts
<1>2. \A t : Bound(t)' = Bound(t)
  BY Zenon DEF Bound, bindVars
<1>3. BoundTids' = BoundTids
  BY <1>2, Zenon DEF BoundTids
<1> QED BY <1>1, <1>2, <1>3 DEF BindingsAgree, SameContexts, bindVars

LEMMA InvSame ==
    ASSUME IInv, lib' # "down" => lib # "down", SameContexts, SameResults, SameHits,
           UNCHANGED <<bindVars, window, running>>
    PROVE  BindingsAgree' /\ EventsFollowWindow' /\ HitInv' /\ LabelMatchesData'
<1>1. BindingsAgree'
  BY AgreeSame, Zenon DEF IInv
<1>2. EventsFollowWindow'
  BY Zenon DEF IInv, EventsFollowWindow, SameContexts, SameResults
<1>3. LabelMatchesData'
  BY Zenon DEF IInv, LabelMatchesData, Label, SameContexts, SameResults
<1>4. HitInv'
  BY HitsKept, Zenon DEF IInv, SameContexts, SameResults
<1> QED BY <1>1, <1>2, <1>3, <1>4, Zenon

LEMMA ContextsFixed ==
    ASSUME UNCHANGED contexts
    PROVE  SameContexts /\ SameResults
  BY Zenon DEF SameContexts, SameResults

LEMMA ContextsType == TypeOK <=>
    /\ pc \in [Tids -> Steps]
    /\ mask \in [Tids -> SUBSET Cpus]
    /\ lib \in {"construct", "enumerate", "register", "store", "up", "stop", "unregister",
                "write", "close", "down", "aborted"}
    /\ lib_targeted_rd \in BOOLEAN /\ initial \subseteq Tids
    /\ window \in [open : BOOLEAN, auto : BOOLEAN, seen : BOOLEAN]
    /\ cpu_owner \subseteq Cpus /\ scratch \subseteq Tids
    /\ threads \in [Tids -> [cpu : Cpus, active : BOOLEAN] \cup {NoBinding}]
    /\ running \in BOOLEAN
    /\ contexts \in Seq(ContextType)
    /\ hit \in [Tids -> [context : 0 .. Len(contexts), kind : {"auto", "explicit"}]]
    /\ files \in [Tids -> 0 .. Len(contexts)]
  BY Zenon DEF TypeOK, ContextType

LEMMA ContextTids ==
    ASSUME TypeOK
    PROVE  \A i \in DOMAIN contexts : contexts[i] \in ContextType /\ contexts[i].tid \in Tids
<1>1. \A i \in DOMAIN contexts : contexts[i] \in ContextType
  BY ContextsType
<1> QED BY <1>1, Zenon DEF ContextType

-----------------------------------------------------------------------------
(***************************************************************************)
(* The initial states, and the steps that leave the session alone.         *)
(***************************************************************************)

LEMMA InitIInv == Init => IInv
<1> SUFFICES ASSUME Init PROVE IInv
  BY Zenon
<1>0. contexts \in Seq(ContextType) /\ Len(contexts) = 0 /\ DOMAIN contexts = {}
  BY DEF Init
<1>1. TypeOK
  <2>1. window \in [open : BOOLEAN, auto : BOOLEAN, seen : BOOLEAN]
    BY Zenon DEF Init
  <2>2. pc \in [Tids -> Steps]
    BY Zenon DEF Init, Steps
  <2>3. files \in [Tids -> 0 .. Len(contexts)]
    BY <1>0 DEF Init
  <2>4. threads \in [Tids -> [cpu : Cpus, active : BOOLEAN] \cup {NoBinding}]
    BY Zenon DEF Init
  <2>5. hit \in [Tids -> [context : 0 .. Len(contexts), kind : {"auto", "explicit"}]]
    BY <1>0 DEF Init, NoHit
  <2> QED BY <1>0, <2>1, <2>2, <2>3, <2>4, <2>5, ContextsType, Zenon DEF Init
<1>2. StartupInv
  BY <1>0, Zenon DEF Init, StartupInv
<1>3. BoundTids = {}
  BY Zenon DEF Init, BoundTids, Bound
<1>4. BindingsAgree
  <2>1. \A t \in Tids : ~Bound(t) /\ ActiveContexts(t) = {}
    BY <1>0, Zenon DEF Init, ActiveContexts, Bound
  <2> QED BY <1>0, <1>3, <2>1, Zenon DEF Init, BindingsAgree
<1>5. EventsFollowWindow /\ LabelMatchesData
  <2>1. running = window.open
    BY Zenon DEF Init
  <2> QED BY <1>0, <2>1, Zenon DEF EventsFollowWindow, LabelMatchesData
<1>6. HitInv
  BY Zenon DEF Init, HitInv, Handling
<1> QED BY <1>1, <1>2, <1>4, <1>5, <1>6, Zenon DEF IInv

\* Steps of the library before and after the window.
LEMMA LibAlone ==
    ASSUME IInv, construct \/ get_threads \/ lib_init \/ lib_deinit
    PROVE  IInv'
<1>1. UNCHANGED <<contexts, bindVars, window, running>>
  BY Zenon DEF construct, get_threads, lib_init, lib_deinit, sessVars
<1>2. lib' # "down" /\ lib # "down"
  BY Zenon DEF construct, get_threads, lib_init, lib_deinit
<1>3. TypeOK'
  BY <1>1, Zenon DEF IInv, TypeOK, construct, get_threads, lib_init, lib_deinit,
               progVars, libVars, bindVars
<1>4. StartupInv'
  BY <1>1, <1>2 DEF IInv, StartupInv, construct, get_threads, lib_init, lib_deinit, progVars
<1>5. SameHits
  BY Zenon DEF construct, get_threads, lib_init, lib_deinit, progVars, SameHits
<1> QED BY <1>1, <1>2, <1>3, <1>4, <1>5, InvSame, ContextsFixed, Zenon DEF IInv

LEMMA LastOne ==
    ASSUME NEW n \in Nat, NEW S, S \subseteq 1 .. n, S # {}
    PROVE  \E i \in S : \A j \in S : j <= i
<1> DEFINE T == {n - i : i \in S}
<1>1. T \subseteq Nat /\ T # {}
  <2>1. T \subseteq Nat
    OBVIOUS
  <2>2. PICK s \in S : TRUE
    BY Zenon
  <2>3. n - s \in T
    BY Zenon
  <2> QED BY <2>1, <2>3, Zenon
<1>2. PICK x \in T : \A y \in T : ~(<<y, x>> \in OpToRel(<, Nat))
  BY <1>1, NatLessThanWellFounded, WFMin, Zenon
<1>3. \A y \in T : ~(y < x)
  BY <1>1, <1>2, Zenon DEF OpToRel
<1>4. PICK i \in S : x = n - i
  BY Zenon
<1>5. \A j \in S : j <= i
  BY <1>3, <1>4
<1> QED BY <1>5, Zenon

LEMMA WriteInfoIInv ==
    ASSUME IInv, write_info
    PROVE  IInv'
<1>1. UNCHANGED <<contexts, bindVars, window, running>>
  BY Zenon DEF write_info, sessVars
<1>2. lib = "write" /\ lib' = "close"
  BY Zenon DEF write_info
<1>3. files' \in [Tids -> 0 .. Len(contexts)]
  <2> SUFFICES ASSUME NEW t \in Tids PROVE LastContext(t) \in 0 .. Len(contexts)
    BY Zenon DEF write_info
  <2> DEFINE own == {i \in DOMAIN contexts : contexts[i].tid = t}
  <2>1. own \subseteq 1 .. Len(contexts) /\ Len(contexts) \in Nat
    BY ContextsType DEF IInv
  <2>2. LastContext(t) = IF own = {} THEN 0 ELSE CHOOSE i \in own : \A j \in own : j <= i
    BY Zenon DEF LastContext
  <2> HIDE DEF own
  <2>3. own # {} => LastContext(t) \in own
    <3> SUFFICES ASSUME own # {} PROVE LastContext(t) \in own
      BY Zenon
    <3>1. \E i \in own : \A j \in own : j <= i
      BY <2>1, LastOne, Zenon
    <3>2. LastContext(t) = CHOOSE i \in own : \A j \in own : j <= i
      BY <2>2, Zenon
    <3> QED BY <3>1, <3>2, Zenon
  <2>4. own = {} => LastContext(t) = 0
    BY <2>2, Zenon
  <2>5. CASE own = {}
    BY <2>1, <2>4, <2>5
  <2>6. CASE own # {}
    <3>1. LastContext(t) \in 1 .. Len(contexts)
      BY <2>1, <2>3, <2>6, Zenon
    <3> QED BY <2>1, <3>1
  <2> QED BY <2>5, <2>6, Zenon
<1>4. TypeOK'
  BY <1>1, <1>2, <1>3, Zenon DEF IInv, TypeOK, write_info, progVars, bindVars
<1>5. StartupInv'
  BY <1>1, <1>2, Zenon DEF IInv, StartupInv, write_info, progVars
<1>6. SameHits
  BY Zenon DEF write_info, progVars, SameHits
<1> QED BY <1>1, <1>2, <1>4, <1>5, <1>6, InvSame, ContextsFixed, Zenon DEF IInv

-----------------------------------------------------------------------------
(***************************************************************************)
(* Steps of the program that do not reach the controller.                  *)
(***************************************************************************)

LEMMA ProgAlone ==
    ASSUME IInv, NEW t \in Tids, NEW child \in Tids,
           pthread_create(t, child) \/ rd_on_thread_start(t) \/ rd_start_stop(t)
    PROVE  IInv'
<1>1. UNCHANGED <<contexts, bindVars, window, running>> /\ UNCHANGED libVars
  BY Zenon DEF pthread_create, rd_on_thread_start, rd_start_stop, sessVars
<1>2. lib' = lib /\ lib_targeted_rd' = lib_targeted_rd /\ initial' = initial /\ files' = files
  BY <1>1, Zenon DEF libVars
<1>3. pc' \in [Tids -> Steps] /\ mask' \in [Tids -> SUBSET Cpus]
  BY Zenon DEF IInv, TypeOK, Steps, pthread_create, rd_on_thread_start, rd_start_stop
<1>4. SameHits
  BY Zenon DEF IInv, TypeOK, InUser, SameHits, pthread_create, rd_on_thread_start, rd_start_stop
<1>7. TypeOK'
  BY <1>1, <1>2, <1>3, <1>4, Zenon DEF IInv, TypeOK, bindVars, SameHits
<1>5. lib \in {"construct", "enumerate", "register", "store", "aborted"} =>
          \A u \in Tids : pc'[u] \notin {"start", "stop"}
  BY Zenon DEF IInv, TypeOK, StartupInv, pthread_create, rd_on_thread_start, rd_start_stop
<1>6. StartupInv'
  BY <1>1, <1>2, <1>5, Zenon DEF IInv, StartupInv
<1> QED BY <1>1, <1>2, <1>4, <1>6, <1>7, InvSame, ContextsFixed, Zenon DEF IInv

LEMMA ThreadStopIInv ==
    ASSUME IInv, NEW t \in Tids, rd_on_thread_stop(t)
    PROVE  IInv'
<1>1. /\ UNCHANGED <<bindVars, window, running>> /\ mask' = mask /\ lib' = lib
      /\ lib_targeted_rd' = lib_targeted_rd /\ initial' = initial /\ files' = files
      /\ lib \notin {"down", "aborted"}
  BY Zenon DEF rd_on_thread_stop, libVars, Alive
<1>2. contexts' = contexts \/ contexts' = Ended(t)
  BY Zenon DEF rd_on_thread_stop
<1>3. contexts \in Seq(ContextType)
  BY ContextsType, Zenon DEF IInv
<1>4. contexts' \in Seq(ContextType) /\ Len(contexts') = Len(contexts)
  BY <1>2, <1>3, EndedType, Zenon
<1>5. SameContexts /\ SameResults
  BY <1>2, <1>3, EndedType DEF SameContexts, SameResults
<1>6. pc' \in [Tids -> Steps]
  BY DEF IInv, TypeOK, Steps, rd_on_thread_stop
<1>10. SameHits
  BY Zenon DEF IInv, TypeOK, rd_on_thread_stop, SameHits
<1>7. TypeOK'
  BY <1>1, <1>4, <1>6, <1>10, Zenon DEF IInv, TypeOK, ContextType, bindVars, SameHits
<1>8. lib \in {"construct", "enumerate", "register", "store", "aborted"} =>
          \A u \in Tids : pc'[u] \notin {"start", "stop"}
  BY Zenon DEF IInv, TypeOK, StartupInv, rd_on_thread_stop
<1>9. StartupInv'
  BY <1>1, <1>8, Zenon DEF IInv, StartupInv
<1> QED BY <1>1, <1>5, <1>7, <1>9, <1>10, InvSame, Zenon DEF IInv

LEMMA HandleHitIInv ==
    ASSUME IInv, NEW t \in Tids, rd_handle_hit(t)
    PROVE  IInv'
<1>1. /\ UNCHANGED <<bindVars, window, running, contexts>> /\ mask' = mask /\ lib' = lib
      /\ lib_targeted_rd' = lib_targeted_rd /\ initial' = initial /\ files' = files
      /\ pc[t] = "user" /\ pc' = [pc EXCEPT ![t] = "hit"]
  BY Zenon DEF rd_handle_hit, libVars, InUser
<1>2. PICK i \in ActiveContexts(t) : hit' = [hit EXCEPT ![t] = [context |-> i, kind |-> Label]]
  BY Zenon DEF rd_handle_hit
<1>3. i \in DOMAIN contexts
  BY Zenon DEF ActiveContexts
<1>4. Label \in {"auto", "explicit"} /\ Label' = Label
  BY <1>1, Zenon DEF Label
<1>5. i \in 0 .. Len(contexts)
  BY <1>3, ContextsType DEF IInv
<1>6. hit' \in [Tids -> [context : 0 .. Len(contexts), kind : {"auto", "explicit"}]]
  BY <1>2, <1>4, <1>5, Zenon DEF IInv, TypeOK
<1>7. TypeOK'
  BY <1>1, <1>6, Zenon DEF IInv, TypeOK, Steps, bindVars
<1>8. StartupInv'
  BY <1>1, Zenon DEF IInv, TypeOK, StartupInv
<1>9. BindingsAgree' /\ EventsFollowWindow' /\ LabelMatchesData'
  <2>1. BindingsAgree'
    BY <1>1, AgreeSame, ContextsFixed, Zenon DEF IInv
  <2> QED BY <1>1, <1>4, <2>1, Zenon DEF IInv, EventsFollowWindow, LabelMatchesData
<1>10. HitInv'
  <2> SUFFICES ASSUME NEW u \in Handling'
               PROVE  /\ hit'[u].context \in DOMAIN contexts
                      /\ \/ hit'[u].kind = Label
                         \/ hit'[u].kind = "auto" /\ contexts[hit'[u].context].late
    BY <1>1, <1>4, Zenon DEF HitInv
  <2>1. CASE u = t
    <3>1. hit'[t] = [context |-> i, kind |-> Label]
      BY <1>2, Zenon DEF IInv, TypeOK
    <3> QED BY <1>3, <2>1, <3>1
  <2>2. CASE u # t
    <3>1. u \in Handling
      BY <1>1, <2>2, Zenon DEF Handling, IInv, TypeOK
    <3>2. hit'[u] = hit[u]
      BY <1>2, <2>2, <3>1, Zenon DEF Handling, IInv, TypeOK
    <3> QED BY <3>1, <3>2, Zenon DEF IInv, HitInv
  <2> QED BY <2>1, <2>2, Zenon
<1> QED BY <1>7, <1>8, <1>9, <1>10, Zenon DEF IInv

\* What recording does to the contexts.
LEMMA Recorded ==
    ASSUME IInv, NEW t \in Tids, rd_record_hit(t)
    PROVE  /\ hit[t].context \in DOMAIN contexts
           /\ contexts' \in Seq(ContextType) /\ Len(contexts') = Len(contexts)
           /\ SameContexts
           /\ \A i \in DOMAIN contexts :
                 /\ contexts'[i].enabled = contexts[i].enabled
                 /\ contexts'[i].late = contexts[i].late
                 /\ i # hit[t].context => contexts'[i].data = contexts[i].data
           /\ \/ contexts'[hit[t].context].data = contexts[hit[t].context].data
              \/ contexts'[hit[t].context].data =
                    contexts[hit[t].context].data \cup {hit[t].kind}
<1> DEFINE i == hit[t].context
           k == hit[t].kind
<1>1. i \in DOMAIN contexts /\ k \in {"auto", "explicit"}
  BY Zenon DEF rd_record_hit, IInv, HitInv, TypeOK
<1>2. contexts \in Seq(ContextType)
  BY ContextsType, Zenon DEF IInv
<1>3. \A j \in DOMAIN contexts : contexts[j] \in ContextType
  BY <1>2
<1>4. contexts' = contexts \/ contexts' = [contexts EXCEPT ![i].data = @ \cup {k}]
  BY Zenon DEF rd_record_hit
<1> HIDE DEF i, k
<1>5. contexts' \in [DOMAIN contexts -> ContextType]
  BY <1>1, <1>2, <1>3, <1>4 DEF ContextType
<1>6. contexts' \in Seq(ContextType) /\ Len(contexts') = Len(contexts) /\ DOMAIN contexts' = DOMAIN contexts
  BY <1>2, <1>5, MapSeq, Zenon
<1>7. \A j \in DOMAIN contexts :
         /\ contexts'[j].tid = contexts[j].tid
         /\ contexts'[j].cpu = contexts[j].cpu
         /\ contexts'[j].active = contexts[j].active
         /\ contexts'[j].enabled = contexts[j].enabled
         /\ contexts'[j].late = contexts[j].late
         /\ j # i => contexts'[j].data = contexts[j].data
  BY <1>1, <1>3, <1>4 DEF ContextType
<1>8. contexts'[i].data = contexts[i].data \/ contexts'[i].data = contexts[i].data \cup {k}
  BY <1>1, <1>3, <1>4, Zenon DEF ContextType
<1> QED BY <1>1, <1>6, <1>7, <1>8, Zenon DEF SameContexts, i, k

LEMMA RecordHitIInv ==
    ASSUME IInv, NEW t \in Tids, rd_record_hit(t)
    PROVE  IInv'
<1> DEFINE i == hit[t].context
<1>1. /\ UNCHANGED <<bindVars, window, running>> /\ mask' = mask /\ lib' = lib
      /\ lib_targeted_rd' = lib_targeted_rd /\ initial' = initial /\ files' = files
      /\ t \in Handling /\ pc' = [pc EXCEPT ![t] = "user"]
      /\ hit' = [hit EXCEPT ![t] = NoHit]
  BY Zenon DEF rd_record_hit, libVars
<1>2. /\ i \in DOMAIN contexts
      /\ contexts' \in Seq(ContextType) /\ Len(contexts') = Len(contexts)
      /\ SameContexts
      /\ \A j \in DOMAIN contexts :
            /\ contexts'[j].enabled = contexts[j].enabled
            /\ contexts'[j].late = contexts[j].late
            /\ j # i => contexts'[j].data = contexts[j].data
      /\ \/ contexts'[i].data = contexts[i].data
         \/ contexts'[i].data = contexts[i].data \cup {hit[t].kind}
  BY Recorded, Zenon
<1> HIDE DEF i
<1>3. hit' \in [Tids -> [context : 0 .. Len(contexts), kind : {"auto", "explicit"}]]
  <2>1. contexts \in Seq(ContextType)
    BY ContextsType, Zenon DEF IInv
  <2>2. NoHit \in [context : 0 .. Len(contexts), kind : {"auto", "explicit"}]
    BY <2>1 DEF NoHit
  <2> QED BY <1>1, <2>2, Zenon DEF IInv, TypeOK
<1>4. TypeOK'
  BY <1>1, <1>2, <1>3, Zenon DEF IInv, TypeOK, ContextType, Steps, bindVars
<1>5. StartupInv'
  BY <1>1, <1>2, Zenon DEF IInv, TypeOK, StartupInv, SameContexts
<1>6. BindingsAgree'
  BY <1>1, <1>2, AgreeSame, Zenon DEF IInv
<1>7. EventsFollowWindow'
  BY <1>1, <1>2, Zenon DEF IInv, EventsFollowWindow, SameContexts
<1>8. Label' = Label
  BY <1>1, Zenon DEF Label
<1>9. HitInv'
  <2> SUFFICES ASSUME NEW u \in Handling'
               PROVE  /\ hit'[u].context \in DOMAIN contexts'
                      /\ \/ hit'[u].kind = Label'
                         \/ hit'[u].kind = "auto" /\ contexts'[hit'[u].context].late
    BY Zenon DEF HitInv
  <2>1. u # t /\ u \in Handling
    BY <1>1, Zenon DEF Handling, IInv, TypeOK
  <2>2. hit'[u] = hit[u]
    BY <1>1, <2>1, Zenon DEF Handling, IInv, TypeOK
  <2> QED BY <1>2, <1>8, <2>1, <2>2, Zenon DEF IInv, HitInv, SameContexts
<1>10. LabelMatchesData'
  <2>1. hit[t].kind = Label \/ (hit[t].kind = "auto" /\ contexts[i].late)
    BY <1>1, Zenon DEF IInv, HitInv, i
  <2>2. DOMAIN contexts' = DOMAIN contexts
    BY <1>2, Zenon DEF SameContexts
  <2> SUFFICES ASSUME NEW j \in DOMAIN contexts
               PROVE  contexts'[j].data \subseteq
                        {Label} \cup (IF contexts[j].late THEN {"auto"} ELSE {})
    BY <1>2, <1>8, <2>2, Zenon DEF LabelMatchesData
  <2>3. contexts[j].data \subseteq {Label} \cup (IF contexts[j].late THEN {"auto"} ELSE {})
    BY Zenon DEF IInv, LabelMatchesData
  <2>4. CASE j # i
    BY <1>2, <2>3, <2>4, Zenon
  <2>5. CASE j = i
    BY <1>2, <2>1, <2>3, <2>5, Zenon
  <2> QED BY <2>4, <2>5, Zenon
<1> QED BY <1>4, <1>5, <1>6, <1>7, <1>9, <1>10, Zenon DEF IInv

-----------------------------------------------------------------------------
(***************************************************************************)
(* START_SESSION, STOP_SESSION and RESET_SESSION.                          *)
(***************************************************************************)

LEMMA SwitchInv ==
    ASSUME IInv, lib # "down", NEW on \in BOOLEAN, NEW c \in Seq(ContextType),
           c = contexts \/ c = Cleared(contexts),
           contexts' = Switched(c, on), running' = on, window'.open = on,
           UNCHANGED bindVars
    PROVE  /\ contexts' \in Seq(ContextType)
           /\ Len(contexts') = Len(contexts)
           /\ DOMAIN contexts' = DOMAIN contexts
           /\ \A i \in DOMAIN contexts :
                 /\ contexts'[i].data = IF c = contexts THEN contexts[i].data ELSE {}
                 /\ contexts'[i].late = c[i].late
           /\ BindingsAgree'
           /\ EventsFollowWindow'
<1>1. contexts \in Seq(ContextType)
  BY ContextsType, Zenon DEF IInv
<1>2. /\ Len(c) = Len(contexts)
      /\ DOMAIN c = DOMAIN contexts
      /\ \A i \in DOMAIN contexts :
            /\ c[i].tid = contexts[i].tid
            /\ c[i].cpu = contexts[i].cpu
            /\ c[i].active = contexts[i].active
            /\ c[i].enabled = contexts[i].enabled
            /\ c[i].data = IF c = contexts THEN contexts[i].data ELSE {}
  <2>1. CASE c = contexts
    BY <2>1, Zenon
  <2>2. CASE c # contexts
    <3>1. c = Cleared(contexts)
      BY <2>2, Zenon
    <3> QED BY <1>1, <2>2, <3>1, ClearedType, Zenon
  <2> QED BY <2>1, <2>2, Zenon
<1>3. /\ contexts' \in Seq(ContextType)
      /\ Len(contexts') = Len(contexts)
      /\ DOMAIN contexts' = DOMAIN contexts
      /\ \A i \in DOMAIN contexts :
            /\ contexts'[i].tid = contexts[i].tid
            /\ contexts'[i].cpu = contexts[i].cpu
            /\ contexts'[i].active = contexts[i].active
            /\ contexts'[i].data = c[i].data
            /\ contexts'[i].late = c[i].late
            /\ contexts'[i].enabled = IF contexts[i].active THEN on ELSE contexts[i].enabled
  BY <1>2, SwitchedType
<1>4. BindingsAgree'
  BY <1>3, AgreeSame, Zenon DEF IInv, SameContexts
<1>5. \A i \in DOMAIN contexts : contexts[i] \in ContextType
  BY <1>1
<1>6. \A i \in DOMAIN contexts : ~contexts[i].active => contexts[i].enabled = FALSE
  BY <1>5, Zenon DEF IInv, EventsFollowWindow, ContextType
<1>7. \A i \in DOMAIN contexts : contexts'[i].enabled = (contexts'[i].active /\ on)
  <2> SUFFICES ASSUME NEW i \in DOMAIN contexts
               PROVE  contexts'[i].enabled = (contexts'[i].active /\ on)
    BY Zenon
  <2>1. contexts[i].active \in BOOLEAN
    BY <1>5, Zenon DEF ContextType
  <2>2. CASE contexts[i].active
    BY <1>3, <2>2, Zenon
  <2>3. CASE ~contexts[i].active
    BY <1>3, <1>6, <2>3, Zenon
  <2> QED BY <2>1, <2>2, <2>3, Zenon
<1>8. EventsFollowWindow'
  BY <1>3, <1>7, Zenon DEF EventsFollowWindow
<1> QED BY <1>2, <1>3, <1>4, <1>8, Zenon

LEMMA StartWindowIInv ==
    ASSUME IInv, start_window_locked
    PROVE  IInv'
<1>1. contexts \in Seq(ContextType)
  BY ContextsType, Zenon DEF IInv
<1>2. /\ lib = "register" /\ lib' = "store" /\ running' = TRUE
      /\ contexts' = Switched(contexts, TRUE)
      /\ UNCHANGED <<pc, mask, hit, lib_targeted_rd, initial, files>> /\ UNCHANGED bindVars
      /\ window' = [window EXCEPT !.open = TRUE, !.auto = TRUE]
  BY Zenon DEF start_window_locked, progVars
<1>3. window' \in [open : BOOLEAN, auto : BOOLEAN, seen : BOOLEAN] /\ window'.open = TRUE
      /\ window'.auto = TRUE /\ window'.seen = window.seen
  BY <1>2, Zenon DEF IInv, TypeOK
<1>4. /\ contexts' \in Seq(ContextType)
      /\ Len(contexts') = Len(contexts)
      /\ DOMAIN contexts' = DOMAIN contexts
      /\ \A i \in DOMAIN contexts :
            contexts'[i].data = contexts[i].data /\ contexts'[i].late = contexts[i].late
      /\ BindingsAgree' /\ EventsFollowWindow'
  BY <1>1, <1>2, <1>3, SwitchInv, Zenon
<1>5. TypeOK'
  BY <1>2, <1>3, <1>4, Zenon DEF IInv, TypeOK, ContextType, bindVars
<1>6. StartupInv'
  BY <1>2, <1>3, Zenon DEF IInv, StartupInv
<1>7. LabelMatchesData'
  BY <1>3, <1>4, Zenon DEF IInv, LabelMatchesData, Label
<1>8. HitInv'
  BY <1>2, <1>3, <1>4, HitsKept, Zenon DEF IInv, SameHits
<1> QED BY <1>4, <1>5, <1>6, <1>7, <1>8, Zenon DEF IInv

LEMMA KernelStopIInv ==
    ASSUME IInv, NEW t \in Tids, kernel_stop(t)
    PROVE  IInv'
<1>1. contexts \in Seq(ContextType)
  BY ContextsType, Zenon DEF IInv
<1>2. /\ lib' = lib /\ lib \notin {"construct", "enumerate", "register", "store", "down", "aborted"}
      /\ UNCHANGED <<mask, hit, lib_targeted_rd, initial, files>> /\ UNCHANGED bindVars
      /\ pc' \in [Tids -> Steps]
  BY Zenon DEF kernel_stop, libVars, IInv, TypeOK, Steps, Alive, StartupInv
<1>5. SameHits
  BY Zenon DEF kernel_stop, IInv, TypeOK, SameHits
<1>3. CASE UNCHANGED <<window, sessVars>>
  <2>1. UNCHANGED <<contexts, bindVars, window, running>>
    BY <1>2, <1>3, Zenon DEF sessVars
  <2>2. TypeOK'
    BY <1>2, <2>1, Zenon DEF IInv, TypeOK, bindVars
  <2>3. StartupInv'
    BY <1>2, <2>1, Zenon DEF IInv, StartupInv
  <2> QED BY <1>2, <1>5, <2>1, <2>2, <2>3, InvSame, ContextsFixed, Zenon DEF IInv
<1>4. CASE /\ window' = [window EXCEPT !.open = FALSE]
           /\ running' = FALSE /\ contexts' = Switched(contexts, FALSE)
  <2>1. window' \in [open : BOOLEAN, auto : BOOLEAN, seen : BOOLEAN] /\ window'.open = FALSE
        /\ window'.auto = window.auto /\ window'.seen = window.seen
    BY <1>4, Zenon DEF IInv, TypeOK
  <2>2. /\ contexts' \in Seq(ContextType)
        /\ Len(contexts') = Len(contexts)
        /\ DOMAIN contexts' = DOMAIN contexts
        /\ \A i \in DOMAIN contexts :
              contexts'[i].data = contexts[i].data /\ contexts'[i].late = contexts[i].late
        /\ BindingsAgree' /\ EventsFollowWindow'
    BY <1>1, <1>2, <1>4, <2>1, SwitchInv, Zenon
  <2>3. TypeOK'
    BY <1>2, <1>4, <2>1, <2>2, Zenon DEF IInv, TypeOK, ContextType, bindVars
  <2>4. StartupInv'
    BY <1>2, <2>1, Zenon DEF IInv, StartupInv
  <2>5. LabelMatchesData'
    BY <2>1, <2>2, Zenon DEF IInv, LabelMatchesData, Label
  <2>6. HitInv'
    BY <1>5, <2>1, <2>2, HitsKept, Zenon DEF IInv
  <2> QED BY <2>2, <2>3, <2>4, <2>5, <2>6, Zenon DEF IInv
<1> QED BY <1>3, <1>4, Zenon DEF kernel_stop

LEMMA DestroyStopIInv ==
    ASSUME IInv, destroy_stop
    PROVE  IInv'
<1>1. contexts \in Seq(ContextType)
  BY ContextsType, Zenon DEF IInv
<1>2. /\ lib = "stop" /\ lib' = "unregister"
      /\ UNCHANGED <<pc, mask, hit, lib_targeted_rd, initial, files>> /\ UNCHANGED bindVars
      /\ window' = [window EXCEPT !.open = FALSE]
  BY Zenon DEF destroy_stop, progVars
<1>3. window' \in [open : BOOLEAN, auto : BOOLEAN, seen : BOOLEAN] /\ window'.open = FALSE
      /\ window'.auto = window.auto /\ window'.seen = window.seen
  BY <1>2, Zenon DEF IInv, TypeOK
<1>4. /\ contexts' \in Seq(ContextType)
      /\ Len(contexts') = Len(contexts)
      /\ DOMAIN contexts' = DOMAIN contexts
      /\ running' \in BOOLEAN
      /\ \A i \in DOMAIN contexts :
            contexts'[i].data = contexts[i].data /\ contexts'[i].late = contexts[i].late
      /\ BindingsAgree' /\ EventsFollowWindow'
  <2>1. CASE window.open
    <3>1. running' = FALSE /\ contexts' = Switched(contexts, FALSE)
      BY <2>1, Zenon DEF destroy_stop
    <3> QED BY <1>1, <1>2, <1>3, <3>1, SwitchInv, Zenon
  <2>2. CASE ~window.open
    <3>1. running' = running /\ contexts' = contexts
      BY <2>2, Zenon DEF destroy_stop, sessVars
    <3>2. window.open = FALSE
      BY <2>2, Zenon DEF IInv, TypeOK
    <3>3. BindingsAgree'
      BY <1>2, <3>1, AgreeSame, ContextsFixed, Zenon DEF IInv
    <3>4. EventsFollowWindow'
      BY <1>2, <1>3, <3>1, <3>2, Zenon DEF IInv, EventsFollowWindow
    <3> QED BY <1>1, <3>1, <3>3, <3>4, Zenon DEF IInv, TypeOK
  <2> QED BY <2>1, <2>2, Zenon
<1>5. TypeOK'
  BY <1>2, <1>3, <1>4, Zenon DEF IInv, TypeOK, ContextType, bindVars
<1>6. StartupInv'
  BY <1>2, <1>3, Zenon DEF IInv, StartupInv
<1>7. LabelMatchesData'
  BY <1>3, <1>4, Zenon DEF IInv, LabelMatchesData, Label
<1>8. HitInv'
  BY <1>2, <1>3, <1>4, HitsKept, Zenon DEF IInv, SameHits
<1> QED BY <1>4, <1>5, <1>6, <1>7, <1>8, Zenon DEF IInv

LEMMA KernelStartIInv ==
    ASSUME IInv, NEW t \in Tids, kernel_start(t)
    PROVE  IInv'
<1>1. contexts \in Seq(ContextType)
  BY ContextsType, Zenon DEF IInv
<1>2. /\ lib' = lib /\ lib \notin {"construct", "enumerate", "register", "store", "down", "aborted"}
      /\ UNCHANGED <<mask, hit, lib_targeted_rd, initial, files>> /\ UNCHANGED bindVars
      /\ pc' \in [Tids -> Steps]
  BY Zenon DEF kernel_start, libVars, IInv, TypeOK, Steps, Alive, StartupInv
<1>3. SUFFICES /\ window' \in [open : BOOLEAN, auto : BOOLEAN, seen : BOOLEAN]
               /\ window'.auto \/ window'.seen
               /\ running' \in BOOLEAN
               /\ contexts' \in Seq(ContextType)
               /\ Len(contexts') = Len(contexts)
               /\ BindingsAgree' /\ EventsFollowWindow' /\ HitInv' /\ LabelMatchesData'
  <2>1. TypeOK'
    BY <1>2, <1>3, Zenon DEF IInv, TypeOK, ContextType, bindVars
  <2>2. StartupInv'
    BY <1>2, <1>3, Zenon DEF IInv, StartupInv
  <2> QED BY <1>3, <2>1, <2>2, Zenon DEF IInv
<1>7. SameHits
  BY Zenon DEF kernel_start, IInv, TypeOK, SameHits
<1>8. ASSUME DOMAIN contexts' = DOMAIN contexts,
             \A i \in DOMAIN contexts : contexts'[i].late = Cleared(contexts)[i].late,
             ~window.seen
      PROVE  HitInv'
  <2>1. Handling' = Handling /\ hit' = hit
    BY <1>7, HandlingSame, Zenon DEF SameHits
  <2> SUFFICES ASSUME NEW u \in Handling
               PROVE  /\ hit[u].context \in DOMAIN contexts
                      /\ hit[u].kind = "auto" /\ contexts'[hit[u].context].late
    BY <1>8, <2>1, Zenon DEF HitInv
  <2>2. hit[u].context \in DOMAIN contexts /\ hit[u].kind = "auto"
    BY <1>8, Zenon DEF IInv, HitInv, Label
  <2>3. Busy(hit[u].context) = TRUE
    BY Zenon DEF Busy
  <2>4. Cleared(contexts)[hit[u].context].late = TRUE
    BY <1>1, <2>2, <2>3, ClearedType, Zenon
  <2> QED BY <1>8, <2>2, <2>4, Zenon
<1>4. CASE /\ window.auto /\ ~window.seen
           /\ window' = [open |-> TRUE, auto |-> FALSE, seen |-> TRUE]
           /\ running' = TRUE
           /\ contexts' = Switched(Cleared(contexts), TRUE)
  <2>1. Cleared(contexts) \in Seq(ContextType)
    BY <1>1, ClearedType, Zenon
  <2>2. /\ window' \in [open : BOOLEAN, auto : BOOLEAN, seen : BOOLEAN]
        /\ window'.open = TRUE /\ window'.seen
    BY <1>4, Zenon
  <2>3. /\ contexts' \in Seq(ContextType)
        /\ Len(contexts') = Len(contexts)
        /\ DOMAIN contexts' = DOMAIN contexts
        /\ BindingsAgree' /\ EventsFollowWindow'
        /\ \A i \in DOMAIN contexts :
              /\ contexts'[i].data =
                    IF Cleared(contexts) = contexts THEN contexts[i].data ELSE {}
              /\ contexts'[i].late = Cleared(contexts)[i].late
    <3> DEFINE c == Cleared(contexts)
    <3>1. c = Cleared(contexts) /\ contexts' = Switched(c, TRUE)
      BY <1>4, Zenon
    <3> HIDE DEF c
    <3>2. c \in Seq(ContextType)
      BY <2>1, <3>1, Zenon
    <3>3. /\ contexts' \in Seq(ContextType)
          /\ Len(contexts') = Len(contexts)
          /\ DOMAIN contexts' = DOMAIN contexts
          /\ BindingsAgree' /\ EventsFollowWindow'
          /\ \A i \in DOMAIN contexts :
                /\ contexts'[i].data = IF c = contexts THEN contexts[i].data ELSE {}
                /\ contexts'[i].late = c[i].late
      BY <1>2, <1>4, <2>2, <3>1, <3>2, SwitchInv, Zenon
    <3> QED BY <3>1, <3>3, Zenon
  <2>4. \A i \in DOMAIN contexts : contexts'[i].data = {}
    BY <1>1, <2>3, ClearedType
  <2>5. LabelMatchesData'
    BY <2>3, <2>4, Zenon DEF LabelMatchesData
  <2>6. HitInv'
    BY <1>4, <1>8, <2>3, Zenon
  <2> QED BY <1>4, <2>2, <2>3, <2>5, <2>6, Zenon
<1>5. CASE /\ window.auto /\ ~window.seen
           /\ window' = [window EXCEPT !.open = FALSE]
           /\ running' = FALSE
           /\ contexts' = Switched(Cleared(contexts), FALSE)
  <2>1. Cleared(contexts) \in Seq(ContextType)
    BY <1>1, ClearedType, Zenon
  <2>2. /\ window' \in [open : BOOLEAN, auto : BOOLEAN, seen : BOOLEAN]
        /\ window'.open = FALSE /\ window'.auto
    BY <1>5, Zenon DEF IInv, TypeOK
  <2>3. /\ contexts' \in Seq(ContextType)
        /\ Len(contexts') = Len(contexts)
        /\ DOMAIN contexts' = DOMAIN contexts
        /\ BindingsAgree' /\ EventsFollowWindow'
        /\ \A i \in DOMAIN contexts :
              /\ contexts'[i].data =
                    IF Cleared(contexts) = contexts THEN contexts[i].data ELSE {}
              /\ contexts'[i].late = Cleared(contexts)[i].late
    <3> DEFINE c == Cleared(contexts)
    <3>1. c = Cleared(contexts) /\ contexts' = Switched(c, FALSE)
      BY <1>5, Zenon
    <3> HIDE DEF c
    <3>2. c \in Seq(ContextType)
      BY <2>1, <3>1, Zenon
    <3>3. /\ contexts' \in Seq(ContextType)
          /\ Len(contexts') = Len(contexts)
          /\ DOMAIN contexts' = DOMAIN contexts
          /\ BindingsAgree' /\ EventsFollowWindow'
          /\ \A i \in DOMAIN contexts :
                /\ contexts'[i].data = IF c = contexts THEN contexts[i].data ELSE {}
                /\ contexts'[i].late = c[i].late
      BY <1>2, <1>5, <2>2, <3>1, <3>2, SwitchInv, Zenon
    <3> QED BY <3>1, <3>3, Zenon
  <2>4. \A i \in DOMAIN contexts : contexts'[i].data = {}
    BY <1>1, <2>3, ClearedType
  <2>5. LabelMatchesData'
    BY <2>3, <2>4, Zenon DEF LabelMatchesData
  <2>6. HitInv'
    BY <1>5, <1>8, <2>3, Zenon
  <2> QED BY <1>5, <2>2, <2>3, <2>5, <2>6, Zenon
<1>6. CASE /\ ~(window.auto /\ ~window.seen)
           /\ window' = [open |-> TRUE, auto |-> FALSE, seen |-> TRUE]
           /\ IF window.open THEN UNCHANGED sessVars
              ELSE running' = TRUE /\ contexts' = Switched(contexts, TRUE)
  <2>1. window.seen
    BY <1>2, <1>6, Zenon DEF IInv, StartupInv
  <2>2. /\ window' \in [open : BOOLEAN, auto : BOOLEAN, seen : BOOLEAN]
        /\ window'.open = TRUE /\ window'.seen
    BY <1>6, Zenon
  <2>5. window'.seen = window.seen
    BY <1>6, <2>1, Zenon DEF IInv, TypeOK
  <2>3. CASE window.open
    <3>1. contexts' = contexts /\ running' = running
      BY <1>6, <2>3, Zenon DEF sessVars
    <3>2. window.open = TRUE
      BY <2>3, Zenon DEF IInv, TypeOK
    <3>3. BindingsAgree'
      BY <1>2, <3>1, AgreeSame, ContextsFixed, Zenon DEF IInv
    <3>4. EventsFollowWindow'
      BY <1>2, <2>2, <3>1, <3>2, Zenon DEF IInv, EventsFollowWindow
    <3>5. LabelMatchesData'
      BY <2>1, <2>2, <3>1, Zenon DEF IInv, LabelMatchesData, Label
    <3>6. HitInv'
      BY <1>7, <2>1, <2>2, <2>5, <3>1, HitsKept, Zenon DEF IInv
    <3> QED BY <1>1, <2>2, <3>1, <3>3, <3>4, <3>5, <3>6, Zenon DEF IInv, TypeOK
  <2>4. CASE ~window.open
    <3>1. running' = TRUE /\ contexts' = Switched(contexts, TRUE)
      BY <1>6, <2>4, Zenon
    <3>2. /\ contexts' \in Seq(ContextType)
          /\ Len(contexts') = Len(contexts)
          /\ DOMAIN contexts' = DOMAIN contexts
          /\ \A i \in DOMAIN contexts :
                contexts'[i].data = contexts[i].data /\ contexts'[i].late = contexts[i].late
          /\ BindingsAgree' /\ EventsFollowWindow'
      BY <1>1, <1>2, <2>2, <3>1, SwitchInv, Zenon
    <3>3. LabelMatchesData'
      BY <2>1, <2>2, <3>2, Zenon DEF IInv, LabelMatchesData, Label
    <3>4. HitInv'
      BY <1>7, <2>5, <3>2, HitsKept, Zenon DEF IInv
    <3> QED BY <2>2, <3>1, <3>2, <3>3, <3>4, Zenon
  <2> QED BY <2>3, <2>4, Zenon
<1> QED BY <1>4, <1>5, <1>6, Zenon DEF kernel_start

LEMMA CloseIInv ==
    ASSUME IInv, destroy_close
    PROVE  IInv'
<1>1. contexts \in Seq(ContextType)
  BY ContextsType, Zenon DEF IInv
<1>2. /\ lib = "close" /\ lib' = "down" /\ contexts' = Detached(Tids)
      /\ UNCHANGED <<pc, mask, hit, lib_targeted_rd, initial, files, window, running>>
      /\ UNCHANGED bindVars
  BY Zenon DEF destroy_close, progVars
<1>3. \A i \in DOMAIN contexts : contexts[i].tid \in Tids
  BY ContextTids, Zenon DEF IInv
<1>4. /\ contexts' \in Seq(ContextType)
      /\ Len(contexts') = Len(contexts)
      /\ DOMAIN contexts' = DOMAIN contexts
      /\ \A i \in DOMAIN contexts :
            /\ contexts'[i].data = contexts[i].data /\ ~contexts'[i].active
            /\ contexts'[i].late = contexts[i].late
  BY <1>1, <1>2, <1>3, DetachedType, Zenon
<1>5. TypeOK'
  BY <1>2, <1>4, Zenon DEF IInv, TypeOK, ContextType, bindVars
<1>6. StartupInv'
  BY <1>2, <1>4, Zenon DEF IInv, StartupInv
<1>7. LabelMatchesData'
  BY <1>2, <1>4, Zenon DEF IInv, LabelMatchesData, Label
<1>8. BindingsAgree' /\ EventsFollowWindow'
  BY <1>2, Zenon DEF BindingsAgree, EventsFollowWindow
<1>9. HitInv'
  BY <1>2, <1>4, HitsKept, Zenon DEF IInv, SameHits
<1> QED BY <1>5, <1>6, <1>7, <1>8, <1>9, Zenon DEF IInv

-----------------------------------------------------------------------------
(***************************************************************************)
(* Registration and unregistration.                                        *)
(***************************************************************************)

\* What a binding of a thread that stays bound, or unbound, is worth.
LEMMA RegisterFailsInv ==
    ASSUME IInv, NEW t \in Tids, RegisterFails(t), UNCHANGED window,
           lib # "down"
    PROVE  /\ mask' \in [Tids -> SUBSET Cpus]
           /\ threads' \in [Tids -> [cpu : Cpus, active : BOOLEAN] \cup {NoBinding}]
           /\ UNCHANGED <<scratch, cpu_owner, contexts, running>>
           /\ BindingsAgree' /\ EventsFollowWindow' /\ LabelMatchesData'
<1>1. UNCHANGED <<scratch, cpu_owner, contexts, running>>
  BY Zenon DEF RegisterFails, sessVars
<1>2. threads' = [threads EXCEPT ![t] = NoBinding] /\ ~Bound(t)
  BY Zenon DEF RegisterFails, Erased
<1>3. threads' \in [Tids -> [cpu : Cpus, active : BOOLEAN] \cup {NoBinding}]
  BY <1>2, Zenon DEF IInv, TypeOK
<1>4. mask' \in [Tids -> SUBSET Cpus]
  <2>1. \/ UNCHANGED mask
        \/ /\ pc[t] # "absent"
           /\ \E cpu \in Cpus \ cpu_owner : mask' = [mask EXCEPT ![t] = {cpu}]
    BY Zenon DEF RegisterFails
  <2>2. mask \in [Tids -> SUBSET Cpus]
    BY Zenon DEF IInv, TypeOK
  <2>3. CASE \E cpu \in Cpus \ cpu_owner : mask' = [mask EXCEPT ![t] = {cpu}]
    <3>1. PICK cpu \in Cpus \ cpu_owner : mask' = [mask EXCEPT ![t] = {cpu}]
      BY <2>3, Zenon
    <3> QED BY <2>2, <3>1, Zenon
  <2> QED BY <2>1, <2>2, <2>3, Zenon
<1>5. \A u \in Tids : u # t => threads'[u] = threads[u]
  BY <1>2, Zenon DEF IInv, TypeOK
<1>6. threads'[t] = NoBinding
  BY <1>2, Zenon DEF IInv, TypeOK
<1>7. \A u \in Tids : Bound(u)' <=> Bound(u)
  BY <1>2, <1>5, <1>6, Zenon DEF Bound
<1>8. BoundTids' = BoundTids /\ \A u \in BoundTids : u # t
  BY <1>2, <1>7, Zenon DEF BoundTids
<1>9. \A u \in Tids : ActiveContexts(u)' = ActiveContexts(u)
  BY <1>1, Zenon DEF ActiveContexts
<1>10. \A u \in BoundTids : threads'[u] = threads[u]
  BY <1>5, <1>8, Zenon DEF BoundTids
<1>11. BindingsAgree'
  <2>1. \A u \in Tids : Bound(u)' <=> ActiveContexts(u)' # {}
    BY <1>7, <1>9, Zenon DEF IInv, BindingsAgree
  <2>2. \A i \in DOMAIN contexts : contexts[i].active =>
            contexts[i].tid \in Tids /\ Bound(contexts[i].tid)
    <3>1. \A i \in DOMAIN contexts : contexts[i].tid \in Tids
      BY ContextTids, Zenon DEF IInv
    <3> QED BY <3>1, Zenon DEF IInv, BindingsAgree, ActiveContexts
  <2>3. \A i \in DOMAIN contexts :
            contexts[i].active => contexts[i].cpu = threads'[contexts[i].tid].cpu
    BY <1>2, <1>5, <2>2, Zenon DEF IInv, BindingsAgree
  <2>4. cpu_owner = {threads'[u].cpu : u \in BoundTids}
    BY <1>10 DEF IInv, BindingsAgree
  <2>5. \A u, v \in BoundTids : threads'[u].cpu = threads'[v].cpu => u = v
    BY <1>10, Zenon DEF IInv, BindingsAgree
  <2> QED BY <1>1, <1>8, <2>1, <2>3, <2>4, <2>5, Zenon DEF IInv, BindingsAgree
<1>12. EventsFollowWindow' /\ LabelMatchesData'
  BY <1>1, Zenon DEF IInv, EventsFollowWindow, LabelMatchesData, Label
<1> QED BY <1>1, <1>3, <1>4, <1>11, <1>12, Zenon

LEMMA RegisterSucceedsInv ==
    ASSUME IInv, NEW t \in Tids, RegisterSucceeds(t), UNCHANGED window,
           lib # "down"
    PROVE  /\ mask' \in [Tids -> SUBSET Cpus]
           /\ threads' \in [Tids -> [cpu : Cpus, active : BOOLEAN] \cup {NoBinding}]
           /\ scratch' \subseteq Tids /\ cpu_owner' \subseteq Cpus
           /\ running' = running
           /\ contexts' \in Seq(ContextType)
           /\ Len(contexts') >= Len(contexts)
           /\ DOMAIN contexts \subseteq DOMAIN contexts'
           /\ \A i \in DOMAIN contexts : contexts'[i].late = contexts[i].late
           /\ BindingsAgree' /\ EventsFollowWindow' /\ LabelMatchesData'
<1>1. CASE Bound(t) /\ UNCHANGED <<mask, bindVars, sessVars>>
  <2>1. UNCHANGED <<contexts, running>> /\ UNCHANGED <<bindVars, window, running>>
    BY <1>1, Zenon DEF sessVars
  <2>2. BindingsAgree'
    BY <2>1, AgreeSame, ContextsFixed, Zenon DEF IInv
  <2>3. EventsFollowWindow' /\ LabelMatchesData'
    BY <2>1 DEF IInv, EventsFollowWindow, LabelMatchesData, Label
  <2>4. contexts \in Seq(ContextType)
    BY ContextsType, Zenon DEF IInv
  <2> QED BY <1>1, <2>1, <2>2, <2>3, <2>4 DEF IInv, TypeOK, bindVars
<1>2. CASE ~Bound(t) /\ ~(Bound(t) /\ UNCHANGED <<mask, bindVars, sessVars>>)
  <2>1. PICK cpu \in Cpus \ cpu_owner :
            /\ cpu_owner' = cpu_owner \cup {cpu}
            /\ mask' = [mask EXCEPT ![t] = {cpu}]
            /\ threads' = [threads EXCEPT ![t] = [cpu |-> cpu, active |-> TRUE]]
            /\ contexts' = Append(contexts, NewContext(t, cpu))
    BY <1>2, Zenon DEF RegisterSucceeds
  <2>2. ActiveContexts(t) = {} /\ scratch' = scratch \cup {t} /\ running' = running
    BY <1>2, Zenon DEF RegisterSucceeds
  <2>3. contexts \in Seq(ContextType) /\ running \in BOOLEAN
    BY ContextsType, Zenon DEF IInv
  <2> DEFINE n == Len(contexts) + 1
  <2>4. /\ contexts' \in Seq(ContextType)
        /\ Len(contexts') = n
        /\ DOMAIN contexts' = DOMAIN contexts \cup {n}
        /\ n \notin DOMAIN contexts
        /\ \A i \in DOMAIN contexts : contexts'[i] = contexts[i]
        /\ contexts'[n] = NewContext(t, cpu)
    BY <2>1, <2>3, AppendedType, Zenon
  <2>5. Len(contexts') >= Len(contexts)
    BY <2>3, <2>4
  <2>6. /\ contexts'[n].tid = t /\ contexts'[n].cpu = cpu /\ contexts'[n].active = TRUE
        /\ contexts'[n].enabled = running /\ contexts'[n].data = {}
    BY <2>4 DEF NewContext
  <2> HIDE DEF n
  <2>7. mask' \in [Tids -> SUBSET Cpus]
    BY <2>1, Zenon DEF IInv, TypeOK
  <2>8. threads' \in [Tids -> [cpu : Cpus, active : BOOLEAN] \cup {NoBinding}]
    BY <2>1, Zenon DEF IInv, TypeOK
  <2>9. \A u \in Tids : u # t => threads'[u] = threads[u]
    BY <2>1, Zenon DEF IInv, TypeOK
  <2>10. threads'[t] = [cpu |-> cpu, active |-> TRUE]
    BY <2>1, Zenon DEF IInv, TypeOK
  <2>11. threads'[t].cpu = cpu /\ threads'[t].active = TRUE /\ threads'[t] # NoBinding
    <3>1. [cpu |-> cpu, active |-> TRUE] \in [cpu : Cpus, active : BOOLEAN]
      BY Zenon
    <3>2. threads'[t] # NoBinding
      BY <2>10, <3>1, ConstantsAssumption, Zenon
    <3> QED BY <2>10, <3>2
  <2>12. Bound(t)' /\ \A u \in Tids : u # t => (Bound(u)' <=> Bound(u))
    BY <2>9, <2>11, Zenon DEF Bound
  <2>13. BoundTids' = BoundTids \cup {t} /\ t \notin BoundTids
    BY <1>2, <2>12, Zenon DEF BoundTids
  <2>14. \A u \in BoundTids : threads'[u] = threads[u] /\ threads[u].cpu # cpu
    BY <2>1, <2>9, <2>13 DEF BoundTids, IInv, BindingsAgree
  <2>15. BindingsAgree'
    <3>1. \A u \in Tids : Bound(u)' <=> ActiveContexts(u)' # {}
      <4>1. n \in ActiveContexts(t)'
        BY <2>4, <2>6, Zenon DEF ActiveContexts
      <4>2. \A u \in Tids : u # t => ActiveContexts(u)' = ActiveContexts(u)
        BY <2>4, <2>6, Zenon DEF ActiveContexts
      <4> QED BY <2>12, <4>1, <4>2, Zenon DEF IInv, BindingsAgree
    <3>2. \A i \in DOMAIN contexts : contexts[i].active => contexts[i].tid # t
      BY <2>2, Zenon DEF ActiveContexts
    <3>3. \A i, j \in DOMAIN contexts' :
              (contexts'[i].active /\ contexts'[j].active) =>
                  (contexts'[i].tid = contexts'[j].tid => i = j)
      BY <2>4, <2>6, <3>2 DEF IInv, BindingsAgree
    <3>4. \A i \in DOMAIN contexts : contexts[i].tid \in Tids
      BY ContextTids, Zenon DEF IInv
    <3>5. \A i \in DOMAIN contexts' :
              contexts'[i].active => contexts'[i].cpu = threads'[contexts'[i].tid].cpu
      <4>1. \A i \in DOMAIN contexts :
              contexts'[i].active => contexts'[i].cpu = threads'[contexts'[i].tid].cpu
        BY <2>4, <2>9, <3>2, <3>4 DEF IInv, BindingsAgree
      <4> QED BY <2>4, <2>6, <2>11, <4>1, Zenon
    <3>6. cpu_owner' = {threads'[u].cpu : u \in BoundTids'}
      BY <2>1, <2>11, <2>13, <2>14 DEF IInv, BindingsAgree
    <3>7. \A u, v \in BoundTids' : threads'[u].cpu = threads'[v].cpu => u = v
      BY <2>11, <2>13, <2>14 DEF IInv, BindingsAgree
    <3>8. scratch' = BoundTids'
      BY <2>2, <2>13, Zenon DEF IInv, BindingsAgree
    <3> QED BY <3>1, <3>3, <3>5, <3>6, <3>7, <3>8, Zenon DEF BindingsAgree
  <2>16. EventsFollowWindow'
    <3>1. contexts'[n].enabled = (contexts'[n].active /\ running')
      BY <2>2, <2>3, <2>6, Zenon
    <3>2. \A i \in DOMAIN contexts : contexts'[i].enabled = (contexts'[i].active /\ running')
      BY <2>2, <2>4, Zenon DEF IInv, EventsFollowWindow
    <3>3. running' = window'.open
      BY <2>2, Zenon DEF IInv, EventsFollowWindow
    <3> QED BY <2>4, <3>1, <3>2, <3>3, Zenon DEF EventsFollowWindow
  <2>17. LabelMatchesData'
    BY <2>4, <2>6, Zenon DEF IInv, LabelMatchesData, Label
  <2>18. scratch' \subseteq Tids /\ cpu_owner' \subseteq Cpus
    BY <2>1, <2>2, Zenon DEF IInv, TypeOK
  <2> QED BY <2>2, <2>4, <2>5, <2>7, <2>8, <2>15, <2>16, <2>17, <2>18, Zenon
<1> QED BY <1>1, <1>2, Zenon DEF RegisterSucceeds

LEMMA ImageMinus ==
    ASSUME NEW f, NEW B, NEW G, G \subseteq B,
           \A t, u \in B : f[t].cpu = f[u].cpu => t = u
    PROVE  {f[t].cpu : t \in B} \ {f[t].cpu : t \in G} = {f[t].cpu : t \in B \ G}
  BY Zenon

LEMMA UnregisteredInv ==
    ASSUME IInv, NEW S \in SUBSET Tids, Unregistered(S), UNCHANGED <<window, running>>,
           lib # "down"
    PROVE  /\ threads' \in [Tids -> [cpu : Cpus, active : BOOLEAN] \cup {NoBinding}]
           /\ scratch' \subseteq Tids /\ cpu_owner' \subseteq Cpus
           /\ contexts' \in Seq(ContextType)
           /\ Len(contexts') = Len(contexts)
           /\ DOMAIN contexts' = DOMAIN contexts
           /\ \A i \in DOMAIN contexts : contexts'[i].late = contexts[i].late
           /\ BindingsAgree' /\ EventsFollowWindow' /\ LabelMatchesData'
<1> DEFINE gone == S \cap BoundTids
<1>1. /\ contexts' = Detached(gone)
      /\ scratch' = scratch \ gone
      /\ cpu_owner' = cpu_owner \ {threads[t].cpu : t \in gone}
      /\ threads' = [t \in Tids |->
                       IF t \in gone THEN [threads[t] EXCEPT !.active = FALSE]
                       ELSE threads[t]]
  BY Zenon DEF Unregistered
<1>2. gone \subseteq BoundTids /\ BoundTids \subseteq Tids
  BY Zenon DEF BoundTids
<1> HIDE DEF gone
<1>3. contexts \in Seq(ContextType)
  BY ContextsType, Zenon DEF IInv
<1>4. /\ contexts' \in Seq(ContextType)
      /\ Len(contexts') = Len(contexts)
      /\ DOMAIN contexts' = DOMAIN contexts
      /\ \A i \in DOMAIN contexts :
            /\ contexts'[i].tid = contexts[i].tid
            /\ contexts'[i].cpu = contexts[i].cpu
            /\ contexts'[i].data = contexts[i].data
            /\ contexts'[i].late = contexts[i].late
            /\ contexts[i].tid \in gone => ~contexts'[i].active /\ ~contexts'[i].enabled
            /\ contexts[i].tid \notin gone => contexts'[i] = contexts[i]
  BY <1>1, <1>3, DetachedType, Zenon
<1>5. \A t \in gone : threads[t] \in [cpu : Cpus, active : BOOLEAN]
  BY <1>2, Zenon DEF BoundTids, Bound, IInv, TypeOK
<1>6. threads' \in [Tids -> [cpu : Cpus, active : BOOLEAN] \cup {NoBinding}]
  BY <1>1, <1>5, Zenon DEF IInv, TypeOK
<1>7. \A t \in gone : threads'[t].active = FALSE
  BY <1>1, <1>2, <1>5, Zenon
<1>8. \A t \in Tids \ gone : threads'[t] = threads[t]
  BY <1>1, Zenon
<1>9. \A t \in Tids : Bound(t)' <=> (Bound(t) /\ t \notin gone)
  BY <1>7, <1>8, Zenon DEF Bound
<1>10. BoundTids' = BoundTids \ gone
  BY <1>9, Zenon DEF BoundTids
<1>11. scratch' \subseteq Tids /\ cpu_owner' \subseteq Cpus
  BY <1>1, Zenon DEF IInv, TypeOK
<1>12. BindingsAgree'
  <2>1. \A t \in Tids : ActiveContexts(t)' = IF t \in gone THEN {} ELSE ActiveContexts(t)
    BY <1>4 DEF ActiveContexts
  <2>2. \A t \in Tids : Bound(t)' <=> ActiveContexts(t)' # {}
    BY <1>9, <2>1, Zenon DEF IInv, BindingsAgree
  <2>3. \A i \in DOMAIN contexts : contexts'[i].active =>
            contexts[i].tid \notin gone /\ contexts[i].active
    BY <1>4, Zenon
  <2>4. \A i, j \in DOMAIN contexts' :
            (contexts'[i].active /\ contexts'[j].active) =>
                (contexts'[i].tid = contexts'[j].tid => i = j)
    BY <1>4, <2>3 DEF IInv, BindingsAgree
  <2>5. \A i \in DOMAIN contexts' :
            contexts'[i].active => contexts'[i].cpu = threads'[contexts'[i].tid].cpu
    BY <1>4, <1>8, <2>3, ContextTids DEF IInv, BindingsAgree
  <2>6. \A t \in BoundTids' : threads'[t] = threads[t]
    BY <1>2, <1>8, <1>10, Zenon
  <2>7. cpu_owner' = {threads'[t].cpu : t \in BoundTids'}
    <3>1. cpu_owner = {threads[t].cpu : t \in BoundTids}
      BY Zenon DEF IInv, BindingsAgree
    <3>2. \A t, u \in BoundTids : threads[t].cpu = threads[u].cpu => t = u
      BY Zenon DEF IInv, BindingsAgree
    <3>3. cpu_owner' = {threads[t].cpu : t \in BoundTids \ gone}
      BY <1>1, <1>2, <3>1, <3>2, ImageMinus
    <3> QED BY <1>10, <2>6, <3>3, Zenon
  <2>8. \A t, u \in BoundTids' : threads'[t].cpu = threads'[u].cpu => t = u
    BY <1>10, <2>6 DEF IInv, BindingsAgree
  <2>9. scratch' = BoundTids'
    BY <1>1, <1>10, Zenon DEF IInv, BindingsAgree
  <2> QED BY <2>2, <2>4, <2>5, <2>7, <2>8, <2>9, Zenon DEF BindingsAgree
<1>13. EventsFollowWindow'
  <2>1. running' = window'.open
    BY Zenon DEF IInv, EventsFollowWindow
  <2>2. \A i \in DOMAIN contexts : contexts'[i].enabled = (contexts'[i].active /\ running')
    <3> SUFFICES ASSUME NEW i \in DOMAIN contexts
                 PROVE  contexts'[i].enabled = (contexts'[i].active /\ running')
      BY Zenon
    <3>1. CASE contexts[i].tid \notin gone
      BY <1>4, <3>1, Zenon DEF IInv, EventsFollowWindow
    <3>2. CASE contexts[i].tid \in gone
      <4>1. contexts'[i] \in ContextType
        BY <1>4
      <4>2. contexts'[i].enabled = FALSE /\ contexts'[i].active = FALSE
        BY <1>4, <3>2, <4>1, Zenon DEF ContextType
      <4> QED BY <4>2, Zenon
    <3> QED BY <3>1, <3>2, Zenon
  <2> QED BY <1>4, <2>1, <2>2, Zenon DEF EventsFollowWindow
<1>14. LabelMatchesData'
  BY <1>4, Zenon DEF IInv, LabelMatchesData, Label
<1> QED BY <1>4, <1>6, <1>11, <1>12, <1>13, <1>14, Zenon

LEMMA UpTo ==
    ASSUME NEW m \in Nat, NEW n \in Nat, n >= m
    PROVE  0 .. m \subseteq 0 .. n
  OBVIOUS

LEMMA RegisterIInv ==
    ASSUME IInv, NEW t \in Tids,
           register_initial_threads(t) \/ register_current_thread(t)
    PROVE  IInv'
<1>1. /\ UNCHANGED <<hit, lib_targeted_rd, files, window>>
      /\ lib # "down" /\ lib' # "down"
      /\ lib' = lib \/ (lib = "register" /\ lib' = "aborted")
      /\ initial' \subseteq Tids
      /\ RegisterSucceeds(t) \/ RegisterFails(t)
  BY Zenon DEF register_initial_threads, register_current_thread, libVars, Alive, IInv, TypeOK
<1>2. pc' \in [Tids -> Steps]
  BY Zenon DEF register_initial_threads, register_current_thread, IInv, TypeOK, Steps
<1>3. /\ mask' \in [Tids -> SUBSET Cpus]
      /\ threads' \in [Tids -> [cpu : Cpus, active : BOOLEAN] \cup {NoBinding}]
      /\ scratch' \subseteq Tids /\ cpu_owner' \subseteq Cpus
      /\ running' = running
      /\ contexts' \in Seq(ContextType)
      /\ Len(contexts') >= Len(contexts)
      /\ DOMAIN contexts \subseteq DOMAIN contexts'
      /\ \A i \in DOMAIN contexts : contexts'[i].late = contexts[i].late
      /\ BindingsAgree' /\ EventsFollowWindow' /\ LabelMatchesData'
  <2>1. CASE RegisterSucceeds(t)
    BY <1>1, <2>1, RegisterSucceedsInv, Zenon
  <2>2. CASE RegisterFails(t)
    <3>1. contexts \in Seq(ContextType) /\ Len(contexts) \in Nat
      BY ContextsType DEF IInv
    <3>2. scratch \subseteq Tids /\ cpu_owner \subseteq Cpus
      BY Zenon DEF IInv, TypeOK
    <3> QED BY <1>1, <2>2, <3>1, <3>2, RegisterFailsInv
  <2> QED BY <1>1, <2>1, <2>2, Zenon
<1>4. /\ files' \in [Tids -> 0 .. Len(contexts')]
      /\ hit' \in [Tids -> [context : 0 .. Len(contexts'), kind : {"auto", "explicit"}]]
  <2>1. Len(contexts) \in Nat /\ Len(contexts') \in Nat
    BY <1>3, ContextsType DEF IInv
  <2>2. 0 .. Len(contexts) \subseteq 0 .. Len(contexts')
    BY <1>3, <2>1, UpTo, Zenon
  <2>3. files' \in [Tids -> 0 .. Len(contexts')]
    BY <1>1, <2>2, Zenon DEF IInv, TypeOK
  <2>4. hit' \in [Tids -> [context : 0 .. Len(contexts'), kind : {"auto", "explicit"}]]
    BY <1>1, <2>2, Zenon DEF IInv, TypeOK
  <2> QED BY <2>3, <2>4, Zenon
<1>5. TypeOK'
  BY <1>1, <1>2, <1>3, <1>4, Zenon DEF IInv, TypeOK, ContextType
<1>6. lib \in {"construct", "enumerate", "register", "store", "aborted"} =>
          \A u \in Tids : pc'[u] \notin {"start", "stop"}
  BY Zenon DEF register_initial_threads, register_current_thread, IInv, TypeOK, StartupInv
<1>7. StartupInv'
  BY <1>1, <1>6, Zenon DEF IInv, StartupInv
<1>8. SameHits
  BY <1>1, Zenon DEF register_initial_threads, register_current_thread, IInv, TypeOK, SameHits
<1>9. HitInv'
  BY <1>1, <1>3, <1>8, HitsKept, Zenon DEF IInv
<1> QED BY <1>3, <1>5, <1>7, <1>9, Zenon DEF IInv

LEMMA UnregisterIInv ==
    ASSUME IInv,
           destroy_unregister \/ \E t \in Tids : unregister_current_thread(t)
    PROVE  IInv'
<1>1. /\ UNCHANGED <<mask, hit, lib_targeted_rd, files, window, initial, running>>
      /\ lib # "down" /\ lib' # "down"
      /\ lib' = lib \/ (lib = "unregister" /\ lib' = "write")
      /\ \E S \in SUBSET Tids : Unregistered(S)
  BY Zenon DEF destroy_unregister, unregister_current_thread, libVars, progVars, Alive
<1>2. pc' \in [Tids -> Steps]
  BY Zenon DEF destroy_unregister, unregister_current_thread, IInv, TypeOK, Steps, progVars
<1>3. /\ threads' \in [Tids -> [cpu : Cpus, active : BOOLEAN] \cup {NoBinding}]
      /\ scratch' \subseteq Tids /\ cpu_owner' \subseteq Cpus
      /\ contexts' \in Seq(ContextType)
      /\ Len(contexts') = Len(contexts)
      /\ DOMAIN contexts' = DOMAIN contexts
      /\ \A i \in DOMAIN contexts : contexts'[i].late = contexts[i].late
      /\ BindingsAgree' /\ EventsFollowWindow' /\ LabelMatchesData'
  BY <1>1, UnregisteredInv, Zenon
<1>4. TypeOK'
  BY <1>1, <1>2, <1>3, Zenon DEF IInv, TypeOK, ContextType
<1>5. lib \in {"construct", "enumerate", "register", "store", "aborted"} =>
          \A u \in Tids : pc'[u] \notin {"start", "stop"}
  BY Zenon DEF destroy_unregister, unregister_current_thread, progVars, IInv, TypeOK, StartupInv
<1>6. StartupInv'
  BY <1>1, <1>5, Zenon DEF IInv, StartupInv
<1>7. SameHits
  BY <1>1, Zenon DEF destroy_unregister, unregister_current_thread, progVars, IInv, TypeOK, SameHits
<1>8. HitInv'
  BY <1>1, <1>3, <1>7, HitsKept, Zenon DEF IInv
<1> QED BY <1>3, <1>4, <1>6, <1>8, Zenon DEF IInv

-----------------------------------------------------------------------------
(***************************************************************************)
(* IInv is an inductive invariant.                                         *)
(***************************************************************************)

LEMMA StutterIInv ==
    ASSUME IInv, UNCHANGED vars
    PROVE  IInv'
<1>1. /\ UNCHANGED <<contexts, bindVars, window, running>>
      /\ UNCHANGED <<pc, mask, hit, lib, lib_targeted_rd, initial, files>>
  BY Zenon DEF vars, progVars, libVars, sessVars
<1>2. TypeOK'
  BY <1>1, Zenon DEF IInv, TypeOK, bindVars
<1>3. StartupInv'
  BY <1>1, Zenon DEF IInv, StartupInv
<1> QED BY <1>1, <1>2, <1>3, InvSame, ContextsFixed, Zenon DEF IInv, SameHits

LEMMA NextIInv == IInv /\ [Next]_vars => IInv'
<1> SUFFICES ASSUME IInv, [Next]_vars PROVE IInv'
  BY Zenon
<1>1. CASE LibStep
  BY <1>1, LibAlone, RegisterIInv, StartWindowIInv, DestroyStopIInv, UnregisterIInv,
     WriteInfoIInv, CloseIInv, Zenon DEF LibStep
<1>2. ASSUME NEW t \in Tids, ProgStep(t) PROVE IInv'
  BY <1>2, ProgAlone, RegisterIInv, ThreadStopIInv, UnregisterIInv, KernelStartIInv,
     KernelStopIInv, HandleHitIInv, RecordHitIInv, ConstantsAssumption, Zenon DEF ProgStep
<1>3. CASE Quiet \/ UNCHANGED vars
  BY <1>3, StutterIInv, Zenon DEF Quiet
<1> QED BY <1>1, <1>2, <1>3, Zenon DEF Next

(***************************************************************************)
(* The three properties and what carries them (StartupInv) are inductive   *)
(* together.                                                               *)
(***************************************************************************)
THEOREM Inductive == Spec => []IInv
  BY InitIInv, NextIInv, PTL DEF Spec

(***************************************************************************)
(* The state is well formed; in particular every output file that          *)
(* write_info names describes a context of the session.                    *)
(***************************************************************************)
THEOREM TypeCorrect == Spec => []TypeOK
<1>1. IInv => TypeOK
  BY Zenon DEF IInv
<1> QED BY <1>1, Inductive, PTL

(***************************************************************************)
(* For any number of threads and CPUs, and whichever registrations fail,   *)
(* controller and module agree on the threads, their CPUs and their        *)
(* scratch pages.                                                          *)
(***************************************************************************)
THEOREM Agreement == Spec => []BindingsAgree
<1>1. IInv => BindingsAgree
  BY Zenon DEF IInv
<1> QED BY <1>1, Inductive, PTL

(***************************************************************************)
(* The perf events of the registered threads are on exactly while the      *)
(* controller's window is open.                                            *)
(***************************************************************************)
THEOREM EventsInWindow == Spec => []EventsFollowWindow
<1>1. IInv => EventsFollowWindow
  BY Zenon DEF IInv
<1> QED BY <1>1, Inductive, PTL

(***************************************************************************)
(* window_mode of the .rd2.info file is true of every result of the        *)
(* session, except of a thread whose handler rd_start has overtaken: its   *)
(* results may hold what that handler saw in the automatic window.         *)
(***************************************************************************)
THEOREM Labels == Spec => []LabelMatchesData
<1>1. IInv => LabelMatchesData
  BY Zenon DEF IInv
<1> QED BY <1>1, Inductive, PTL

-----------------------------------------------------------------------------
(***************************************************************************)
(* The refinement: what a step does to Phase, Kept, InFlight and Exiting.  *)
(***************************************************************************)

LEMMA PhaseIs ==
    /\ window.open /\ window.seen => Phase = "open"
    /\ window.open /\ ~window.seen => Phase = "auto"
    /\ ~window.open /\ window.seen => Phase = "closed"
    /\ ~window.open /\ ~window.seen /\ window.auto => Phase = "halted"
    /\ ~window.open /\ ~window.seen /\ ~window.auto => Phase = "none"
  BY Zenon DEF Phase

LEMMA PhaseBecomes ==
    /\ window'.open /\ window'.seen => Phase' = "open"
    /\ window'.open /\ ~window'.seen => Phase' = "auto"
    /\ ~window'.open /\ window'.seen => Phase' = "closed"
    /\ ~window'.open /\ ~window'.seen /\ window'.auto => Phase' = "halted"
    /\ ~window'.open /\ ~window'.seen /\ ~window'.auto => Phase' = "none"
  BY Zenon DEF Phase

LEMMA KeptSame ==
    ASSUME DOMAIN contexts' = DOMAIN contexts,
           \A i \in DOMAIN contexts : contexts'[i].data = contexts[i].data
    PROVE  Kept' = Kept
  BY Zenon DEF Kept

LEMMA KeptCleared ==
    ASSUME IInv, NEW on \in BOOLEAN, contexts' = Switched(Cleared(contexts), on)
    PROVE  Kept' = {}
<1>1. contexts \in Seq(ContextType)
  BY ContextsType, Zenon DEF IInv
<1>2. \A i \in DOMAIN contexts' : contexts'[i].data = {}
  <2> DEFINE c == Cleared(contexts)
  <2>1. c \in Seq(ContextType) /\ \A i \in DOMAIN c : c[i].data = {}
    BY <1>1, ClearedType, Zenon
  <2>2. contexts' = Switched(c, on)
    BY Zenon
  <2> HIDE DEF c
  <2> QED BY <2>1, <2>2, SwitchedType
<1> QED BY <1>2 DEF Kept

LEMMA KeptSwitched ==
    ASSUME IInv, NEW on \in BOOLEAN, contexts' = Switched(contexts, on)
    PROVE  Kept' = Kept
<1>1. contexts \in Seq(ContextType)
  BY ContextsType, Zenon DEF IInv
<1> QED BY <1>1, SwitchedType, KeptSame, Zenon

LEMMA KeptDetached ==
    ASSUME IInv, NEW S, contexts' = Detached(S)
    PROVE  Kept' = Kept
<1>1. contexts \in Seq(ContextType)
  BY ContextsType, Zenon DEF IInv
<1> QED BY <1>1, DetachedType, KeptSame, Zenon

LEMMA KeptRegistered ==
    ASSUME IInv, NEW t \in Tids, RegisterSucceeds(t) \/ RegisterFails(t)
    PROVE  Kept' = Kept
<1>1. contexts \in Seq(ContextType) /\ running \in BOOLEAN
  BY ContextsType, Zenon DEF IInv
<1>2. CASE contexts' = contexts
  BY <1>2, KeptSame, Zenon
<1>3. CASE \E cpu \in Cpus : contexts' = Append(contexts, NewContext(t, cpu))
  <2>1. PICK cpu \in Cpus : contexts' = Append(contexts, NewContext(t, cpu))
    BY <1>3, Zenon
  <2> DEFINE n == Len(contexts) + 1
  <2>2. /\ DOMAIN contexts' = DOMAIN contexts \cup {n}
        /\ \A i \in DOMAIN contexts : contexts'[i] = contexts[i]
        /\ contexts'[n] = NewContext(t, cpu)
    BY <1>1, <2>1, AppendedType, Zenon
  <2>3. contexts'[n].data = {}
    BY <2>2 DEF NewContext
  <2> HIDE DEF n
  <2> QED BY <2>2, <2>3, Zenon DEF Kept
<1> QED BY <1>2, <1>3, Zenon DEF RegisterSucceeds, RegisterFails, sessVars

\* Steps that the abstract specification does not see.
LEMMA StutterStep ==
    ASSUME Kept' = Kept, window' = window, Exiting' = Exiting, SameHits
    PROVE  UNCHANGED Windows!vars
<1>1. Phase' = Phase
  BY Zenon DEF Phase
<1> QED BY <1>1, HandlingSame, Zenon DEF Windows!vars

LEMMA ExitingSame ==
    ASSUME lib' = lib \/ (lib \notin {"stop", "unregister", "write", "close", "down"} /\
                          lib' \notin {"unregister", "write", "close", "down"}) \/
           (lib \in {"unregister", "write", "close"} /\ lib' \in {"write", "close", "down"})
    PROVE  Exiting' = Exiting
  BY DEF Exiting

LEMMA StartSimulates ==
    ASSUME IInv, NEW t \in Tids, kernel_start(t)
    PROVE  [Windows!Next]_(Windows!vars)
<1>0. SameHits
  BY Zenon DEF kernel_start, IInv, TypeOK, SameHits
<1>1. Exiting' = Exiting /\ InFlight' = InFlight
  BY <1>0, ExitingSame, HandlingSame, Zenon DEF kernel_start, libVars
<1>2. lib \notin {"construct", "enumerate", "register", "store", "down", "aborted"}
  BY Zenon DEF kernel_start, Alive, IInv, StartupInv, TypeOK
<1>3. window \in [open : BOOLEAN, auto : BOOLEAN, seen : BOOLEAN]
  BY Zenon DEF IInv, TypeOK
<1>4. CASE /\ window.auto /\ ~window.seen
           /\ window' = [open |-> TRUE, auto |-> FALSE, seen |-> TRUE]
           /\ contexts' = Switched(Cleared(contexts), TRUE)
  <2>1. Phase \in {"auto", "halted"}
    BY <1>3, <1>4, PhaseIs, Zenon
  <2>2. Phase' = "open"
    BY <1>4, PhaseBecomes, Zenon
  <2>3. Kept' = {}
    BY <1>4, KeptCleared, Zenon
  <2>4. Windows!FirstStart
    BY <1>1, <2>1, <2>2, <2>3, Zenon DEF Windows!FirstStart
  <2> QED BY <2>4, Zenon DEF Windows!Next
<1>5. CASE /\ window.auto /\ ~window.seen
           /\ window' = [window EXCEPT !.open = FALSE]
           /\ contexts' = Switched(Cleared(contexts), FALSE)
  <2>1. Phase \in {"auto", "halted"}
    BY <1>3, <1>5, PhaseIs, Zenon
  <2>2. window'.open = FALSE /\ window'.auto = window.auto /\ window'.seen = window.seen
    BY <1>3, <1>5, Zenon
  <2>3. Phase' = "halted"
    BY <1>5, <2>2, PhaseBecomes, Zenon
  <2>4. Kept' = {}
    BY <1>5, KeptCleared, Zenon
  <2>5. Windows!FirstStart
    BY <1>1, <2>1, <2>3, <2>4, Zenon DEF Windows!FirstStart
  <2> QED BY <2>5, Zenon DEF Windows!Next
<1>6. CASE /\ ~(window.auto /\ ~window.seen)
           /\ window' = [open |-> TRUE, auto |-> FALSE, seen |-> TRUE]
           /\ contexts' = contexts \/ contexts' = Switched(contexts, TRUE)
  <2>1. window.seen
    BY <1>2, <1>6, Zenon DEF IInv, StartupInv
  <2>2. Phase \in {"open", "closed"}
    BY <1>3, <2>1, PhaseIs, Zenon
  <2>3. Phase' = "open"
    BY <1>6, PhaseBecomes, Zenon
  <2>4. Kept' = Kept
    BY <1>6, KeptSwitched, KeptSame, Zenon
  <2>5. Windows!Start
    BY <1>1, <2>2, <2>3, <2>4, Zenon DEF Windows!Start
  <2> QED BY <2>5, Zenon DEF Windows!Next
<1> QED BY <1>4, <1>5, <1>6, Zenon DEF kernel_start, sessVars

LEMMA StopSimulates ==
    ASSUME IInv, NEW t \in Tids, kernel_stop(t)
    PROVE  [Windows!Next]_(Windows!vars)
<1>0. SameHits
  BY Zenon DEF kernel_stop, IInv, TypeOK, SameHits
<1>1. Exiting' = Exiting /\ InFlight' = InFlight
  BY <1>0, ExitingSame, HandlingSame, Zenon DEF kernel_stop, libVars
<1>2. lib \notin {"construct", "enumerate", "register", "store", "down", "aborted"}
  BY Zenon DEF kernel_stop, Alive, IInv, StartupInv, TypeOK
<1>3. window \in [open : BOOLEAN, auto : BOOLEAN, seen : BOOLEAN]
  BY Zenon DEF IInv, TypeOK
<1>4. CASE UNCHANGED <<window, sessVars>>
  BY <1>0, <1>1, <1>4, KeptSame, StutterStep, Zenon DEF sessVars
<1>5. CASE /\ window.open /\ ~(window.auto /\ ~window.seen)
           /\ window' = [window EXCEPT !.open = FALSE]
           /\ contexts' = Switched(contexts, FALSE)
  <2>1. window.seen
    BY <1>2, <1>5, Zenon DEF IInv, StartupInv
  <2>2. window'.open = FALSE /\ window'.seen = window.seen
    BY <1>3, <1>5, Zenon
  <2>3. Phase = "open" /\ Phase' = "closed"
    BY <1>5, <2>1, <2>2, PhaseIs, PhaseBecomes, Zenon
  <2>4. Kept' = Kept
    BY <1>5, KeptSwitched, Zenon
  <2>5. Windows!Stop
    BY <1>1, <2>3, <2>4, Zenon DEF Windows!Stop
  <2> QED BY <2>5, Zenon DEF Windows!Next
<1> QED BY <1>4, <1>5, Zenon DEF kernel_stop

LEMMA OpenSimulates ==
    ASSUME IInv, start_window_locked
    PROVE  [Windows!Next]_(Windows!vars)
<1>1. Exiting' = Exiting /\ InFlight' = InFlight
  BY ExitingSame, HandlingSame, Zenon DEF start_window_locked, progVars, SameHits
<1>2. window = [open |-> FALSE, auto |-> FALSE, seen |-> FALSE]
  BY Zenon DEF start_window_locked, IInv, StartupInv
<1>3. window' = [window EXCEPT !.open = TRUE, !.auto = TRUE]
  BY Zenon DEF start_window_locked
<1>4. ~window.open /\ ~window.auto /\ ~window.seen /\ window'.open /\ ~window'.seen
  BY <1>2, <1>3, Zenon
<1>5. Phase = "none" /\ Phase' = "auto"
  BY <1>4, PhaseIs, PhaseBecomes, Zenon
<1>6. Kept' = Kept
  BY KeptSwitched, Zenon DEF start_window_locked
<1>7. Windows!OpenAuto
  BY <1>1, <1>5, <1>6, Zenon DEF Windows!OpenAuto
<1> QED BY <1>7, Zenon DEF Windows!Next

LEMMA ExitSimulates ==
    ASSUME IInv, destroy_stop
    PROVE  [Windows!Next]_(Windows!vars)
<1>1. Exiting = FALSE /\ Exiting' = TRUE
  BY DEF destroy_stop, Exiting
<1>2. window \in [open : BOOLEAN, auto : BOOLEAN, seen : BOOLEAN]
  BY Zenon DEF IInv, TypeOK
<1>3. window' = [window EXCEPT !.open = FALSE]
  BY Zenon DEF destroy_stop
<1>4. window'.open = FALSE /\ window'.auto = window.auto /\ window'.seen = window.seen
  BY <1>2, <1>3, Zenon
<1>5. window.auto \/ window.seen
  BY Zenon DEF destroy_stop, IInv, StartupInv
<1>6. Phase' = CASE Phase = "auto" -> "halted"
                 [] Phase = "open" -> "closed"
                 [] OTHER -> Phase
  BY <1>2, <1>4, <1>5, PhaseIs, PhaseBecomes, Zenon
<1>7. Kept' = Kept
  BY KeptSwitched, KeptSame, Zenon DEF destroy_stop, sessVars
<1>9. InFlight' = InFlight
  BY HandlingSame, Zenon DEF destroy_stop, progVars, SameHits
<1>8. Windows!Exit
  BY <1>1, <1>6, <1>7, <1>9, Zenon DEF Windows!Exit
<1> QED BY <1>8, Zenon DEF Windows!Next

LEMMA HitSimulates ==
    ASSUME IInv, NEW t \in Tids, rd_handle_hit(t)
    PROVE  [Windows!Next]_(Windows!vars)
<1>1. /\ Exiting' = Exiting /\ window' = window /\ contexts' = contexts /\ running
      /\ pc[t] = "user" /\ pc' = [pc EXCEPT ![t] = "hit"]
  BY ExitingSame, Zenon DEF rd_handle_hit, libVars, InUser
<1>2. PICK i \in ActiveContexts(t) : hit' = [hit EXCEPT ![t] = [context |-> i, kind |-> Label]]
  BY Zenon DEF rd_handle_hit
<1>3. i \in DOMAIN contexts /\ contexts[i].active
  BY Zenon DEF ActiveContexts
<1>4. window.open
  BY <1>1, <1>3, Zenon DEF IInv, StartupInv, EventsFollowWindow
<1>5. Phase = IF window.seen THEN "open" ELSE "auto"
  BY <1>4, PhaseIs, Zenon
<1>6. Phase' = Phase
  BY <1>1, Zenon DEF Phase
<1>7. Kept' = Kept
  BY <1>1, KeptSame, Zenon
<1>8. Label = IF Phase = "auto" THEN "auto" ELSE "explicit"
  BY <1>5, Zenon DEF Label
<1>9. Handling' = Handling \cup {t} /\ t \notin Handling
  BY <1>1, Zenon DEF Handling, IInv, TypeOK
<1>10. hit'[t].kind = Label /\ \A u \in Handling : hit'[u].kind = hit[u].kind
  BY <1>2, <1>9, Zenon DEF Handling, IInv, TypeOK
<1>11. InFlight' = InFlight \cup {Label}
  BY <1>9, <1>10, Zenon DEF InFlight
<1>12. Windows!Hit
  BY <1>1, <1>5, <1>6, <1>7, <1>8, <1>11, Zenon DEF Windows!Hit
<1> QED BY <1>12, Zenon DEF Windows!Next

LEMMA RecordSimulates ==
    ASSUME IInv, NEW t \in Tids, rd_record_hit(t)
    PROVE  [Windows!Next]_(Windows!vars)
<1> DEFINE i == hit[t].context
           k == hit[t].kind
<1>1. /\ Exiting' = Exiting /\ window' = window /\ t \in Handling
      /\ pc' = [pc EXCEPT ![t] = "user"] /\ hit' = [hit EXCEPT ![t] = NoHit]
  BY ExitingSame, Zenon DEF rd_record_hit, libVars
<1>2. /\ i \in DOMAIN contexts
      /\ DOMAIN contexts' = DOMAIN contexts
      /\ \A j \in DOMAIN contexts : j # i => contexts'[j].data = contexts[j].data
      /\ \/ contexts'[i].data = contexts[i].data
         \/ contexts'[i].data = contexts[i].data \cup {k}
  BY Recorded, Zenon DEF SameContexts
<1>3. k \in InFlight
  BY <1>1, Zenon DEF InFlight
<1>4. Handling' = Handling \ {t}
  BY <1>1, Zenon DEF Handling, IInv, TypeOK
<1>5. \A u \in Handling' : hit'[u].kind = hit[u].kind
  BY <1>1, <1>4, Zenon DEF Handling, IInv, TypeOK
<1>6. InFlight = {hit[u].kind : u \in Handling'} \cup {k}
  BY <1>1, <1>4, Zenon DEF InFlight
<1> HIDE DEF i, k
<1>7. Kept' \in {Kept, Kept \cup {k}}
  <2>1. CASE contexts'[i].data = contexts[i].data
    <3>1. Kept' = Kept
      BY <1>2, <2>1, KeptSame, Zenon
    <3> QED BY <3>1, Zenon
  <2>2. CASE contexts'[i].data = contexts[i].data \cup {k}
    <3>1. Kept' = Kept \cup {k}
      BY <1>2, <2>2, Zenon DEF Kept
    <3> QED BY <3>1, Zenon
  <2> QED BY <1>2, <2>1, <2>2, Zenon
<1>8. InFlight' = {hit[u].kind : u \in Handling'}
  BY <1>5, Zenon DEF InFlight
<1>9. InFlight' \in {InFlight, InFlight \ {k}}
  BY <1>6, <1>8, Zenon
<1>10. Phase' = Phase
  BY <1>1, Zenon DEF Phase
<1>11. Windows!Collect
  BY <1>1, <1>3, <1>7, <1>9, <1>10, Zenon DEF Windows!Collect
<1> QED BY <1>11, Zenon DEF Windows!Next

LEMMA Simulates == IInv /\ [Next]_vars => [Windows!Next]_(Windows!vars)
<1> SUFFICES ASSUME IInv, [Next]_vars PROVE [Windows!Next]_(Windows!vars)
  BY Zenon
<1>1. CASE construct \/ get_threads \/ lib_init \/ lib_deinit \/ write_info
  <2>1. contexts' = contexts /\ window' = window
    BY <1>1, Zenon DEF construct, get_threads, lib_init, lib_deinit, write_info, sessVars
  <2>2. Exiting' = Exiting
    BY <1>1 DEF construct, get_threads, lib_init, lib_deinit, write_info, Exiting
  <2>3. SameHits
    BY <1>1, Zenon DEF construct, get_threads, lib_init, lib_deinit, write_info, progVars, SameHits
  <2> QED BY <2>1, <2>2, <2>3, KeptSame, StutterStep, Zenon
<1>2. ASSUME NEW t \in Tids, register_initial_threads(t) \/ register_current_thread(t)
      PROVE  [Windows!Next]_(Windows!vars)
  <2>1. window' = window /\ (RegisterSucceeds(t) \/ RegisterFails(t))
    BY <1>2, Zenon DEF register_initial_threads, register_current_thread
  <2>2. Exiting' = Exiting
    BY <1>2 DEF register_initial_threads, register_current_thread, Exiting, libVars
  <2>3. SameHits
    BY <1>2, Zenon DEF register_initial_threads, register_current_thread, IInv, TypeOK, SameHits
  <2> QED BY <2>1, <2>2, <2>3, KeptRegistered, StutterStep, Zenon
<1>3. CASE destroy_close \/ destroy_unregister \/ \E t \in Tids : unregister_current_thread(t)
  <2>1. window' = window /\ \E S : contexts' = Detached(S)
    BY <1>3, Zenon DEF destroy_close, destroy_unregister, unregister_current_thread, Unregistered
  <2>2. Exiting' = Exiting
    <3>1. \/ lib = "close" /\ lib' = "down"
          \/ lib = "unregister" /\ lib' = "write"
          \/ lib' = lib
      BY <1>3, Zenon DEF destroy_close, destroy_unregister, unregister_current_thread, libVars
    <3> QED BY <3>1 DEF Exiting
  <2>3. SameHits
    BY <1>3, Zenon DEF destroy_close, destroy_unregister, unregister_current_thread, progVars,
                IInv, TypeOK, SameHits
  <2> QED BY <2>1, <2>2, <2>3, KeptDetached, StutterStep, Zenon
<1>4. ASSUME NEW t \in Tids, NEW child \in Tids,
             pthread_create(t, child) \/ rd_on_thread_start(t) \/ rd_start_stop(t)
      PROVE  [Windows!Next]_(Windows!vars)
  <2>1. contexts' = contexts /\ window' = window /\ lib' = lib
    BY <1>4, Zenon DEF pthread_create, rd_on_thread_start, rd_start_stop, sessVars, libVars
  <2>2. SameHits
    BY <1>4, Zenon DEF pthread_create, rd_on_thread_start, rd_start_stop, InUser, IInv, TypeOK,
                SameHits
  <2> QED BY <2>1, <2>2, KeptSame, StutterStep, ExitingSame, Zenon
<1>5. ASSUME NEW t \in Tids, rd_on_thread_stop(t)
      PROVE  [Windows!Next]_(Windows!vars)
  <2>1. window' = window /\ lib' = lib /\ (contexts' = contexts \/ contexts' = Ended(t))
    BY <1>5, Zenon DEF rd_on_thread_stop, libVars
  <2>2. contexts \in Seq(ContextType)
    BY ContextsType, Zenon DEF IInv
  <2>3. Kept' = Kept
    BY <2>1, <2>2, EndedType, KeptSame
  <2>4. SameHits
    BY <1>5, Zenon DEF rd_on_thread_stop, IInv, TypeOK, SameHits
  <2> QED BY <2>1, <2>3, <2>4, StutterStep, ExitingSame, Zenon
<1>6. CASE Quiet \/ UNCHANGED vars
  <2>1. contexts' = contexts /\ window' = window /\ lib' = lib
    BY <1>6, Zenon DEF Quiet, vars, sessVars, libVars
  <2>2. SameHits
    BY <1>6, Zenon DEF Quiet, vars, progVars, SameHits
  <2> QED BY <2>1, <2>2, KeptSame, StutterStep, ExitingSame, Zenon
<1>7. CASE LibStep
  BY <1>1, <1>2, <1>3, <1>7, OpenSimulates, ExitSimulates, Zenon DEF LibStep
<1>8. ASSUME NEW t \in Tids, ProgStep(t) PROVE [Windows!Next]_(Windows!vars)
  BY <1>2, <1>3, <1>4, <1>5, <1>8, StartSimulates, StopSimulates, HitSimulates,
     RecordSimulates, Zenon DEF ProgStep
<1> QED BY <1>6, <1>7, <1>8, Zenon DEF Next

LEMMA InitSimulates == Init => Windows!Init
<1> SUFFICES ASSUME Init PROVE Windows!Init
  BY Zenon
<1>1. ~window.open /\ ~window.auto /\ ~window.seen /\ Exiting = FALSE
  BY DEF Init, Exiting
<1>2. DOMAIN contexts = {}
  BY DEF Init
<1>3. Kept = {}
  BY <1>2, Zenon DEF Kept
<1>4. Phase = "none"
  BY <1>1, PhaseIs, Zenon
<1>5. InFlight = {}
  BY Zenon DEF Init, Handling, InFlight
<1> QED BY <1>1, <1>3, <1>4, <1>5, Zenon DEF Windows!Init

(***************************************************************************)
(* The controller and the module implement RdWindows: every behaviour of   *)
(* the control plane is one of the windows of the README in which what a   *)
(* handler in flight finds is kept by whatever window is the last.         *)
(***************************************************************************)
THEOREM Implements == Spec => WindowSemantics
  BY InitSimulates, Inductive, Simulates, PTL DEF Spec, WindowSemantics, Windows!Spec

=============================================================================
