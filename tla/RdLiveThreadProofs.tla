------------------------- MODULE RdLiveThreadProofs -------------------------
(***************************************************************************)
(* Proofs about RdLiveThread for any number of contexts, sessions and      *)
(* handlers.                                                               *)
(*                                                                         *)
(* NoUseAfterFree is not inductive.  The argument has two halves.  A       *)
(* reader that still holds a pointer without a reference found it in the   *)
(* list: until its grace period is over the context cannot get past        *)
(* "unlinked" (ReachInv).  A handler that left the read side is counted in *)
(* live_refs (CountInv): the completion that rd_thread_detach_live waits   *)
(* for is signalled only when that count, the registration's reference     *)
(* included, is zero (WaitInv).                                            *)
(***************************************************************************)
EXTENDS RdLiveThread, FiniteSetTheorems, TLAPS

\* The registration's own reference, until rd_detach_put.
Base(t) == IF stage[t] \in {"live", "marked", "unlinked", "dropping"} THEN 1 ELSE 0

FlagInv == \A t \in Threads : active[t] <=> stage[t] = "live"

ListInv == live_threads = {t \in Threads : stage[t] \in {"live", "marked"}}

SessionInv ==
    \A t \in Threads : session[SessionOf[t]] = "freed" => ~Allocated(t)

ReachInv ==
    \A h \in Handlers : \A t \in reach[h] :
        /\ InReadSide(h)
        /\ \/ stage[t] \in {"live", "marked"}
           \/ stage[t] = "unlinked" /\ h \in grace[t]

CurInv ==
    \A h \in Handlers :
        /\ pc[h] \in {"idle", "rcu"} => cur[h] = NoThread
        /\ pc[h] \in {"visit", "check", "inc", "recheck"} => cur[h] \in reach[h]
        /\ pc[h] = "pinned" => cur[h] \in Threads

CountInv ==
    \A t \in Threads : live_refs[t] = Base(t) + Cardinality(Pinned(t))

WaitInv ==
    \A t \in Threads :
        /\ live_refs_zero[t]
             = IF live_refs[t] = 0 /\ stage[t] = "waiting" THEN 1 ELSE 0
        /\ stage[t] \in {"none", "counting", "detached", "destroyed"}
             => live_refs[t] = 0

IInv == TypeOK /\ FlagInv /\ ListInv /\ SessionInv /\ ReachInv /\ CurInv
               /\ CountInv /\ WaitInv

-----------------------------------------------------------------------------
(***************************************************************************)
(* How the set of pinning handlers, and with it live_refs, can move.       *)
(***************************************************************************)

\* live_refs counts a finite set: at most every handler pins a context.
LEMMA PinnedFinite ==
    ASSUME NEW t \in Threads
    PROVE  IsFiniteSet(Pinned(t)) /\ Cardinality(Pinned(t)) \in Nat
<1>1. Pinned(t) \subseteq Handlers
  BY DEF Pinned
<1>2. QED
  BY <1>1, ConstantsAssumption, FS_Subset, FS_CardinalityType

\* A context that some handler pins has a positive count, and only one that
\* nobody pins has the count zero.
LEMMA PinnedPositive ==
    ASSUME NEW t \in Threads
    PROVE  Cardinality(Pinned(t)) = 0 <=> Pinned(t) = {}
<1>1. QED
  BY PinnedFinite, FS_EmptySet

\* refcount_inc_not_zero by h: exactly h joins the handlers pinning t.
LEMMA PinnedJoin ==
    ASSUME NEW t \in Threads, NEW h \in Handlers,
           h \notin Pinned(t), Pinned(t)' = Pinned(t) \cup {h}
    PROVE  Cardinality(Pinned(t)') = Cardinality(Pinned(t)) + 1
<1>1. QED
  BY PinnedFinite, FS_AddElement

\* A put by h: exactly h leaves the handlers pinning t.
LEMMA PinnedLeave ==
    ASSUME NEW t \in Threads, NEW h \in Handlers,
           h \in Pinned(t), Pinned(t)' = Pinned(t) \ {h}
    PROVE  Cardinality(Pinned(t)') = Cardinality(Pinned(t)) - 1
<1>1. QED
  BY PinnedFinite, FS_RemoveElement

-----------------------------------------------------------------------------
\* The invariant holds before any thread is registered.
LEMMA InitIInv == Init => IInv
<1> SUFFICES ASSUME Init PROVE IInv
  OBVIOUS
<1>1. ASSUME NEW t \in Threads PROVE Pinned(t) = {}
  BY ConstantsAssumption DEF Init, Pinned
<1>2. CountInv
  <2> SUFFICES ASSUME NEW t \in Threads
               PROVE  live_refs[t] = Base(t) + Cardinality(Pinned(t))
    BY DEF CountInv
  <2>1. Cardinality(Pinned(t)) = 0
    BY <1>1, FS_EmptySet
  <2>2. live_refs[t] = 0 /\ Base(t) = 0
    BY DEF Init, Base
  <2>3. QED
    BY <2>1, <2>2
<1>3. QED
  BY <1>2, ConstantsAssumption
     DEF Init, IInv, TypeOK, FlagInv, ListInv, SessionInv, ReachInv, CurInv,
         WaitInv, Stages, HandlerSteps, Allocated

-----------------------------------------------------------------------------
(***************************************************************************)
(* The steps of the ioctl side leave pc and cur, and so Pinned, alone.     *)
(***************************************************************************)

\* REGISTER_THREAD keeps the invariant: nobody pins the new context yet.
LEMMA RegisterIInv ==
    ASSUME IInv, NEW t \in Threads, rd_register_thread_locked(t)
    PROVE  IInv'
<1> USE DEF rd_register_thread_locked, sessionVars, IInv
<1>0. SessionOf[t] \in Sessions
  BY ConstantsAssumption
<1>1. TypeOK'
  <2>1. reach' \in [Handlers -> SUBSET Threads]
    BY DEF TypeOK
  <2>2. stage' \in [Threads -> Stages]
    BY DEF TypeOK, Stages
  <2>3. active' \in [Threads -> BOOLEAN]
    BY DEF TypeOK
  <2>4. QED
    BY <2>1, <2>2, <2>3 DEF TypeOK
<1>2. FlagInv' /\ ListInv'
  BY DEF TypeOK, FlagInv, ListInv
<1>3. SessionInv'
  BY <1>0 DEF TypeOK, SessionInv, Allocated
<1>4. ReachInv' /\ CurInv'
  BY DEF TypeOK, ReachInv, CurInv, InReadSide, ListInv
<1>5. CountInv'
  <2>1. \A u \in Threads : Pinned(u)' = Pinned(u)
    BY DEF Pinned
  <2>2. Cardinality(Pinned(t)) = 0
    BY PinnedFinite DEF CountInv, WaitInv, TypeOK, Base
  <2>3. QED
    BY <2>1, <2>2 DEF CountInv, Base, TypeOK, WaitInv
<1>6. WaitInv'
  BY DEF WaitInv, TypeOK
<1>7. QED
  BY <1>1, <1>2, <1>3, <1>4, <1>5, <1>6

\* rd_thread_detach_live marks the context.
LEMMA MarkIInv ==
    ASSUME IInv, NEW t \in Threads, rd_detach_mark(t)
    PROVE  IInv'
<1> USE DEF rd_detach_mark, handlerVars, IInv
<1>0. SessionOf[t] \in Sessions
  BY ConstantsAssumption
<1>1. TypeOK'
  <2>1. active' \in [Threads -> BOOLEAN] /\ live_detached' \in [Threads -> BOOLEAN]
    BY DEF TypeOK
  <2>2. QED
    BY <1>0, <2>1 DEF TypeOK, Stages
<1>2. FlagInv' /\ ListInv'
  BY DEF TypeOK, FlagInv, ListInv
<1>3. SessionInv'
  BY DEF TypeOK, SessionInv, Allocated
<1>4. ReachInv' /\ CurInv'
  BY DEF TypeOK, ReachInv, CurInv, InReadSide
<1>5. CountInv'
  <2>1. \A u \in Threads : Pinned(u)' = Pinned(u)
    BY DEF Pinned
  <2>2. QED
    BY <2>1 DEF CountInv, Base, TypeOK
<1>6. WaitInv'
  BY DEF WaitInv, TypeOK
<1>7. QED
  BY <1>1, <1>2, <1>3, <1>4, <1>5, <1>6

\* list_del_rcu: whoever can still come across the context is waited for.
LEMMA RemoveIInv ==
    ASSUME IInv, NEW t \in Threads, rd_remove_live_thread(t)
    PROVE  IInv'
<1> USE DEF rd_remove_live_thread, sessionVars, handlerVars, IInv
<1>1. TypeOK'
  BY DEF TypeOK, Stages
<1>2. FlagInv' /\ ListInv' /\ SessionInv'
  BY DEF TypeOK, FlagInv, ListInv, SessionInv, Allocated
<1>3. ReachInv'
  BY DEF TypeOK, ReachInv, InReadSide
<1>4. CurInv'
  BY DEF TypeOK, CurInv
<1>5. CountInv'
  <2>1. \A u \in Threads : Pinned(u)' = Pinned(u)
    BY DEF Pinned
  <2>2. QED
    BY <2>1 DEF CountInv, Base, TypeOK
<1>6. WaitInv'
  BY DEF WaitInv, TypeOK
<1>7. QED
  BY <1>1, <1>2, <1>3, <1>4, <1>5, <1>6

\* synchronize_rcu returns: nobody can come across the context any more.
LEMMA GraceIInv ==
    ASSUME IInv, NEW t \in Threads, rd_grace_period_ends(t)
    PROVE  IInv'
<1> USE DEF rd_grace_period_ends, sessionVars, handlerVars, IInv
<1>1. TypeOK'
  BY DEF TypeOK, Stages
<1>2. FlagInv' /\ ListInv' /\ SessionInv'
  BY DEF TypeOK, FlagInv, ListInv, SessionInv, Allocated
<1>3. ReachInv' /\ CurInv'
  BY DEF TypeOK, ReachInv, CurInv, InReadSide
<1>4. CountInv'
  <2>1. \A u \in Threads : Pinned(u)' = Pinned(u)
    BY DEF Pinned
  <2>2. QED
    BY <2>1 DEF CountInv, Base, TypeOK
<1>5. WaitInv'
  BY DEF WaitInv, TypeOK
<1>6. QED
  BY <1>1, <1>2, <1>3, <1>4, <1>5

\* The registration drops its reference.
LEMMA DetachPutIInv ==
    ASSUME IInv, NEW t \in Threads, rd_detach_put(t)
    PROVE  IInv'
<1> USE DEF rd_detach_put, rd_thread_live_put, sessionVars, handlerVars, IInv
<1>1. live_refs[t] > 0
  BY PinnedFinite DEF CountInv, Base
<1>2. TypeOK'
  BY <1>1 DEF TypeOK, Stages
<1>3. FlagInv' /\ ListInv' /\ SessionInv'
  BY DEF TypeOK, FlagInv, ListInv, SessionInv, Allocated
<1>4. ReachInv' /\ CurInv'
  BY DEF TypeOK, ReachInv, CurInv, InReadSide
<1>5. CountInv'
  <2>1. \A u \in Threads : Pinned(u)' = Pinned(u)
    BY DEF Pinned
  <2>2. QED
    BY <2>1, PinnedFinite DEF CountInv, Base, TypeOK
<1>6. WaitInv'
  BY <1>1 DEF WaitInv, TypeOK
<1>7. QED
  BY <1>2, <1>3, <1>4, <1>5, <1>6

\* wait_for_completion returns: the count is zero.
LEMMA WaitIInv ==
    ASSUME IInv, NEW t \in Threads, rd_detach_wait(t)
    PROVE  IInv'
<1> USE DEF rd_detach_wait, sessionVars, handlerVars, IInv
<1>1. TypeOK'
  BY DEF TypeOK, Stages
<1>2. FlagInv' /\ ListInv' /\ SessionInv'
  BY DEF TypeOK, FlagInv, ListInv, SessionInv, Allocated
<1>3. ReachInv' /\ CurInv'
  BY DEF TypeOK, ReachInv, CurInv, InReadSide
<1>4. CountInv'
  <2>1. \A u \in Threads : Pinned(u)' = Pinned(u)
    BY DEF Pinned
  <2>2. QED
    BY <2>1 DEF CountInv, Base, TypeOK
<1>5. WaitInv'
  BY DEF WaitInv, TypeOK
<1>6. QED
  BY <1>1, <1>2, <1>3, <1>4, <1>5

\* The live arrays are freed.
LEMMA FreeIInv ==
    ASSUME IInv, NEW t \in Threads, rd_thread_free_live(t)
    PROVE  IInv'
<1> USE DEF rd_thread_free_live, handlerVars, IInv
<1>0. SessionOf[t] \in Sessions
  BY ConstantsAssumption
<1>1. TypeOK'
  BY <1>0 DEF TypeOK, Stages
<1>2. FlagInv' /\ ListInv' /\ SessionInv'
  BY DEF TypeOK, FlagInv, ListInv, SessionInv, Allocated
<1>3. ReachInv' /\ CurInv'
  BY DEF TypeOK, ReachInv, CurInv, InReadSide
<1>4. CountInv'
  <2>1. \A u \in Threads : Pinned(u)' = Pinned(u)
    BY DEF Pinned
  <2>2. QED
    BY <2>1 DEF CountInv, Base, TypeOK
<1>5. WaitInv'
  BY DEF WaitInv, TypeOK
<1>6. QED
  BY <1>1, <1>2, <1>3, <1>4, <1>5

\* The context itself is freed.
LEMMA DestroyIInv ==
    ASSUME IInv, NEW t \in Threads, rd_thread_destroy(t)
    PROVE  IInv'
<1> USE DEF rd_thread_destroy, handlerVars, IInv
<1>0. SessionOf[t] \in Sessions
  BY ConstantsAssumption
<1>1. TypeOK'
  BY <1>0 DEF TypeOK, Stages
<1>2. FlagInv' /\ ListInv' /\ SessionInv'
  BY DEF TypeOK, FlagInv, ListInv, SessionInv, Allocated
<1>3. ReachInv' /\ CurInv'
  BY DEF TypeOK, ReachInv, CurInv, InReadSide
<1>4. CountInv'
  <2>1. \A u \in Threads : Pinned(u)' = Pinned(u)
    BY DEF Pinned
  <2>2. QED
    BY <2>1 DEF CountInv, Base, TypeOK
<1>5. WaitInv'
  BY DEF WaitInv, TypeOK
<1>6. QED
  BY <1>1, <1>2, <1>3, <1>4, <1>5

\* Closing the device, and freeing the session once it has no context left.
LEMMA SessionIInv ==
    ASSUME IInv, NEW s \in Sessions, rd_wpctl_release(s) \/ rd_session_free(s)
    PROVE  IInv'
<1> USE DEF rd_wpctl_release, rd_session_free, threadVars, handlerVars, IInv
<1>1. TypeOK'
  BY DEF TypeOK
<1>2. FlagInv' /\ ListInv' /\ WaitInv'
  BY DEF FlagInv, ListInv, WaitInv
<1>3. SessionInv'
  BY ConstantsAssumption DEF TypeOK, SessionInv, Allocated
<1>4. ReachInv' /\ CurInv'
  BY DEF ReachInv, CurInv, InReadSide
<1>5. CountInv'
  BY DEF CountInv, Base, Pinned
<1>6. QED
  BY <1>1, <1>2, <1>3, <1>4, <1>5

-----------------------------------------------------------------------------
(***************************************************************************)
(* The steps of the handlers.  The first lemma covers the list walk, which *)
(* pins nothing.                                                           *)
(***************************************************************************)

\* The walk over the list, up to the decision to pin a context.
LEMMA WalkIInv ==
    ASSUME IInv, NEW h \in Handlers,
           \/ rd_lookup_begin(h) \/ (\E t \in Threads : rd_lookup_next(h, t))
           \/ rd_lookup_match(h) \/ rd_live_get_check(h)
    PROVE  IInv'
<1> USE DEF rd_lookup_begin, rd_lookup_next, rd_lookup_match, rd_live_get_check,
            NextEntry, Goto, sessionVars, threadVars, IInv
<1>1. TypeOK'
  BY DEF TypeOK, HandlerSteps
<1>2. FlagInv' /\ ListInv' /\ SessionInv' /\ WaitInv'
  BY DEF FlagInv, ListInv, SessionInv, WaitInv, Allocated
<1>3. ReachInv'
  BY DEF TypeOK, ReachInv, InReadSide, ReadSide, HandlerSteps, ListInv
<1>4. CurInv'
  <2>1. CASE rd_lookup_begin(h)
    BY <2>1 DEF TypeOK, CurInv
  <2>2. CASE \E t \in Threads : rd_lookup_next(h, t)
    BY <2>2 DEF TypeOK, CurInv
  <2>3. CASE rd_lookup_match(h)
    BY <2>3 DEF TypeOK, CurInv
  <2>4. CASE rd_live_get_check(h)
    BY <2>4 DEF TypeOK, CurInv
  <2>5. QED
    BY <2>1, <2>2, <2>3, <2>4
<1>5. CountInv'
  <2>1. \A u \in Threads : Pinned(u)' = Pinned(u)
    BY DEF Pinned, TypeOK
  <2>2. QED
    BY <2>1 DEF CountInv, Base, TypeOK
<1>6. QED
  BY <1>1, <1>2, <1>3, <1>4, <1>5

\* The lookup finds nothing and leaves the read side.
LEMMA LookupFailIInv ==
    ASSUME IInv, NEW h \in Handlers, rd_lookup_fail(h)
    PROVE  IInv'
<1> USE DEF rd_lookup_fail, rcu_read_unlock, Goto, sessionVars, threadVars, IInv
<1>1. TypeOK'
  BY DEF TypeOK, HandlerSteps
<1>2. FlagInv' /\ ListInv' /\ SessionInv' /\ WaitInv'
  BY DEF FlagInv, ListInv, SessionInv, WaitInv, Allocated
<1>3. ReachInv'
  BY DEF TypeOK, ReachInv, InReadSide, ReadSide, HandlerSteps
<1>4. CurInv'
  BY DEF TypeOK, CurInv
<1>5. CountInv'
  <2>1. \A u \in Threads : Pinned(u)' = Pinned(u)
    BY DEF Pinned, TypeOK
  <2>2. QED
    BY <2>1 DEF CountInv, Base, TypeOK
<1>6. QED
  BY <1>1, <1>2, <1>3, <1>4, <1>5

\* refcount_inc_not_zero on a context that the reader came across.
LEMMA IncIInv ==
    ASSUME IInv, NEW h \in Handlers, rd_live_get_inc(h)
    PROVE  IInv'
<1> USE DEF rd_live_get_inc, NextEntry, Goto, sessionVars, IInv
<1>0. PICK t \in Threads : t = cur[h] /\ t \in reach[h]
  BY DEF CurInv, TypeOK
<1>1. TypeOK'
  BY <1>0 DEF TypeOK, HandlerSteps
<1>2. FlagInv' /\ ListInv' /\ SessionInv'
  BY DEF FlagInv, ListInv, SessionInv, Allocated
<1>3. ReachInv'
  BY DEF TypeOK, ReachInv, InReadSide, ReadSide, HandlerSteps
<1>4. CurInv'
  BY DEF TypeOK, CurInv
<1>5. CountInv'
  <2>1. \A u \in Threads \ {t} : Pinned(u)' = Pinned(u)
    BY <1>0 DEF Pinned, TypeOK
  <2>2. CASE live_refs[t] = 0
    <3>1. Pinned(t)' = Pinned(t)
      BY <2>2, ConstantsAssumption, <1>0 DEF Pinned, TypeOK
    <3>2. QED
      BY <1>0, <2>1, <2>2, <3>1 DEF CountInv, Base, TypeOK
  <2>3. CASE live_refs[t] # 0
    <3>1. h \notin Pinned(t)
      BY DEF Pinned
    <3>2. Pinned(t)' = Pinned(t) \cup {h}
      BY <2>3, <1>0 DEF Pinned, TypeOK
    <3>3. Cardinality(Pinned(t)') = Cardinality(Pinned(t)) + 1
      BY <1>0, <3>1, <3>2, PinnedJoin
    <3>4. QED
      BY <2>1, <2>3, <3>3, <1>0, PinnedFinite DEF CountInv, Base, TypeOK
  <2>4. QED
    BY <2>2, <2>3
<1>6. WaitInv'
  BY <1>0 DEF WaitInv, TypeOK, ReachInv
<1>7. QED
  BY <1>1, <1>2, <1>3, <1>4, <1>5, <1>6

\* The second look at active/live_detached: give the reference back, or keep
\* it and leave the read side.
LEMMA RecheckIInv ==
    ASSUME IInv, NEW h \in Handlers, rd_live_get_recheck(h)
    PROVE  IInv'
<1> USE DEF rd_live_get_recheck, sessionVars, IInv
<1>0. PICK t \in Threads : /\ t = cur[h] /\ t \in reach[h] /\ t # NoThread
                            /\ h \in Pinned(t)
  BY ConstantsAssumption DEF CurInv, TypeOK, Pinned
<1>1. live_refs[t] > 0
  BY <1>0, PinnedFinite, PinnedPositive DEF CountInv, Base
<1>2. CASE ~active[cur[h]] \/ live_detached[cur[h]]
  <2> USE <1>2 DEF rd_thread_live_put, NextEntry, Goto
  <2>1. TypeOK'
    BY <1>0, <1>1 DEF TypeOK, HandlerSteps
  <2>2. FlagInv' /\ ListInv' /\ SessionInv'
    BY DEF FlagInv, ListInv, SessionInv, Allocated
  <2>3. ReachInv' /\ CurInv'
    <3>1. ReachInv'
      BY DEF TypeOK, ReachInv, InReadSide, ReadSide, HandlerSteps
    <3>2. CurInv'
      BY DEF TypeOK, CurInv, InReadSide, ReadSide, HandlerSteps
    <3>3. QED
      BY <3>1, <3>2
  <2>4. CountInv'
    <3>1. \A u \in Threads \ {t} : Pinned(u)' = Pinned(u)
      BY <1>0 DEF Pinned, TypeOK
    <3>2. Pinned(t)' = Pinned(t) \ {h}
      BY <1>0 DEF Pinned, TypeOK
    <3>3. Cardinality(Pinned(t)') = Cardinality(Pinned(t)) - 1
      BY <1>0, <3>2, PinnedLeave
    <3>4. QED
      BY <3>1, <3>3, <1>0, PinnedFinite DEF CountInv, Base, TypeOK
  <2>5. WaitInv'
    <3>1. stage[t] \in {"live", "marked", "unlinked"}
      BY <1>0 DEF ReachInv
    <3>2. live_refs[t] # 1
      <4>1. live_refs[t] = 1 + Cardinality(Pinned(t))
        BY <1>0, <3>1 DEF CountInv, Base
      <4>2. Cardinality(Pinned(t)) \in Nat /\ Cardinality(Pinned(t)) # 0
        BY <1>0, PinnedFinite, PinnedPositive
      <4>3. QED
        BY <4>1, <4>2
    <3>3. QED
      BY <1>0, <1>1, <3>1, <3>2 DEF WaitInv, TypeOK
  <2>6. QED
    BY <2>1, <2>2, <2>3, <2>4, <2>5
<1>3. CASE ~(~active[cur[h]] \/ live_detached[cur[h]])
  <2> USE <1>3 DEF rcu_read_unlock, Goto
  <2>1. TypeOK'
    BY DEF TypeOK, HandlerSteps
  <2>2. FlagInv' /\ ListInv' /\ SessionInv' /\ WaitInv'
    BY DEF FlagInv, ListInv, SessionInv, WaitInv, Allocated
  <2>3. ReachInv'
    BY DEF TypeOK, ReachInv, InReadSide, ReadSide, HandlerSteps
  <2>4. CurInv'
    BY <1>0 DEF TypeOK, CurInv
  <2>5. CountInv'
    <3>1. \A u \in Threads : Pinned(u)' = Pinned(u)
      BY <1>0 DEF Pinned, TypeOK
    <3>2. QED
      BY <3>1 DEF CountInv, Base, TypeOK
  <2>6. QED
    BY <2>1, <2>2, <2>3, <2>4, <2>5
<1>4. QED
  BY <1>2, <1>3

\* The handler gives its reference back at its end, maybe as the last one.
LEMMA HandlerPutIInv ==
    ASSUME IInv, NEW h \in Handlers, rd_handler_put(h)
    PROVE  IInv'
<1> USE DEF rd_handler_put, rd_thread_live_put, Goto, sessionVars, IInv
<1>0. PICK t \in Threads : /\ t = cur[h] /\ t # NoThread
                            /\ h \in Pinned(t)
  BY ConstantsAssumption DEF CurInv, TypeOK, Pinned
<1>1. live_refs[t] > 0
  BY <1>0, PinnedFinite, PinnedPositive DEF CountInv, Base
<1>2. TypeOK'
  BY <1>0, <1>1 DEF TypeOK, HandlerSteps
<1>3. FlagInv' /\ ListInv' /\ SessionInv'
  BY DEF FlagInv, ListInv, SessionInv, Allocated
<1>4. ReachInv' /\ CurInv'
  BY DEF TypeOK, ReachInv, CurInv, InReadSide, ReadSide, HandlerSteps
<1>5. CountInv'
  <2>1. \A u \in Threads \ {t} : Pinned(u)' = Pinned(u)
    BY <1>0 DEF Pinned, TypeOK
  <2>2. Pinned(t)' = Pinned(t) \ {h}
    BY <1>0 DEF Pinned, TypeOK
  <2>3. Cardinality(Pinned(t)') = Cardinality(Pinned(t)) - 1
    BY <1>0, <2>2, PinnedLeave
  <2>4. QED
    BY <2>1, <2>3, <1>0, PinnedFinite DEF CountInv, Base, TypeOK
<1>6. WaitInv'
  <2>1. Base(t) = 1 => live_refs[t] # 1
    BY <1>0, PinnedFinite, PinnedPositive DEF CountInv
  <2>2. stage[t] \notin {"none", "counting", "detached", "destroyed"}
    BY <1>0, <1>1 DEF WaitInv
  <2>3. QED
    BY <1>0, <1>1, <2>1, <2>2 DEF WaitInv, TypeOK, Stages, Base
<1>7. QED
  BY <1>2, <1>3, <1>4, <1>5, <1>6

-----------------------------------------------------------------------------
\* Every step keeps the invariant.
LEMMA NextIInv == IInv /\ [Next]_vars => IInv'
<1> SUFFICES ASSUME IInv, [Next]_vars PROVE IInv'
  OBVIOUS
<1>1. CASE \E t \in Threads : rd_register_thread_locked(t) \/ rd_detach_mark(t)
                              \/ DetachStep(t) \/ rd_thread_destroy(t)
  BY <1>1, RegisterIInv, MarkIInv, RemoveIInv, GraceIInv, DetachPutIInv,
     WaitIInv, FreeIInv, DestroyIInv DEF DetachStep
<1>2. CASE \E s \in Sessions : rd_wpctl_release(s) \/ rd_session_free(s)
  BY <1>2, SessionIInv
<1>3. CASE \E h \in Handlers : rd_lookup_begin(h) \/ HandlerStep(h)
  BY <1>3, WalkIInv, LookupFailIInv, IncIInv, RecheckIInv, HandlerPutIInv
     DEF HandlerStep
<1>4. CASE UNCHANGED vars
  BY <1>4 DEF vars, sessionVars, threadVars, handlerVars, IInv, TypeOK, FlagInv,
     ListInv, SessionInv, ReachInv, CurInv, CountInv, WaitInv, Allocated,
     InReadSide, Base, Pinned
<1>5. QED
  BY <1>1, <1>2, <1>3, <1>4 DEF Next

\* The inductive invariant holds in every reachable state.
THEOREM Inductive == Spec => []IInv
<1>1. QED
  BY InitIInv, NextIInv, PTL DEF Spec

\* Every variable keeps its type; in particular live_refs never underflows.
THEOREM TypeCorrect == Spec => []TypeOK
<1>1. IInv => TypeOK
  BY DEF IInv
<1>2. QED
  BY Inductive, <1>1, PTL

(***************************************************************************)
(* No kprobe handler ever touches a context, its live arrays or its        *)
(* session after rd_thread_free_live, rd_thread_destroy or kfree(session), *)
(* however many handlers, contexts and sessions there are.                 *)
(***************************************************************************)
THEOREM Safety == Spec => []NoUseAfterFree
<1>1. IInv => NoUseAfterFree
  <2> SUFFICES ASSUME IInv, NEW h \in Handlers, cur[h] # NoThread
               PROVE  /\ HasLiveArrays(cur[h])
                      /\ session[SessionOf[cur[h]]] # "freed"
    BY DEF NoUseAfterFree
  <2>1. cur[h] \in Threads
    BY DEF IInv, TypeOK
  <2>2. stage[cur[h]] \in {"live", "marked", "unlinked", "dropping", "waiting"}
    <3>1. CASE pc[h] = "pinned"
      <4>1. h \in Pinned(cur[h])
        BY <3>1 DEF Pinned
      <4>2. live_refs[cur[h]] > 0
        BY <2>1, <4>1, PinnedFinite, PinnedPositive DEF IInv, CountInv, Base
      <4>3. QED
        BY <2>1, <4>2 DEF IInv, WaitInv, TypeOK, Stages
    <3>2. CASE pc[h] # "pinned"
      BY <3>2 DEF IInv, CurInv, ReachInv, TypeOK, HandlerSteps
    <3>3. QED
      BY <3>1, <3>2
  <2>3. QED
    BY <2>1, <2>2 DEF IInv, SessionInv, HasLiveArrays, Allocated
<1>2. QED
  BY Inductive, <1>1, PTL

(***************************************************************************)
(* complete(&live_refs_zero) is signalled once per context, exactly when   *)
(* the last reference goes, so the detach neither misses nor outruns it.   *)
(***************************************************************************)
THEOREM Completion == Spec => []CompletesOnce
<1>1. IInv => CompletesOnce
  BY DEF IInv, WaitInv, CompletesOnce
<1>2. QED
  BY Inductive, <1>1, PTL

(***************************************************************************)
(* A count that reached zero stays zero: refcount_inc_not_zero never       *)
(* revives a context, and nobody drops a reference it does not hold.       *)
(***************************************************************************)
THEOREM ZeroIsFinal == Spec => NoResurrection
<1> DEFINE Step(t) == /\ live_refs[t] = 0 => live_refs'[t] = 0
                      /\ live_refs'[t] \in live_refs[t] - 1 .. live_refs[t] + 1
<1>1. ASSUME IInv, Next, NEW t \in Threads, stage[t] # "none"
      PROVE  Step(t)
  <2> USE DEF Step
  <2>0. live_refs \in [Threads -> Nat]
    BY <1>1 DEF IInv, TypeOK
  <2>1. CASE UNCHANGED live_refs
    BY <2>0, <2>1
  <2>2. ASSUME NEW u \in Threads, rd_register_thread_locked(u) PROVE Step(t)
    <3>1. stage[u] = "none"
      BY <2>2 DEF rd_register_thread_locked
    <3>2. live_refs' = [live_refs EXCEPT ![u] = 1] \/ UNCHANGED live_refs
      BY <2>2 DEF rd_register_thread_locked
    <3>3. t # u
      BY <1>1, <3>1
    <3>4. live_refs'[t] = live_refs[t]
      BY <2>0, <3>2, <3>3
    <3>5. QED
      BY <2>0, <3>4
  <2>3. ASSUME NEW u \in Threads, rd_detach_put(u) PROVE Step(t)
    <3>1. live_refs[u] # 0
      BY <1>1, <2>3, PinnedFinite DEF rd_detach_put, IInv, CountInv, Base
    <3>2. QED
      BY <2>0, <2>3, <3>1 DEF rd_detach_put, rd_thread_live_put
  <2>4. ASSUME NEW h \in Handlers, rd_live_get_inc(h) PROVE Step(t)
    BY <1>1, <2>0, <2>4 DEF rd_live_get_inc
  <2>5. ASSUME NEW h \in Handlers, rd_live_get_recheck(h) \/ rd_handler_put(h)
        PROVE  Step(t)
    <3>1. cur[h] \in Threads /\ h \in Pinned(cur[h])
      BY <1>1, <2>5, ConstantsAssumption
         DEF rd_live_get_recheck, rd_handler_put, IInv, CurInv, TypeOK, Pinned
    <3>2. live_refs[cur[h]] # 0
      <4>1. live_refs[cur[h]] = Base(cur[h]) + Cardinality(Pinned(cur[h]))
        BY <1>1, <3>1 DEF IInv, CountInv
      <4>2. Cardinality(Pinned(cur[h])) \in Nat /\ Cardinality(Pinned(cur[h])) # 0
        BY <3>1, PinnedFinite, PinnedPositive
      <4>3. Base(cur[h]) \in {0, 1}
        BY DEF Base
      <4>4. QED
        BY <4>1, <4>2, <4>3
    <3>3. \/ UNCHANGED live_refs
          \/ live_refs' = [live_refs EXCEPT ![cur[h]] = @ - 1]
      BY <2>5 DEF rd_live_get_recheck, rd_handler_put, rd_thread_live_put
    <3>4. /\ live_refs[t] \in Nat
          /\ live_refs'[t] = live_refs[t] \/ (t = cur[h] /\ live_refs'[t] = live_refs[t] - 1)
      BY <2>0, <3>1, <3>3
    <3>5. QED
      <4>1. CASE live_refs'[t] = live_refs[t]
        BY <3>4, <4>1
      <4>2. CASE t = cur[h] /\ live_refs'[t] = live_refs[t] - 1
        BY <3>2, <3>4, <4>2
      <4>3. QED
        BY <3>4, <4>1, <4>2
  <2>6. QED
    BY <1>1, <2>1, <2>2, <2>3, <2>4, <2>5
       DEF Next, DetachStep, HandlerStep, rd_detach_mark, rd_remove_live_thread,
           rd_grace_period_ends, rd_detach_wait, rd_thread_free_live,
           rd_thread_destroy, rd_wpctl_release, rd_session_free,
           rd_lookup_begin, rd_lookup_next, rd_lookup_match, rd_lookup_fail,
           rd_live_get_check, threadVars
<1>2. IInv /\ [Next]_vars =>
        [\A t \in Threads : stage[t] # "none" => Step(t)]_vars
  BY <1>1
<1>3. QED
  BY Inductive, <1>2, PTL DEF Spec, NoResurrection

=============================================================================
