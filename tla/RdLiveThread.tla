---------------------------- MODULE RdLiveThread ----------------------------
(***************************************************************************)
(* Lifetime of a thread context of the kernel module rd_wpctl.             *)
(*                                                                         *)
(* A thread context (struct rd_thread_ctx) is created by an ioctl, found   *)
(* by the kprobe handlers through the global RCU list rd_live_threads,     *)
(* pinned by them through the reference count live_refs, and torn down by  *)
(* UNREGISTER_THREAD or by the release of the device file.  The tear-down  *)
(* frees the "live" arrays (perf events, watchpoint slots) that the        *)
(* handlers dereference; the object itself, which keeps the results, is    *)
(* freed only by the release, and the session after all of its threads.    *)
(*                                                                         *)
(* The handlers run concurrently with the ioctls of every session; one     *)
(* session's ioctls exclude each other by the mutex session->lock.         *)
(***************************************************************************)
EXTENDS Integers, FiniteSets

CONSTANTS
    Threads,    \* thread contexts that the sessions may ever allocate
    Sessions,   \* open files of /dev/rd_wpctl
    Handlers,   \* CPUs that may run a kprobe pre-handler
    SessionOf,  \* thread->session
    NoThread    \* the null pointer

ASSUME ConstantsAssumption ==
    /\ SessionOf \in [Threads -> Sessions]
    /\ NoThread \notin Threads
    /\ IsFiniteSet(Handlers)

VARIABLES
    session,        \* [Sessions -> {"open", "releasing", "freed"}]
    lock,           \* session->lock: the thread the running ioctl works on
    stage,          \* [Threads -> Stages]: how far the ioctls took the context
    active,         \* thread->active
    live_detached,  \* thread->live_detached
    live_refs,      \* thread->live_refs
    live_refs_zero, \* thread->live_refs_zero: completions not yet consumed
    live_threads,   \* rd_live_threads, the RCU list
    grace,          \* readers that a thread's synchronize_rcu still waits for
    pc,             \* [Handlers -> HandlerSteps]
    reach,          \* contexts a reader can still come across in the list
    cur             \* the context that a handler is looking at

sessionVars == <<session, lock>>
threadVars == <<stage, active, live_detached, live_refs, live_refs_zero>>
handlerVars == <<pc, reach, cur>>
vars == <<sessionVars, threadVars, live_threads, grace, handlerVars>>

(***************************************************************************)
(* "none": not allocated.  "live": registered.  "marked" ... "counting":   *)
(* inside rd_thread_detach_live.  "detached": the live arrays are freed,   *)
(* the results are kept.  "destroyed": kfree(thread).                      *)
(***************************************************************************)
Stages == {"none", "live", "marked", "unlinked", "dropping", "waiting",
           "counting", "detached", "destroyed"}

(***************************************************************************)
(* "rcu": in the list walk.  "visit": about to read active and the event   *)
(* arrays of cur.  "check", "inc", "recheck": the three steps of           *)
(* rd_thread_live_get_rcu.  "pinned": in rd_handle_bp_hit/rd_handle_wp_hit.*)
(***************************************************************************)
HandlerSteps == {"idle", "rcu", "visit", "check", "inc", "recheck", "pinned"}
ReadSide == HandlerSteps \ {"idle", "pinned"}

InReadSide(h) == pc[h] \in ReadSide

\* kzalloc(thread) is not yet undone by kfree(thread).
Allocated(t) == stage[t] \notin {"none", "destroyed"}

\* perf events and slot arrays exist: set up, and not yet through
\* rd_thread_free_live.
HasLiveArrays(t) == Allocated(t) /\ stage[t] # "detached"

TypeOK ==
    /\ session \in [Sessions -> {"open", "releasing", "freed"}]
    /\ lock \in [Sessions -> Threads \cup {NoThread}]
    /\ stage \in [Threads -> Stages]
    /\ active \in [Threads -> BOOLEAN]
    /\ live_detached \in [Threads -> BOOLEAN]
    /\ live_refs \in [Threads -> Nat]
    /\ live_refs_zero \in [Threads -> Nat]
    /\ live_threads \in SUBSET Threads
    /\ grace \in [Threads -> SUBSET Handlers]
    /\ pc \in [Handlers -> HandlerSteps]
    /\ reach \in [Handlers -> SUBSET Threads]
    /\ cur \in [Handlers -> Threads \cup {NoThread}]

Init ==
    /\ session = [s \in Sessions |-> "open"]
    /\ lock = [s \in Sessions |-> NoThread]
    /\ stage = [t \in Threads |-> "none"]
    /\ active = [t \in Threads |-> FALSE]
    /\ live_detached = [t \in Threads |-> FALSE]
    /\ live_refs = [t \in Threads |-> 0]
    /\ live_refs_zero = [t \in Threads |-> 0]
    /\ live_threads = {}
    /\ grace = [t \in Threads |-> {}]
    /\ pc = [h \in Handlers |-> "idle"]
    /\ reach = [h \in Handlers |-> {}]
    /\ cur = [h \in Handlers |-> NoThread]

-----------------------------------------------------------------------------
(***************************************************************************)
(* The ioctl side.                                                         *)
(***************************************************************************)

\* Mutant: completes when the caller's reference is not yet the last one.
MutPutCompletesEarly(t) ==
    /\ live_refs' = [live_refs EXCEPT ![t] = @ - 1]
    /\ live_refs_zero' =
         IF live_refs[t] <= 2 THEN [live_refs_zero EXCEPT ![t] = @ + 1]
                              ELSE live_refs_zero

\* refcount_dec_and_test(&live_refs), then complete(&live_refs_zero).
rd_thread_live_put(t) ==
    /\ live_refs' = [live_refs EXCEPT ![t] = @ - 1]
    /\ live_refs_zero' =
         IF live_refs[t] = 1 THEN [live_refs_zero EXCEPT ![t] = @ + 1]
                             ELSE live_refs_zero

(***************************************************************************)
(* REGISTER_THREAD.  Until rd_add_live_thread nobody else can see the new  *)
(* context, so its construction is one step.  A failing                    *)
(* rd_thread_setup_events destroys it before anybody saw it.               *)
(***************************************************************************)
rd_register_thread_locked(t) ==
    LET s == SessionOf[t] IN
    /\ session[s] = "open" /\ lock[s] = NoThread
    /\ stage[t] = "none"
    /\ \/ /\ stage' = [stage EXCEPT ![t] = "live"]
          /\ active' = [active EXCEPT ![t] = TRUE]
          /\ live_refs' = [live_refs EXCEPT ![t] = 1]
          /\ live_threads' = live_threads \cup {t}
          /\ reach' = [h \in Handlers |->
                         IF InReadSide(h) THEN reach[h] \cup {t} ELSE reach[h]]
       \/ /\ stage' = [stage EXCEPT ![t] = "destroyed"]
          /\ UNCHANGED <<active, live_refs, live_threads, reach>>
    /\ UNCHANGED <<sessionVars, live_detached, live_refs_zero, grace, pc, cur>>

(***************************************************************************)
(* UNREGISTER_THREAD of an active thread takes the mutex and enters        *)
(* rd_thread_detach_live, which first marks the context under thread->lock.*)
(***************************************************************************)
rd_detach_mark(t) ==
    /\ stage[t] = "live"
    /\ lock[SessionOf[t]] = NoThread
    /\ lock' = [lock EXCEPT ![SessionOf[t]] = t]
    /\ stage' = [stage EXCEPT ![t] = "marked"]
    /\ active' = [active EXCEPT ![t] = FALSE]
    /\ live_detached' = [live_detached EXCEPT ![t] = TRUE]
    /\ UNCHANGED <<session, live_refs, live_refs_zero, live_threads, grace,
                   handlerVars>>

\* list_del_rcu; synchronize_rcu starts and waits for the present readers.
rd_remove_live_thread(t) ==
    /\ stage[t] = "marked"
    /\ stage' = [stage EXCEPT ![t] = "unlinked"]
    /\ live_threads' = live_threads \ {t}
    /\ grace' = [grace EXCEPT ![t] = {h \in Handlers : InReadSide(h)}]
    /\ UNCHANGED <<sessionVars, active, live_detached, live_refs,
                   live_refs_zero, handlerVars>>

\* Mutant: synchronize_rcu is missing.
MutNoGracePeriod(t) ==
    /\ stage[t] = "unlinked"
    /\ stage' = [stage EXCEPT ![t] = "dropping"]
    /\ UNCHANGED <<sessionVars, active, live_detached, live_refs,
                   live_refs_zero, live_threads, grace, handlerVars>>

\* synchronize_rcu returns.
rd_grace_period_ends(t) ==
    /\ stage[t] = "unlinked"
    /\ grace[t] = {}
    /\ stage' = [stage EXCEPT ![t] = "dropping"]
    /\ UNCHANGED <<sessionVars, active, live_detached, live_refs,
                   live_refs_zero, live_threads, grace, handlerVars>>

\* The reference that the registration held is dropped.
rd_detach_put(t) ==
    /\ stage[t] = "dropping"
    /\ stage' = [stage EXCEPT ![t] = "waiting"]
    /\ rd_thread_live_put(t)
    /\ UNCHANGED <<sessionVars, active, live_detached, live_threads, grace,
                   handlerVars>>

\* Mutant: the count is set up again for the next registration of the context.
MutWaitSetsCount(t) ==
    /\ stage[t] = "waiting"
    /\ live_refs_zero[t] > 0
    /\ stage' = [stage EXCEPT ![t] = "counting"]
    /\ live_refs_zero' = [live_refs_zero EXCEPT ![t] = @ - 1]
    /\ live_refs' = [live_refs EXCEPT ![t] = 1]
    /\ UNCHANGED <<sessionVars, active, live_detached, live_threads, grace,
                   handlerVars>>

rd_detach_wait(t) ==
    /\ stage[t] = "waiting"
    /\ live_refs_zero[t] > 0
    /\ stage' = [stage EXCEPT ![t] = "counting"]
    /\ live_refs_zero' = [live_refs_zero EXCEPT ![t] = @ - 1]
    /\ UNCHANGED <<sessionVars, active, live_detached, live_refs,
                   live_threads, grace, handlerVars>>

(***************************************************************************)
(* The armed slots are counted and rd_thread_free_live frees the live      *)
(* arrays.  UNREGISTER_THREAD then leaves the mutex; a release keeps it    *)
(* for rd_thread_destroy of the same context.                              *)
(***************************************************************************)
rd_thread_free_live(t) ==
    LET s == SessionOf[t] IN
    /\ stage[t] = "counting"
    /\ stage' = [stage EXCEPT ![t] = "detached"]
    /\ lock' = IF session[s] = "releasing" THEN lock
                                           ELSE [lock EXCEPT ![s] = NoThread]
    /\ UNCHANGED <<session, active, live_detached, live_refs, live_refs_zero,
                   live_threads, grace, handlerVars>>

\* The last reference to the device file is gone: no ioctl is running.
rd_wpctl_release(s) ==
    /\ session[s] = "open" /\ lock[s] = NoThread
    /\ session' = [session EXCEPT ![s] = "releasing"]
    /\ UNCHANGED <<lock, threadVars, live_threads, grace, handlerVars>>

\* Mutant: the release loop skips contexts that were unregistered before.
MutDestroySkipsDetached(t) ==
    LET s == SessionOf[t] IN
    /\ session[s] = "releasing" /\ lock[s] = t
    /\ stage[t] = "detached"
    /\ stage' = [stage EXCEPT ![t] = "destroyed"]
    /\ lock' = [lock EXCEPT ![s] = NoThread]
    /\ UNCHANGED <<session, active, live_detached, live_refs,
                   live_refs_zero, live_threads, grace, handlerVars>>

\* The release loop's list_del and rd_thread_destroy: right after the detach
\* of the same context, or at once when the context was detached before.
rd_thread_destroy(t) ==
    LET s == SessionOf[t] IN
    /\ session[s] = "releasing" /\ lock[s] \in {t, NoThread}
    /\ stage[t] = "detached"
    /\ stage' = [stage EXCEPT ![t] = "destroyed"]
    /\ lock' = [lock EXCEPT ![s] = NoThread]
    /\ UNCHANGED <<session, active, live_detached, live_refs,
                   live_refs_zero, live_threads, grace, handlerVars>>

\* kfree(session), once every context of the session has been destroyed.
rd_session_free(s) ==
    /\ session[s] = "releasing" /\ lock[s] = NoThread
    /\ \A t \in Threads : SessionOf[t] = s => ~Allocated(t)
    /\ session' = [session EXCEPT ![s] = "freed"]
    /\ UNCHANGED <<lock, threadVars, live_threads, grace, handlerVars>>

-----------------------------------------------------------------------------
(***************************************************************************)
(* The handler side.                                                       *)
(***************************************************************************)

Goto(h, step) == pc' = [pc EXCEPT ![h] = step]

\* Back in the list walk, past cur; rcu_read_unlock is a step of its own.
NextEntry(h) ==
    /\ Goto(h, "rcu")
    /\ cur' = [cur EXCEPT ![h] = NoThread]
    /\ reach' = [reach EXCEPT ![h] = @ \ {cur[h]}]

\* A reader that leaves its section no longer holds up any grace period.
rcu_read_unlock(h) ==
    /\ grace' = [t \in Threads |-> grace[t] \ {h}]
    /\ reach' = [reach EXCEPT ![h] = {}]

\* A perf event fires; the kprobe pre-handler starts its lookup.
rd_lookup_begin(h) ==
    /\ pc[h] = "idle"
    /\ Goto(h, "rcu")
    /\ reach' = [reach EXCEPT ![h] = live_threads]
    /\ UNCHANGED <<sessionVars, threadVars, live_threads, grace, cur>>

rd_lookup_next(h, t) ==
    /\ pc[h] = "rcu"
    /\ t \in reach[h]
    /\ Goto(h, "visit")
    /\ cur' = [cur EXCEPT ![h] = t]
    /\ UNCHANGED <<sessionVars, threadVars, live_threads, grace, reach>>

\* Neither an inactive context nor another thread's events match.
rd_lookup_match(h) ==
    /\ pc[h] = "visit"
    /\ \/ NextEntry(h)
       \/ active[cur[h]] /\ Goto(h, "check") /\ UNCHANGED <<reach, cur>>
    /\ UNCHANGED <<sessionVars, threadVars, live_threads, grace>>

\* The list ends: rcu_read_unlock, and the pre-handler returns.
rd_lookup_fail(h) ==
    /\ pc[h] = "rcu"
    /\ Goto(h, "idle")
    /\ rcu_read_unlock(h)
    /\ UNCHANGED <<sessionVars, threadVars, live_threads, cur>>

rd_live_get_check(h) ==
    /\ pc[h] = "check"
    /\ IF ~active[cur[h]] \/ live_detached[cur[h]]
       THEN NextEntry(h)
       ELSE Goto(h, "inc") /\ UNCHANGED <<reach, cur>>
    /\ UNCHANGED <<sessionVars, threadVars, live_threads, grace>>

\* refcount_inc_not_zero
rd_live_get_inc(h) ==
    /\ pc[h] = "inc"
    /\ IF live_refs[cur[h]] = 0
       THEN NextEntry(h) /\ UNCHANGED live_refs
       ELSE /\ Goto(h, "recheck")
            /\ live_refs' = [live_refs EXCEPT ![cur[h]] = @ + 1]
            /\ UNCHANGED <<reach, cur>>
    /\ UNCHANGED <<sessionVars, stage, active, live_detached, live_refs_zero,
                   live_threads, grace>>

\* Mutant: a failed recheck keeps the reference it took.
MutRecheckKeepsRef(h) ==
    /\ pc[h] = "recheck"
    /\ IF ~active[cur[h]] \/ live_detached[cur[h]]
       THEN NextEntry(h) /\ UNCHANGED <<live_refs, live_refs_zero, grace>>
       ELSE /\ Goto(h, "pinned")
            /\ rcu_read_unlock(h)
            /\ UNCHANGED <<live_refs, live_refs_zero, cur>>
    /\ UNCHANGED <<sessionVars, stage, active, live_detached, live_threads>>

rd_live_get_recheck(h) ==
    /\ pc[h] = "recheck"
    /\ IF ~active[cur[h]] \/ live_detached[cur[h]]
       THEN /\ rd_thread_live_put(cur[h])
            /\ NextEntry(h)
            /\ UNCHANGED grace
       ELSE /\ Goto(h, "pinned")
            /\ rcu_read_unlock(h)
            /\ UNCHANGED <<live_refs, live_refs_zero, cur>>
    /\ UNCHANGED <<sessionVars, stage, active, live_detached, live_threads>>

\* The handler body is over (or the event was another task's).
rd_handler_put(h) ==
    /\ pc[h] = "pinned"
    /\ Goto(h, "idle")
    /\ rd_thread_live_put(cur[h])
    /\ cur' = [cur EXCEPT ![h] = NoThread]
    /\ UNCHANGED <<sessionVars, stage, active, live_detached, live_threads,
                   grace, reach>>

-----------------------------------------------------------------------------
DetachStep(t) ==
    \/ rd_remove_live_thread(t) \/ rd_grace_period_ends(t)
    \/ rd_detach_put(t) \/ rd_detach_wait(t) \/ rd_thread_free_live(t)

HandlerStep(h) ==
    \/ \E t \in Threads : rd_lookup_next(h, t)
    \/ rd_lookup_match(h) \/ rd_lookup_fail(h)
    \/ rd_live_get_check(h) \/ rd_live_get_inc(h) \/ rd_live_get_recheck(h)
    \/ rd_handler_put(h)

Next ==
    \/ \E t \in Threads :
          \/ rd_register_thread_locked(t) \/ rd_detach_mark(t)
          \/ DetachStep(t) \/ rd_thread_destroy(t)
    \/ \E s \in Sessions : rd_wpctl_release(s) \/ rd_session_free(s)
    \/ \E h \in Handlers : rd_lookup_begin(h) \/ HandlerStep(h)

Spec == Init /\ [][Next]_vars

(***************************************************************************)
(* An ioctl runs on until it returns, a kprobe handler never stops half    *)
(* way, and a release works through all of its threads.  No event needs    *)
(* to fire and no ioctl needs to be issued.                                *)
(***************************************************************************)
Fairness ==
    /\ \A t \in Threads : WF_vars(DetachStep(t))
    /\ \A t \in Threads : WF_vars(session[SessionOf[t]] = "releasing"
                                  /\ (rd_detach_mark(t) \/ rd_thread_destroy(t)))
    /\ \A s \in Sessions : WF_vars(rd_session_free(s))
    /\ \A h \in Handlers : WF_vars(HandlerStep(h))

FairSpec == Spec /\ Fairness

-----------------------------------------------------------------------------
(***************************************************************************)
(* Properties.                                                             *)
(***************************************************************************)

Pinned(t) == {h \in Handlers : cur[h] = t /\ pc[h] \in {"recheck", "pinned"}}

(***************************************************************************)
(* Whatever a kprobe handler dereferences exists.  In the list walk of     *)
(* rd_lookup_bp_site_rcu/rd_lookup_wp_slot_rcu it reads the context, its   *)
(* event arrays and its session without any reference; in                  *)
(* rd_handle_bp_hit/rd_handle_wp_hit it uses all of them outside RCU.      *)
(* Neither rd_thread_free_live, nor kfree(thread), nor kfree(session) may  *)
(* have happened by then.                                                  *)
(***************************************************************************)
NoUseAfterFree ==
    \A h \in Handlers : cur[h] # NoThread =>
        /\ HasLiveArrays(cur[h])
        /\ session[SessionOf[cur[h]]] # "freed"

(***************************************************************************)
(* A context whose live_refs fell to zero is never pinned again, so        *)
(* complete(&live_refs_zero) runs exactly once per context: the            *)
(* wait_for_completion of rd_thread_detach_live consumes the only one.     *)
(***************************************************************************)
CompletesOnce ==
    \A t \in Threads : Allocated(t) =>
        live_refs_zero[t]
          = IF live_refs[t] = 0 /\ stage[t] = "waiting" THEN 1 ELSE 0

(***************************************************************************)
(* What a step may never do to the count: leave zero for a context that    *)
(* was registered (refcount_inc_not_zero), or move by more than one.       *)
(***************************************************************************)
NoResurrection ==
    [][\A t \in Threads : stage[t] # "none" =>
          /\ live_refs[t] = 0 => live_refs'[t] = 0
          /\ live_refs'[t] \in live_refs[t] - 1 .. live_refs[t] + 1]_vars

(***************************************************************************)
(* rd_thread_detach_live returns, although new handlers keep starting      *)
(* their lookups all the time: the ioctl is held up neither by             *)
(* synchronize_rcu nor by the completion for ever.                         *)
(***************************************************************************)
DetachReturns ==
    \A t \in Threads : stage[t] = "marked" ~> stage[t] \in {"detached", "destroyed"}

\* Closing the device frees the session and every context it still had.
ReleaseFrees ==
    \A s \in Sessions : session[s] = "releasing" ~>
        /\ session[s] = "freed"
        /\ \A t \in Threads : SessionOf[t] = s => ~Allocated(t)

=============================================================================
