-------------------------- MODULE Scheduler_proofs ---------------------------
(***************************************************************************)
(* The theorems about Scheduler. The properties the runs check are not     *)
(* inductive: a step of a task depends on where the other tasks are inside *)
(* their calls, on a switch being asked for whenever the running task      *)
(* should not run, on every wake time agreeing with the delay it stands    *)
(* for, and on one owner for the memory of a deleted task. IInv states     *)
(* this (it is defined in Scheduler_lemmas, in six named parts), every     *)
(* action keeps it, and the properties follow.                             *)
(***************************************************************************)
EXTENDS Scheduler_lemmas

(***************************************************************************)
(* Interrupts.                                                             *)
(***************************************************************************)
\* an interrupt may wake tasks; it asks for a switch if one is above c
Quiet(n, s, sw) ==
    /\ n \in Kernel /\ ListsOK(n)
    /\ \A u \in Threads : /\ Linked(n, u) <=> Linked(s, u)
                          /\ IsReady(s, u) => IsReady(n, u)
    /\ n.uxPriority = s.uxPriority /\ n.pxCurrentTCB = s.pxCurrentTCB
    /\ n.xTasksWaitingTermination = s.xTasksWaitingTermination
    /\ n.uxSchedulerSuspended = s.uxSchedulerSuspended
    /\ s.xYieldPending => n.xYieldPending
    /\ ~ sw => NoneAbove(n, s)

\* what an interrupt finds
Found(s, pc, a, y, m) ==
    /\ s \in Kernel /\ y \in BOOLEAN
    /\ Placed(s, m) /\ Called(s, pc, a, y) /\ Running(s, pc, a, y) /\ Owned(s, pc, a, m)

\* An interrupt that asks for no switch, with none pending: the running
\* task goes on, and it is still the right one.
LEMMA QuietStays ==
  ASSUME NEW s, NEW pc, NEW a, NEW y, NEW m, NEW n,
         Found(s, pc, a, y, m), Quiet(n, s, FALSE)
  PROVE  Placed(n, m) /\ Called(n, pc, a, y) /\ Running(n, pc, a, y) /\ Owned(n, pc, a, m)
<1>0. /\ s \in Kernel /\ y \in BOOLEAN
      /\ Placed(s, m) /\ Called(s, pc, a, y) /\ Running(s, pc, a, y) /\ Owned(s, pc, a, m)
  BY DEF Found
<1> USE <1>0
<1>1. Placed(n, m)
  BY DEF Placed, Quiet
<1>2. Called(n, pc, a, y)
  BY DEF Called, Quiet
<1>3. Owned(n, pc, a, m)
  BY DEF Owned, Quiet
<1>4. s.pxCurrentTCB \in Threads
  BY DEF Kernel
<1>5. NoneAbove(n, s) /\ (Highest(s) => Highest(n))
  BY StillHighest DEF Quiet
<1>6. Running(n, pc, a, y)
  <2> DEFINE c == s.pxCurrentTCB
             p == pc[c]
             t == a[c].task
  <2>1. Runs(s, p, t, y)
    BY DEF Running
  <2>2. n.pxCurrentTCB = c /\ n.uxSchedulerSuspended = s.uxSchedulerSuspended
        /\ n.uxPriority = s.uxPriority
    BY DEF Quiet
  <2> HIDE DEF p, t
  <2>3. \/ IsReady(n, c)
        \/ y /\ s.uxSchedulerSuspended = 0
        \/ p \in {"unlock", "resume", "yield"}
        \/ p \in {"reset", "free"} /\ t = c
    BY <1>4, <2>1 DEF Runs, Quiet
  <2>4. n.uxSchedulerSuspended > 0 => y \/ n.xYieldPending \/ Highest(n)
    BY <1>5, <2>1 DEF Runs, Quiet
  <2>5. p = "created" => \A u \in Threads : IsReady(n, u) =>
                                n.uxPriority[u] <= n.uxPriority[c] \/ u = t
    BY <1>5, <2>1, <2>2 DEF Runs, NoneAbove
  <2>6. s.uxSchedulerSuspended = 0 /\ ~ y /\ p \in {"run", "reset", "free"} =>
              (p \in {"reset", "free"} /\ t = c) \/ Highest(n)
    BY <1>5, <2>1 DEF Runs
  <2>7. Runs(n, p, t, y)
    BY <2>2, <2>3, <2>4, <2>5, <2>6 DEF Runs
  <2> QED BY <2>2, <2>7 DEF Running, p, t
<1> QED BY <1>1, <1>2, <1>3, <1>6

\* what it leaves when it ends with a switch
Switched(r, n, pc, a, m, l) ==
    /\ r \in Kernel /\ Placed(r, m) /\ Timed(r, l) /\ Called(r, pc, a, FALSE)
    /\ Running(r, pc, a, FALSE) /\ Owned(r, pc, a, m)
    /\ r.xPendedTicks = n.xPendedTicks
    /\ r.uxSchedulerSuspended = n.uxSchedulerSuspended

\* An interrupt that ends with a switch runs the ready task of the highest
\* priority, or leaves a yield pending while the scheduler is suspended.
LEMMA QuietSwitches ==
  ASSUME NEW s, NEW pc, NEW a, NEW y, NEW m, NEW l, NEW n,
         Found(s, pc, a, y, m), Quiet(n, s, TRUE), Timed(n, l)
  PROVE  Switched(vTaskSwitchContext(n), n, pc, a, m, l)
<1> DEFINE r == vTaskSwitchContext(n)
<1>0. /\ s \in Kernel /\ y \in BOOLEAN
      /\ Placed(s, m) /\ Called(s, pc, a, y) /\ Running(s, pc, a, y) /\ Owned(s, pc, a, m)
  BY DEF Found
<1> USE <1>0
<1>1. Placed(n, m) /\ Called(n, pc, a, y) /\ Owned(n, pc, a, m) /\ n \in Kernel
  BY DEF Placed, Called, Owned, Quiet
<1>2. CASE n.uxSchedulerSuspended > 0
  <2> DEFINE w == [n EXCEPT !.xYieldPending = TRUE]
  <2>1. r = w
    BY <1>2 DEF vTaskSwitchContext
  <2>2. /\ w \in Kernel /\ w.xYieldPending = TRUE
        /\ w.xSuspendedTaskList = n.xSuspendedTaskList
        /\ SameReady(w, n) /\ SameDelayed(w, n) /\ SameEvents(w, n) /\ SameRest(w, n)
    BY <1>1, SetYieldFacts
  <2> HIDE DEF w, r
  <2>3. /\ SamePlaces(w, n) /\ w.pxCurrentTCB = n.pxCurrentTCB
        /\ w.uxTopReadyPriority = n.uxTopReadyPriority
        /\ w.xTasksWaitingTermination = n.xTasksWaitingTermination
        /\ w.uxSchedulerSuspended = n.uxSchedulerSuspended
        /\ w.xPendedTicks = n.xPendedTicks
    BY <2>2, SameEverything DEF SameReady, SameRest
  <2>4. Alike(w, n) /\ TimesOK(w) /\ LeftOK(w, l, w.xPendedTicks)
    BY <1>1, <2>2, <2>3, SamePlacesAlike DEF Placed, Timed
  <2>5. Placed(w, m)
    BY <1>1, <2>4 DEF Placed, Alike
  <2>6. Timed(w, l)
    BY <1>2, <2>3, <2>4 DEF Timed, Alike
  <2>7. Called(w, pc, a, FALSE) /\ Owned(w, pc, a, m)
    BY <1>1, <2>3 DEF Called, Owned
  <2>8. Running(w, pc, a, FALSE)
    <3> DEFINE c == s.pxCurrentTCB
               p == pc[c]
               t == a[c].task
    <3>1. Runs(s, p, t, y) /\ w.pxCurrentTCB = c /\ w.uxSchedulerSuspended > 0
          /\ s.uxSchedulerSuspended > 0 /\ c \in Threads
      BY <1>2, <2>3 DEF Running, Quiet, Kernel
    <3>2. ~ (p = "created") /\ ~ (s.uxSchedulerSuspended = 0) /\ ~ (w.uxSchedulerSuspended = 0)
      BY <3>1 DEF Called
    <3>3. IsReady(s, c) => IsReady(w, c)
      BY <2>4, <3>1 DEF Alike, Quiet
    <3> HIDE DEF p, t
    <3>4. Runs(w, p, t, FALSE)
      BY <2>2, <3>1, <3>2, <3>3 DEF Runs
    <3> QED BY <3>1, <3>4 DEF Running, p, t
  <2> QED BY <2>1, <2>2, <2>3, <2>5, <2>6, <2>7, <2>8 DEF r, Switched
<1>3. CASE n.uxSchedulerSuspended = 0
  <2>1. /\ r \in Kernel /\ SamePlaces(r, n) /\ ListsOK(r)
        /\ IsReady(r, r.pxCurrentTCB) /\ Highest(r)
        /\ r.xTasksWaitingTermination = n.xTasksWaitingTermination
        /\ r.xPendedTicks = n.xPendedTicks
        /\ r.uxSchedulerSuspended = n.uxSchedulerSuspended
    BY <1>1, <1>3, SwitchFacts DEF Placed
  <2> HIDE DEF r
  <2>2. /\ \A t \in Threads : Linked(r, t) <=> Linked(n, t)
        /\ TimesOK(r) /\ LeftOK(r, l, r.xPendedTicks) /\ Pnd(r) = Pnd(n)
    BY <2>1, SamePlacesFacts DEF Timed, SamePlaces
  <2>3. Placed(r, m) /\ Timed(r, l)
    BY <1>1, <2>1, <2>2 DEF Placed, Timed
  <2>4. r.pxCurrentTCB \in Threads /\ r.uxSchedulerSuspended = 0
    BY <1>3, <2>1 DEF Kernel
  <2>5. \A t \in Threads : pc[t] \notin {"add", "unlock", "resume"}
    BY <1>1, <1>3 DEF Called
  <2>6. Called(r, pc, a, FALSE)
    BY <1>1, <2>4, <2>5 DEF Called
  <2>7. m[r.pxCurrentTCB] = "live"
    BY <2>1, <2>3, <2>4 DEF Placed, Linked
  <2>8. Owned(r, pc, a, m)
    BY <1>1, <2>1, <2>7 DEF Owned
  <2>9. Running(r, pc, a, FALSE)
    <3>1. \A p, t : Runs(r, p, t, FALSE)
      BY <2>1, <2>4 DEF Runs, Highest
    <3> QED BY <3>1 DEF Running
  <2> QED BY <2>1, <2>3, <2>6, <2>8, <2>9 DEF r, Switched
<1>4. n.uxSchedulerSuspended > 0 \/ n.uxSchedulerSuspended = 0
  BY <1>1 DEF Kernel
<1> QED BY <1>2, <1>3, <1>4, Zenon

\* the task that runs in n may be at p in a call with the argument w
MayBe(n, p, w, y) ==
    LET c == n.pxCurrentTCB
    IN  /\ c = Idle => p \in {"run", "free"}
        /\ p \in {"add", "unlock", "resume"} => n.uxSchedulerSuspended = 1
        /\ p \in {"reset", "free", "created"} => w.task \in Tasks
        /\ p = "add" => w.ticks > 0
        /\ p \in {"yield", "created"} => n.uxSchedulerSuspended = 0
        /\ p \in {"reset", "free"} /\ w.task = c => n.uxSchedulerSuspended = 0
        /\ y => p = "run"

\* Where the tasks are inside their calls, after a step of the running
\* task.
LEMMA CalledStep ==
  ASSUME NEW s \in Kernel, NEW pc \in [Threads -> Kpcs], NEW a \in [Threads -> Args], NEW y,
         Called(s, pc, a, y), NEW n \in Kernel, n.pxCurrentTCB = s.pxCurrentTCB,
         NEW p \in Kpcs, NEW w \in Args, NEW z \in BOOLEAN, MayBe(n, p, w, z)
  PROVE  LET c == s.pxCurrentTCB
             pc2 == Put(pc, c, p)
             a2 == Put(a, c, w)
         IN  /\ pc2 \in [Threads -> Kpcs] /\ a2 \in [Threads -> Args]
             /\ pc2[c] = p /\ a2[c] = w
             /\ \A u \in Threads : u # c => pc2[u] = pc[u] /\ a2[u] = a[u]
             /\ Called(n, pc2, a2, z)
<1> DEFINE c == s.pxCurrentTCB
           pc2 == Put(pc, c, p)
           a2 == Put(a, c, w)
<1>1. c \in Threads /\ Idle \in Threads
  BY DEF Kernel, Threads
<1>2. /\ pc2 \in [Threads -> Kpcs] /\ a2 \in [Threads -> Args]
      /\ pc2[c] = p /\ a2[c] = w
      /\ \A u \in Threads : u # c => pc2[u] = pc[u] /\ a2[u] = a[u]
  BY <1>1 DEF Put
<1> HIDE DEF pc2, a2
<1>3. pc2[Idle] \in {"run", "free"}
  <2>1. CASE c = Idle
    BY <1>2, <2>1 DEF MayBe
  <2>2. CASE c # Idle
    BY <1>1, <1>2, <2>2 DEF Called
  <2> QED BY <2>1, <2>2
<1>4. ASSUME NEW t \in Threads
      PROVE  /\ pc2[t] \in {"add", "unlock", "resume"} =>
                   t = n.pxCurrentTCB /\ n.uxSchedulerSuspended = 1
             /\ pc2[t] \in {"reset", "free", "created"} => a2[t].task \in Tasks
             /\ pc2[t] = "add" => a2[t].ticks > 0
  <2>1. CASE t = c
    BY <1>2, <2>1 DEF MayBe
  <2>2. CASE t # c
    <3>1. pc2[t] = pc[t] /\ a2[t] = a[t]
      BY <1>2, <2>2
    <3>2. pc[t] \notin {"add", "unlock", "resume"}
      BY <2>2 DEF Called
    <3> QED BY <3>1, <3>2 DEF Called
  <2> QED BY <2>1, <2>2
<1>5. Called(n, pc2, a2, z)
  BY <1>2, <1>3, <1>4 DEF Called, MayBe
<1> QED BY <1>2, <1>5 DEF pc2, a2

\* A step of the running task to p keeps the invariant, if it keeps the
\* parts about the lists, the delays and the memory and leaves the running
\* task where it may be.
LEMMA CallStep ==
  ASSUME NEW s \in Kernel, NEW pc \in [Threads -> Kpcs], NEW a \in [Threads -> Args], NEW y,
         Called(s, pc, a, y), NEW n \in Kernel, n.pxCurrentTCB = s.pxCurrentTCB,
         NEW p \in Kpcs, NEW w \in Args, NEW z \in BOOLEAN, MayBe(n, p, w, z),
         NEW m \in [Threads -> {"live", "dead", "free"}],
         NEW l \in [Threads -> 0..portMAX_DELAY],
         Placed(n, m), Timed(n, l), Runs(n, p, w.task, z),
         Owned(n, Put(pc, s.pxCurrentTCB, p), Put(a, s.pxCurrentTCB, w), m)
  PROVE  Good(n, Put(pc, s.pxCurrentTCB, p), Put(a, s.pxCurrentTCB, w), z, m, l)
<1> DEFINE c == s.pxCurrentTCB
           pc2 == Put(pc, c, p)
           a2 == Put(a, c, w)
<1>1. /\ pc2 \in [Threads -> Kpcs] /\ a2 \in [Threads -> Args]
      /\ pc2[c] = p /\ a2[c] = w
      /\ Called(n, pc2, a2, z)
  BY CalledStep
<1>2. Owned(n, pc2, a2, m)
  OBVIOUS
<1> HIDE DEF pc2, a2
<1>3. Running(n, pc2, a2, z)
  BY <1>1 DEF Running
<1>4. Typed(n, pc2, a2, z, m, l)
  BY <1>1 DEF Typed
<1>5. Good(n, pc2, a2, z, m, l)
  BY <1>1, <1>2, <1>3, <1>4 DEF Good
<1> QED BY <1>5 DEF pc2, a2

\* So does a call that the running task does not leave its own code for.
LEMMA StayStep ==
  ASSUME NEW s \in Kernel, NEW pc \in [Threads -> Kpcs], NEW a \in [Threads -> Args], NEW y,
         Called(s, pc, a, y), pc[s.pxCurrentTCB] = "run",
         NEW n \in Kernel, n.pxCurrentTCB = s.pxCurrentTCB, NEW z \in BOOLEAN,
         NEW m \in [Threads -> {"live", "dead", "free"}],
         NEW l \in [Threads -> 0..portMAX_DELAY],
         Placed(n, m), Timed(n, l), Owned(n, pc, a, m), Runs(n, "run", a[s.pxCurrentTCB].task, z)
  PROVE  Good(n, pc, a, z, m, l)
<1>1. Called(n, pc, a, z)
  BY DEF Called
<1>2. Running(n, pc, a, z)
  BY DEF Running
<1>3. Typed(n, pc, a, z, m, l)
  BY DEF Typed
<1> QED BY <1>1, <1>2, <1>3 DEF Good

\* No task is deleted or freed, and no task is about to free another.
LEMMA OwnedKept ==
  ASSUME NEW s \in Kernel, NEW pc \in [Threads -> Kpcs], NEW a \in [Threads -> Args], NEW m,
         Owned(s, pc, a, m), NEW n \in Kernel, n.pxCurrentTCB = s.pxCurrentTCB,
         n.xTasksWaitingTermination = s.xTasksWaitingTermination
  PROVE  /\ Owned(n, pc, a, m)
         /\ \A p, w : p # "free" =>
              Owned(n, Put(pc, s.pxCurrentTCB, p), Put(a, s.pxCurrentTCB, w), m)
<1> DEFINE c == s.pxCurrentTCB
<1>1. Owned(n, pc, a, m)
  BY DEF Owned
<1>2. ASSUME NEW p, NEW w, p # "free"
      PROVE  Owned(n, Put(pc, c, p), Put(a, c, w), m)
  <2> DEFINE pc2 == Put(pc, c, p)
             a2 == Put(a, c, w)
  <2>1. \A u, t \in Threads : Frees(pc2, a2, u, t) => Frees(pc, a, u, t)
    BY <1>2 DEF Frees, Kernel, Put
  <2> HIDE DEF pc2, a2
  <2>2. Owned(n, pc2, a2, m)
    BY <2>1 DEF Owned
  <2> QED BY <2>2 DEF pc2, a2
<1> QED BY <1>1, <1>2

\* The arguments of no call.
LEMMA ArgFacts ==
  /\ NoArg \in Args
  /\ \A t \in Tasks : LET w == [NoArg EXCEPT !.task = t] IN w \in Args /\ w.task = t
  /\ \A n \in 0..portMAX_DELAY :
        LET w == [NoArg EXCEPT !.ticks = n]
        IN  w \in Args /\ w.ticks = n /\ w.event = NoEvent
  /\ \A n \in 0..portMAX_DELAY, e \in Events :
        LET w == [NoArg EXCEPT !.ticks = n, !.event = e]
        IN  w \in Args /\ w.ticks = n /\ w.event = e
<1>1. 0 \in 0..portMAX_DELAY
  BY BoundsAssumption DEF portMAX_DELAY
<1>2. Tasks \subseteq Threads
  BY DEF Threads
<1> QED BY <1>1, <1>2 DEF NoArg, Args

-----------------------------------------------------------------------------
\* the part of it that a step has to establish
Preserved ==
    /\ Good(k', kpc', arg', yieldReq', tcb', left')
    /\ k'.xPendedTicks <= MaxPended /\ k'.uxSchedulerSuspended <= MaxSuspended

\* The parts of the invariant.
LEMMA Parts ==
  ASSUME IInv
  PROVE  /\ k \in Kernel /\ yieldReq \in BOOLEAN /\ kpc \in [Threads -> Kpcs]
         /\ arg \in [Threads -> Args] /\ tcb \in [Threads -> {"live", "dead", "free"}]
         /\ left \in [Threads -> 0..portMAX_DELAY] /\ left \in [Threads -> Nat]
         /\ ListsOK(k) /\ TimesOK(k) /\ LeftOK(k, left, k.xPendedTicks)
         /\ Placed(k, tcb) /\ Timed(k, left) /\ Called(k, kpc, arg, yieldReq)
         /\ Running(k, kpc, arg, yieldReq) /\ Owned(k, kpc, arg, tcb)
         /\ cur \in Threads /\ k.pxCurrentTCB \in Threads
         /\ Unlocked => k.xPendedTicks = 0 /\ Pnd(k) = {}
         /\ k.xPendedTicks \in Nat /\ k.uxSchedulerSuspended \in Nat
         /\ MaxPended \in Nat /\ MaxSuspended \in Nat /\ MaxSuspended > 0
<1>1. Typed(k, kpc, arg, yieldReq, tcb, left)
  BY DEF IInv, Good
<1>2. left \in [Threads -> Nat]
  BY <1>1, BoundsAssumption DEF Typed, portMAX_DELAY
<1>3. MaxPended \in Nat /\ MaxSuspended \in Nat /\ MaxSuspended > 0
  BY WorkloadAssumption, BoundsAssumption DEF IInv, MaxPended
<1>4. Placed(k, tcb) /\ Timed(k, left) /\ Called(k, kpc, arg, yieldReq)
      /\ Running(k, kpc, arg, yieldReq) /\ Owned(k, kpc, arg, tcb)
  BY DEF IInv, Good
<1>5. ListsOK(k) /\ TimesOK(k) /\ LeftOK(k, left, k.xPendedTicks)
      /\ (Unlocked => k.xPendedTicks = 0 /\ Pnd(k) = {})
  BY <1>4 DEF Placed, Timed, Unlocked
<1>6. cur \in Threads /\ k.xPendedTicks \in Nat /\ k.uxSchedulerSuspended \in Nat
  BY <1>1 DEF Typed, Kernel, cur
<1> QED BY <1>1, <1>2, <1>3, <1>4, <1>5, <1>6 DEF Typed, cur

\* What it means that the running task takes a step.
LEMMA AtFacts ==
  ASSUME IInv, NEW p, At(p)
  PROVE  yieldReq = FALSE /\ kpc[k.pxCurrentTCB] = p /\ k.pxCurrentTCB \in Threads
<1>1. yieldReq \in BOOLEAN /\ k.pxCurrentTCB \in Threads
  BY Parts
<1>2. ~ yieldReq /\ kpc[k.pxCurrentTCB] = p
  BY DEF At, cur
<1> QED BY <1>1, <1>2

\* The running task in its own code is ready; unless the scheduler is
\* suspended, nothing ready is above it, and if it is, that or a yield is
\* pending.
LEMMA AtRun ==
  ASSUME IInv, At("run")
  PROVE  /\ yieldReq = FALSE /\ kpc[k.pxCurrentTCB] = "run" /\ IsReady(k, k.pxCurrentTCB)
         /\ Unlocked => Highest(k)
         /\ ~ Unlocked => k.xYieldPending \/ Highest(k)
<1>1. yieldReq = FALSE /\ kpc[k.pxCurrentTCB] = "run"
  BY Parts DEF At, cur
<1>2. Runs(k, "run", arg[k.pxCurrentTCB].task, FALSE)
  BY <1>1, Parts DEF Running
<1>3. k.uxSchedulerSuspended \in Nat
  BY Parts
<1> QED BY <1>1, <1>2, <1>3 DEF Runs, Unlocked

\* Kernel calls are made by application tasks.
LEMMA AtCall ==
  ASSUME IInv, NEW c, Call(c)
  PROVE  At("run") /\ k.pxCurrentTCB \in Tasks /\ k.pxCurrentTCB # Idle
<1>1. At("run") /\ cur \in Callers
  BY DEF Call
<1>2. Callers \subseteq Tasks
  BY WorkloadAssumption DEF IInv, Callers
<1> QED BY <1>1, <1>2, ThreadsAssumption DEF cur

\* A step in which the running task goes on to p with the argument w.
LEMMA Goes ==
  ASSUME IInv, NEW p \in Kpcs, NEW w \in Args, Goto(p, w),
         k' \in Kernel, k'.pxCurrentTCB = k.pxCurrentTCB, yieldReq' \in BOOLEAN,
         MayBe(k', p, w, yieldReq'),
         tcb' \in [Threads -> {"live", "dead", "free"}], left' \in [Threads -> 0..portMAX_DELAY],
         Placed(k', tcb'), Timed(k', left'), Runs(k', p, w.task, yieldReq'),
         Owned(k', Put(kpc, k.pxCurrentTCB, p), Put(arg, k.pxCurrentTCB, w), tcb'),
         k'.xPendedTicks <= MaxPended, k'.uxSchedulerSuspended <= MaxSuspended
  PROVE  Preserved
<1>1. kpc' = Put(kpc, k.pxCurrentTCB, p) /\ arg' = Put(arg, k.pxCurrentTCB, w)
  BY DEF Goto, Put, cur
<1>2. Good(k', Put(kpc, k.pxCurrentTCB, p), Put(arg, k.pxCurrentTCB, w), yieldReq', tcb', left')
  BY Parts, CallStep
<1> QED BY <1>1, <1>2 DEF Preserved

\* A step after which the running task is in its own code still.
LEMMA Stays ==
  ASSUME IInv, At("run"), Stay,
         k' \in Kernel, k'.pxCurrentTCB = k.pxCurrentTCB, yieldReq' \in BOOLEAN,
         tcb' \in [Threads -> {"live", "dead", "free"}], left' \in [Threads -> 0..portMAX_DELAY],
         Placed(k', tcb'), Timed(k', left'), \A t : Runs(k', "run", t, yieldReq'),
         Owned(k', kpc, arg, tcb'),
         k'.xPendedTicks <= MaxPended, k'.uxSchedulerSuspended <= MaxSuspended
  PROVE  Preserved
<1>1. kpc' = kpc /\ arg' = arg
  BY DEF Stay
<1>2. Good(k', kpc, arg, yieldReq', tcb', left')
  BY Parts, AtRun, StayStep
<1> QED BY <1>1, <1>2 DEF Preserved

\* nothing but uxSchedulerSuspended changes
SuspendedMore(s) == [s EXCEPT !.uxSchedulerSuspended = @ + 1]

\* vTaskSuspendAll moves no task.
LEMMA SuspendMore ==
  ASSUME NEW s \in Kernel, NEW m, NEW l, Placed(s, m), Timed(s, l)
  PROVE  LET n == SuspendedMore(s)
         IN  /\ n \in Kernel /\ n.uxSchedulerSuspended = s.uxSchedulerSuspended + 1
             /\ n.xPendedTicks = s.xPendedTicks /\ n.pxCurrentTCB = s.pxCurrentTCB
             /\ n.xYieldPending = s.xYieldPending
             /\ n.xTasksWaitingTermination = s.xTasksWaitingTermination
             /\ Placed(n, m) /\ Timed(n, l) /\ (Highest(s) => Highest(n))
             /\ \A u \in Threads : IsReady(n, u) <=> IsReady(s, u)
<1> DEFINE c == s.uxSchedulerSuspended + 1
           b == s.xPendedTicks
           n == SetCounts(s, c, b)
<1>1. c \in Nat /\ b \in Nat /\ ~ (c = 0)
  BY DEF Kernel
<1>2. SuspendedMore(s) = n
  BY DEF Kernel, SetCounts, SuspendedMore
<1> HIDE DEF c, b
<1>3. /\ n \in Kernel /\ n.uxSchedulerSuspended = c /\ n.xPendedTicks = b
      /\ SamePlaces(n, s) /\ n.uxTopReadyPriority = s.uxTopReadyPriority
      /\ n.xYieldPending = s.xYieldPending /\ n.pxCurrentTCB = s.pxCurrentTCB
      /\ n.xTasksWaitingTermination = s.xTasksWaitingTermination
  BY <1>1, SetCountsFacts
<1> HIDE DEF n
<1>4. /\ Alike(n, s) /\ TimesOK(n) /\ LeftOK(n, l, n.xPendedTicks)
      /\ (Highest(s) => Highest(n))
  BY <1>3, SamePlacesAlike DEF Placed, Timed, b
<1>5. Placed(n, m) /\ Timed(n, l)
  BY <1>1, <1>3, <1>4 DEF Placed, Timed, Alike
<1> QED BY <1>2, <1>3, <1>4, <1>5 DEF Alike, c, b

-----------------------------------------------------------------------------
(***************************************************************************)
(* Calls that move no task.                                                *)
(***************************************************************************)
\* What holds when a kernel call begins.
LEMMA CallFacts ==
  ASSUME IInv, NEW c, Call(c)
  PROVE  /\ At("run") /\ yieldReq = FALSE /\ kpc[k.pxCurrentTCB] = "run"
         /\ k.pxCurrentTCB \in Tasks /\ k.pxCurrentTCB # Idle
         /\ IsReady(k, k.pxCurrentTCB)
         /\ Unlocked => Highest(k)
         /\ ~ Unlocked => k.xYieldPending \/ Highest(k)
BY AtCall, AtRun

\* A call that is going to block suspends the scheduler first.
LEMMA StartBlocking ==
  ASSUME IInv, NEW c, Call(c), Unlocked, NEW w \in Args, w.ticks > 0,
         Goto("add", w), k' = SuspendedMore(k),
         UNCHANGED <<yieldReq, tcb, left>>
  PROVE  Preserved
<1>0. "add" \in Kpcs /\ "add" # "free"
  BY DEF Kpcs
<1>1. k.pxCurrentTCB # Idle /\ yieldReq = FALSE /\ IsReady(k, k.pxCurrentTCB) /\ Highest(k)
  BY CallFacts
<1>2. k.uxSchedulerSuspended = 0
  BY DEF Unlocked
<1>3. /\ k' \in Kernel /\ k'.uxSchedulerSuspended = 1
      /\ k'.xPendedTicks = k.xPendedTicks /\ k'.pxCurrentTCB = k.pxCurrentTCB
      /\ k'.xTasksWaitingTermination = k.xTasksWaitingTermination
      /\ Placed(k', tcb) /\ Timed(k', left) /\ Highest(k')
      /\ IsReady(k', k.pxCurrentTCB)
  <2>1. k \in Kernel /\ Placed(k, tcb) /\ Timed(k, left) /\ k.pxCurrentTCB \in Threads
    BY Parts
  <2> QED BY <1>1, <1>2, <2>1, SuspendMore
<1>4. MayBe(k', "add", w, FALSE)
  BY <1>1, <1>3 DEF MayBe
<1>5. Runs(k', "add", w.task, FALSE)
  BY <1>3 DEF Runs
<1>6. Owned(k', Put(kpc, k.pxCurrentTCB, "add"), Put(arg, k.pxCurrentTCB, w), tcb)
  BY <1>0, <1>3, Parts, OwnedKept
<1>7. k'.xPendedTicks <= MaxPended /\ k'.uxSchedulerSuspended <= MaxSuspended
  BY <1>3, Parts DEF IInv
<1> QED BY <1>0, <1>1, <1>3, <1>4, <1>5, <1>6, <1>7, Parts, Goes

\* A call that goes on to yield.
LEMMA YieldNext ==
  ASSUME IInv, At("run"), k.pxCurrentTCB # Idle, Unlocked, Goto("yield", NoArg),
         UNCHANGED <<k, yieldReq, tcb, left>>
  PROVE  Preserved
<1>0. "yield" \in Kpcs /\ "yield" # "free" /\ NoArg \in Args
  BY ArgFacts DEF Kpcs
<1>1. yieldReq = FALSE /\ k.uxSchedulerSuspended = 0
  BY AtRun DEF Unlocked
<1>2. MayBe(k, "yield", NoArg, FALSE)
  BY <1>1 DEF MayBe
<1>3. Runs(k, "yield", NoArg.task, FALSE)
  BY <1>1 DEF Runs
<1>4. Owned(k, Put(kpc, k.pxCurrentTCB, "yield"), Put(arg, k.pxCurrentTCB, NoArg), tcb)
  BY <1>0, Parts, OwnedKept
<1>5. k' = k /\ tcb' = tcb /\ left' = left /\ yieldReq' = FALSE
  BY <1>1
<1>6. k.xPendedTicks <= MaxPended /\ k.uxSchedulerSuspended <= MaxSuspended
  BY DEF IInv
<1> QED BY <1>0, <1>2, <1>3, <1>4, <1>5, <1>6, Parts, Goes

\* The arguments of vTaskDelay.
LEMMA TicksArg ==
  ASSUME NEW n \in 0..portMAX_DELAY, n > 0
  PROVE  LET w == [NoArg EXCEPT !.ticks = n] IN w \in Args /\ w.ticks > 0
<1>1. [NoArg EXCEPT !.ticks = n] = [task |-> NoTask, event |-> NoEvent, ticks |-> n]
  BY DEF NoArg
<1> QED BY <1>1 DEF Args

\* vTaskDelay keeps the invariant.
LEMMA DelayStep ==
  ASSUME IInv, NEW n \in Delays, vTaskDelay(n)
  PROVE  Preserved
<1>0. n \in 0..portMAX_DELAY
  BY WorkloadAssumption DEF Delays, IInv
<1>1. CASE n = 0
  <2>1. At("run") /\ k.pxCurrentTCB # Idle
    BY CallFacts DEF vTaskDelay
  <2> QED BY <1>1, <2>1, YieldNext DEF vTaskDelay
<1>2. CASE n # 0
  <2> DEFINE w == [NoArg EXCEPT !.ticks = n]
  <2>1. w \in Args /\ w.ticks > 0
    BY <1>0, <1>2, TicksArg
  <2>2. Goto("add", w) /\ k' = SuspendedMore(k)
        /\ UNCHANGED <<yieldReq, tcb, left>> /\ Call("delay") /\ Unlocked
    BY <1>2 DEF vTaskDelay, SuspendedMore
  <2> HIDE DEF w
  <2> QED BY <2>1, <2>2, StartBlocking
<1> QED BY <1>1, <1>2

\* A blocking receive that finds its queue empty keeps the invariant.
LEMMA WaitStep ==
  ASSUME IInv, NEW n \in Delays, NEW e \in Events, Wait(e, n)
  PROVE  Preserved
<1>0. n \in 0..portMAX_DELAY /\ n > 0
  BY WorkloadAssumption DEF Delays, IInv, Wait
<1> DEFINE w == [NoArg EXCEPT !.ticks = n, !.event = e]
<1>1. w \in Args /\ w.ticks > 0
  BY <1>0, ArgFacts
<1>2. Goto("add", w) /\ k' = SuspendedMore(k)
      /\ UNCHANGED <<yieldReq, tcb, left>> /\ Call("wait") /\ Unlocked
  BY DEF Wait, SuspendedMore
<1> HIDE DEF w
<1> QED BY <1>1, <1>2, StartBlocking

\* taskYIELD keeps the invariant.
LEMMA YieldStep ==
  ASSUME IInv, taskYIELD
  PROVE  Preserved
<1>1. At("run") /\ yieldReq = FALSE /\ kpc[k.pxCurrentTCB] = "run" /\ IsReady(k, k.pxCurrentTCB)
  BY CallFacts DEF taskYIELD
<1>2. Stay /\ k' = k /\ yieldReq' = TRUE /\ tcb' = tcb /\ left' = left
  BY DEF taskYIELD, Stay
<1>3. \A t : Runs(k, "run", t, TRUE)
  BY <1>1 DEF Runs
<1>4. k.xPendedTicks <= MaxPended /\ k.uxSchedulerSuspended <= MaxSuspended
  BY DEF IInv
<1> QED BY <1>1, <1>2, <1>3, <1>4, Parts, Stays

\* The yield of the idle task keeps the invariant.
LEMMA IdleYieldStep ==
  ASSUME IInv, IdleYield
  PROVE  Preserved
<1>1. At("run") /\ yieldReq = FALSE /\ kpc[k.pxCurrentTCB] = "run" /\ IsReady(k, k.pxCurrentTCB)
  BY AtRun DEF IdleYield
<1>2. Stay /\ k' = k /\ yieldReq' = TRUE /\ tcb' = tcb /\ left' = left
  BY DEF IdleYield, Stay
<1>3. \A t : Runs(k, "run", t, TRUE)
  BY <1>1 DEF Runs
<1>4. k.xPendedTicks <= MaxPended /\ k.uxSchedulerSuspended <= MaxSuspended
  BY DEF IInv
<1> QED BY <1>1, <1>2, <1>3, <1>4, Parts, Stays

\* vTaskSuspendAll keeps the invariant.
LEMMA SuspendAllStep ==
  ASSUME IInv, vTaskSuspendAll
  PROVE  Preserved
<1>1. At("run") /\ yieldReq = FALSE /\ IsReady(k, k.pxCurrentTCB)
      /\ (k.xYieldPending \/ Highest(k))
  BY CallFacts DEF vTaskSuspendAll
<1>2. Stay /\ k' = SuspendedMore(k)
      /\ yieldReq' = FALSE /\ tcb' = tcb /\ left' = left /\ k.uxSchedulerSuspended < MaxSuspended
  BY <1>1 DEF vTaskSuspendAll, SuspendedMore
<1>3. /\ k' \in Kernel /\ k'.uxSchedulerSuspended = k.uxSchedulerSuspended + 1
      /\ k'.xPendedTicks = k.xPendedTicks /\ k'.pxCurrentTCB = k.pxCurrentTCB
      /\ k'.xYieldPending = k.xYieldPending
      /\ k'.xTasksWaitingTermination = k.xTasksWaitingTermination
      /\ Placed(k', tcb) /\ Timed(k', left) /\ (Highest(k) => Highest(k'))
      /\ IsReady(k', k.pxCurrentTCB)
  <2>1. k \in Kernel /\ Placed(k, tcb) /\ Timed(k, left) /\ k.pxCurrentTCB \in Threads
    BY Parts
  <2> QED BY <1>1, <1>2, <2>1, SuspendMore
<1>4. k.uxSchedulerSuspended \in Nat /\ MaxSuspended \in Nat
  BY Parts
<1>5. k'.uxSchedulerSuspended > 0 /\ k'.uxSchedulerSuspended # 0
      /\ k'.uxSchedulerSuspended <= MaxSuspended
  BY <1>2, <1>3, <1>4
<1>6. \A t : Runs(k', "run", t, FALSE)
  BY <1>1, <1>3, <1>5 DEF Runs
<1>7. Owned(k', kpc, arg, tcb)
  BY <1>3, Parts, OwnedKept
<1>8. k'.xPendedTicks <= MaxPended
  BY <1>3 DEF IInv
<1> QED BY <1>1, <1>2, <1>3, <1>5, <1>6, <1>7, <1>8, Parts, Stays

\* The end of xTaskCreate keeps the invariant: the new task is the only one
\* that may be above the running task, and then a switch is asked for.
LEMMA CreatedStep ==
  ASSUME IInv, CreatedYield
  PROVE  Preserved
<1> DEFINE c == k.pxCurrentTCB
           t == arg[c].task
<1>0. "run" \in Kpcs /\ "run" # "free" /\ NoArg \in Args
  BY ArgFacts DEF Kpcs
<1>1. yieldReq = FALSE /\ kpc[c] = "created" /\ c \in Threads
  BY AtFacts DEF CreatedYield
<1>2. k' = k /\ tcb' = tcb /\ left' = left /\ Goto("run", NoArg)
  BY DEF CreatedYield, Return
<1>3. k.uxSchedulerSuspended = 0 /\ t \in Tasks
  BY <1>1, Parts DEF Called
<1>4. Runs(k, "created", t, FALSE)
  BY <1>1, Parts DEF Running
<1>5. IsReady(k, c) /\ \A u \in Threads : IsReady(k, u) => k.uxPriority[u] <= k.uxPriority[c] \/ u = t
  BY <1>4 DEF Runs
<1>6. yieldReq' \in CreateYields(t)
  BY DEF CreatedYield, cur
<1>7. yieldReq' \in BOOLEAN
  <2>1. CASE tcb[t] = "free"
    BY <1>6, <2>1 DEF CreateYields
  <2>2. CASE tcb[t] # "free"
    <3>1. yieldReq' = (k.uxPriority[cur] < k.uxPriority[t])
      BY <1>6, <2>2 DEF CreateYields
    <3> QED BY <3>1
  <2> QED BY <2>1, <2>2
<1>8. yieldReq' = FALSE => Highest(k)
  <2> SUFFICES ASSUME yieldReq' = FALSE, NEW u \in Threads, IsReady(k, u)
               PROVE  k.uxPriority[u] <= k.uxPriority[c]
    BY DEF Highest
  <2>1. CASE u # t
    BY <1>5, <2>1
  <2>2. CASE u = t
    <3>1. Linked(k, t) /\ t \in Threads
      BY <2>2 DEF Linked
    <3>2. tcb[t] = "live"
      BY <3>1, Parts DEF Placed
    <3>3. yieldReq' = (k.uxPriority[c] < k.uxPriority[t])
      BY <1>6, <3>2 DEF CreateYields, cur
    <3>4. ~ (k.uxPriority[c] < k.uxPriority[t])
      BY <3>3, Zenon
    <3>5. k.uxPriority[c] \in Nat /\ k.uxPriority[t] \in Nat
      BY <1>1, <3>1, Parts, ItemsTyped
    <3> QED BY <2>2, <3>4, <3>5
  <2> QED BY <2>1, <2>2
<1>9. MayBe(k, "run", NoArg, yieldReq')
  BY DEF MayBe
<1>10. Runs(k, "run", NoArg.task, yieldReq')
  <2>1. ~ (k.uxSchedulerSuspended > 0)
    BY <1>3
  <2> QED BY <1>3, <1>5, <1>7, <1>8, <2>1 DEF Runs
<1>11. Owned(k, Put(kpc, c, "run"), Put(arg, c, NoArg), tcb)
  BY <1>0, Parts, OwnedKept
<1>12. k.xPendedTicks <= MaxPended /\ k.uxSchedulerSuspended <= MaxSuspended
  BY DEF IInv
<1> HIDE DEF c, t
<1> QED BY <1>0, <1>2, <1>7, <1>9, <1>10, <1>11, <1>12, Parts, Goes DEF c

\* prvUnlockQueue keeps the invariant.
LEMMA UnlockStep ==
  ASSUME IInv, prvUnlockQueue
  PROVE  Preserved
<1> DEFINE c == k.pxCurrentTCB
<1>0. "resume" \in Kpcs /\ "resume" # "free" /\ NoArg \in Args
  BY ArgFacts DEF Kpcs
<1>1. yieldReq = FALSE /\ kpc[c] = "unlock" /\ c \in Threads
  BY AtFacts DEF prvUnlockQueue
<1>2. k' = k /\ tcb' = tcb /\ left' = left /\ yieldReq' = FALSE /\ Goto("resume", NoArg)
  BY <1>1 DEF prvUnlockQueue
<1>3. k.uxSchedulerSuspended = 1 /\ c # Idle
  BY <1>1, Parts DEF Called
<1>4. Runs(k, "unlock", arg[c].task, FALSE)
  BY <1>1, Parts DEF Running
<1>5. MayBe(k, "resume", NoArg, FALSE)
  BY <1>3 DEF MayBe
<1>6. Runs(k, "resume", NoArg.task, FALSE)
  BY <1>4, <1>3 DEF Runs
<1>7. Owned(k, Put(kpc, c, "resume"), Put(arg, c, NoArg), tcb)
  BY <1>0, Parts, OwnedKept
<1>8. k.xPendedTicks <= MaxPended /\ k.uxSchedulerSuspended <= MaxSuspended
  BY DEF IInv
<1> HIDE DEF c
<1> QED BY <1>0, <1>2, <1>5, <1>6, <1>7, <1>8, Parts, Goes DEF c

\* portYIELD_WITHIN_API keeps the invariant.
LEMMA YieldWithinStep ==
  ASSUME IInv, portYIELD_WITHIN_API
  PROVE  Preserved
<1> DEFINE c == k.pxCurrentTCB
<1>0. "run" \in Kpcs /\ "run" # "free" /\ NoArg \in Args
  BY ArgFacts DEF Kpcs
<1>1. yieldReq = FALSE /\ kpc[c] = "yield" /\ c \in Threads
  BY AtFacts DEF portYIELD_WITHIN_API
<1>2. k' = k /\ tcb' = tcb /\ left' = left /\ yieldReq' = TRUE /\ Goto("run", NoArg)
  BY DEF portYIELD_WITHIN_API, Return
<1>3. k.uxSchedulerSuspended = 0
  BY <1>1, Parts DEF Called
<1>4. MayBe(k, "run", NoArg, TRUE)
  BY DEF MayBe
<1>5. Runs(k, "run", NoArg.task, TRUE)
  BY <1>3 DEF Runs
<1>6. Owned(k, Put(kpc, c, "run"), Put(arg, c, NoArg), tcb)
  BY <1>0, Parts, OwnedKept
<1>7. k.xPendedTicks <= MaxPended /\ k.uxSchedulerSuspended <= MaxSuspended
  BY DEF IInv
<1> HIDE DEF c
<1> QED BY <1>0, <1>2, <1>4, <1>5, <1>6, <1>7, Parts, Goes DEF c

-----------------------------------------------------------------------------
(***************************************************************************)
(* Blocking calls.                                                         *)
(***************************************************************************)
\* The running task blocks, with its event list filled in if it waits for
\* one.
LEMMA BlockStep ==
  ASSUME IInv, At("add"), NEW forever \in BOOLEAN, NEW n, n = arg[cur].ticks,
         NEW E, \A e, f \in E : e = f,
         NEW a \in Kernel, SameReady(a, k), SameDelayed(a, k), SameRest(a, k),
         a.xSuspendedTaskList = k.xSuspendedTaskList, a.xYieldPending = k.xYieldPending,
         Pnd(a) = Pnd(k),
         \A e \in Events : Wts(a, e) = IF e \in E THEN Wts(k, e) \cup {cur} ELSE Wts(k, e),
         k' = prvAddCurrentTaskToDelayedList(a, n, forever),
         left' = Put(left, cur, IF n = portMAX_DELAY /\ forever THEN 0 ELSE NotLate(n)),
         NEW p \in {"unlock", "resume"}, NEW v \in Args, Goto(p, v),
         UNCHANGED <<yieldReq, tcb>>
  PROVE  Preserved
<1> DEFINE c == k.pxCurrentTCB
           lag == k.xPendedTicks
           x == IF n = portMAX_DELAY /\ forever THEN 0 ELSE NotLate(n)
<1>1. yieldReq = FALSE /\ kpc[c] = "add" /\ c \in Threads
  BY AtFacts
<1>2. c # Idle /\ k.uxSchedulerSuspended = 1 /\ arg[c].ticks > 0
  BY <1>1, Parts DEF Called
<1>3. c \in Tasks
  BY <1>1, <1>2 DEF Threads
<1>4. n \in 1..portMAX_DELAY
  <2>1. arg[c].ticks \in 0..portMAX_DELAY
    BY <1>1, Parts DEF Args
  <2> QED BY <1>2, <2>1 DEF cur
<1>5. Runs(k, "add", arg[c].task, FALSE)
  BY <1>1, Parts DEF Running
<1>6. IsReady(k, c) /\ (k.xYieldPending \/ Highest(k))
  BY <1>5, <1>2 DEF Runs
<1>7. lag \in Nat /\ x = IF n = portMAX_DELAY /\ forever THEN 0 ELSE LeftOf(n, lag)
  BY Parts DEF NotLate, LeftOf
<1>8. x \in 0..portMAX_DELAY
  BY <1>4, <1>7, BoundsAssumption DEF LeftOf, portMAX_DELAY
<1>9. left' = Put(left, c, x)
  BY DEF cur
<1>10. \A u \in Threads : left'[u] = IF u # c THEN left[u]
                           ELSE IF n = portMAX_DELAY /\ forever THEN 0 ELSE LeftOf(n, lag)
  <2> HIDE DEF x
  <2> QED BY <1>1, <1>7, <1>9, Parts DEF Put
<1>11. left' \in [Threads -> 0..portMAX_DELAY]
  <2> HIDE DEF x
  <2> QED BY <1>1, <1>8, <1>9, Parts DEF Put
<1>12. ListsOK(k) /\ TimesOK(k) /\ LeftOK(k, left, lag) /\ k \in Kernel
  BY Parts
<1>13. \A e \in Events : Wts(a, e) = IF e \in E THEN Wts(k, e) \cup {c} ELSE Wts(k, e)
  BY DEF cur
<1>14. /\ k' \in Kernel /\ ListsOK(k') /\ TimesOK(k') /\ LeftOK(k', left', lag)
       /\ ~ IsReady(k', c) /\ Linked(k', c)
       /\ \A u \in Threads : u # c => /\ IsReady(k', u) <=> IsReady(k, u)
                                      /\ Linked(k', u) <=> Linked(k, u)
       /\ Pnd(k') = Pnd(k) /\ SameRest(k', k) /\ k'.xYieldPending = k.xYieldPending
       /\ Highest(k) => Highest(k')
  <2> HIDE DEF x, lag
  <2> DEFINE h == left'
             l == left
             r == prvAddCurrentTaskToDelayedList(a, n, forever)
  <2>1. Blocked(h, l, c, n, forever, lag) /\ WaitsToo(a, k, c, E)
    BY <1>10, <1>13 DEF Blocked, WaitsToo
  <2>2. lag \in Nat
    BY <1>7
  <2>3. LeftOK(k, l, lag)
    BY <1>12
  <2>6. c = k.pxCurrentTCB
    OBVIOUS
  <2> HIDE DEF h, l, c
  <2>4. /\ r \in Kernel /\ ListsOK(r) /\ TimesOK(r) /\ LeftOK(r, h, lag)
        /\ ~ IsReady(r, c) /\ Linked(r, c)
        /\ \A u \in Threads : u # c => /\ IsReady(r, u) <=> IsReady(k, u)
                                       /\ Linked(r, u) <=> Linked(k, u)
        /\ Pnd(r) = Pnd(k) /\ SameRest(r, k) /\ r.xYieldPending = k.xYieldPending
        /\ Highest(k) => Highest(r)
    <3>1. Blocks(k, l, h, lag, c, n, forever, E, a)
      BY <1>3, <1>4, <1>6, <1>12, <2>1, <2>2, <2>3, <2>6 DEF Blocks
    <3> QED BY <3>1, BlockFacts
  <2>5. k' = r
    OBVIOUS
  <2> HIDE DEF r
  <2> QED BY <2>4, <2>5 DEF h
<1>15. Linked(k, c)
  BY <1>6 DEF Linked
<1>16. Placed(k', tcb)
  BY <1>14, <1>15, Parts DEF Placed
<1>17. k'.uxSchedulerSuspended = 1 /\ k'.xPendedTicks = lag /\ k'.pxCurrentTCB = c
       /\ k'.xTasksWaitingTermination = k.xTasksWaitingTermination
  BY <1>2, <1>14 DEF SameRest
<1>18. Timed(k', left')
  BY <1>14, <1>17 DEF Timed
<1>19. MayBe(k', p, v, FALSE) /\ Runs(k', p, v.task, FALSE)
  BY <1>2, <1>6, <1>14, <1>17 DEF MayBe, Runs
<1>20. p \in Kpcs /\ Owned(k', Put(kpc, c, p), Put(arg, c, v), tcb)
  BY <1>14, <1>17, Parts, OwnedKept DEF Kpcs
<1>21. k'.xPendedTicks <= MaxPended /\ k'.uxSchedulerSuspended <= MaxSuspended
  BY <1>2, <1>17 DEF IInv
<1>22. yieldReq' = FALSE /\ tcb' = tcb
  BY <1>1
<1> HIDE DEF c, x, lag
<1> QED BY <1>11, <1>14, <1>16, <1>17, <1>18, <1>19, <1>20, <1>21, <1>22, Parts, Goes DEF c

\* The second half of vTaskDelay keeps the invariant.
LEMMA DelayedStep ==
  ASSUME IInv, AddToDelayedList
  PROVE  Preserved
<1>1. At("add") /\ Goto("resume", NoArg) /\ UNCHANGED <<yieldReq, tcb>>
  BY DEF AddToDelayedList
<1>2. NoArg \in Args /\ k \in Kernel
  BY ArgFacts, Parts
<1>3. k' = prvAddCurrentTaskToDelayedList(k, arg[cur].ticks, FALSE)
  BY DEF AddToDelayedList
<1>4. left' = Put(left, cur, IF arg[cur].ticks = portMAX_DELAY /\ FALSE THEN 0
                             ELSE NotLate(arg[cur].ticks))
  BY DEF AddToDelayedList, Put
<1>5. SameReady(k, k) /\ SameDelayed(k, k) /\ SameRest(k, k)
  BY DEF SameReady, SameDelayed, SameRest
<1> DEFINE E == {}
           forever == FALSE
           n == arg[cur].ticks
<1>6. \A e \in Events : Wts(k, e) = IF e \in E THEN Wts(k, e) \cup {cur} ELSE Wts(k, e)
  OBVIOUS
<1>7. (\A e, f \in E : e = f) /\ forever \in BOOLEAN /\ n = arg[cur].ticks
      /\ k' = prvAddCurrentTaskToDelayedList(k, n, forever)
      /\ left' = Put(left, cur, IF n = portMAX_DELAY /\ forever THEN 0 ELSE NotLate(n))
  BY <1>3, <1>4
<1> HIDE DEF E, forever, n
<1> QED BY <1>1, <1>2, <1>5, <1>6, <1>7, BlockStep

\* vTaskPlaceOnEventList keeps the invariant.
LEMMA PlaceStep ==
  ASSUME IInv, PlaceOnEventList
  PROVE  Preserved
<1> DEFINE c == k.pxCurrentTCB
           e == arg[cur].event
           w == k.xTasksWaiting[e]
           a == [k EXCEPT !.xTasksWaiting[e] = Insert(@, c, FirstBehind(k, @, c))]
           forever == TRUE
           n == arg[cur].ticks
           E == {e}
<1>1. At("add") /\ Goto("unlock", arg[cur]) /\ UNCHANGED <<yieldReq, tcb>>
      /\ arg[cur].event # NoEvent
  BY DEF PlaceOnEventList
<1>2. arg[cur] \in Args /\ k \in Kernel /\ c \in Threads
  BY Parts
<1>3. e \in Events
  BY <1>1, <1>2 DEF Args
<1>4. k' = prvAddCurrentTaskToDelayedList(a, n, forever)
  BY DEF PlaceOnEventList, vTaskPlaceOnEventList
<1>5. left' = Put(left, cur, IF n = portMAX_DELAY /\ forever THEN 0 ELSE NotLate(n))
  BY DEF PlaceOnEventList, Put
<1>6. yieldReq = FALSE /\ kpc[c] = "add"
  BY <1>1, AtFacts
<1>7. c # Idle /\ c \in Tasks /\ k.uxSchedulerSuspended = 1
  BY <1>2, <1>6, Parts DEF Called, Threads
<1>8. IsReady(k, c)
  <2>1. Runs(k, "add", arg[c].task, FALSE)
    BY <1>6, Parts DEF Running
  <2> QED BY <2>1 DEF Runs
<1>9. w \in Distinct(Tasks) /\ c \notin ToSet(w)
  <2>1. w \in Distinct(Tasks)
    BY <1>2, <1>3 DEF Kernel
  <2>2. ~ Waits(k, c)
    BY <1>2, <1>8, Parts DEF ListsOK, TaskOK
  <2> QED BY <1>3, <2>1, <2>2 DEF Waits, Wts
<1>10. Len(w) \in Nat
  BY <1>9 DEF Distinct
<1> DEFINE i == FirstBehind(k, w, c)
           q == Insert(w, c, i)
<1>11. q \in Distinct(Tasks) /\ ToSet(q) = ToSet(w) \cup {c}
  <2>1. i \in 0..Len(w)
    BY <1>10, FirstBehindRange
  <2> HIDE DEF i, w
  <2> QED BY <1>7, <1>9, <2>1, InsertWaiter
<1> DEFINE f == [k.xTasksWaiting EXCEPT ![e] = q]
<1>12. a = [k EXCEPT !.xTasksWaiting = f]
  OBVIOUS
<1>13. f \in [Events -> Distinct(Tasks)]
       /\ \A g \in Events : f[g] = IF g = e THEN q ELSE k.xTasksWaiting[g]
  <2> HIDE DEF q, e
  <2> QED BY <1>2, <1>3, <1>11 DEF Kernel
<1> HIDE DEF f
<1>14. /\ a \in Kernel /\ a.xTasksWaiting = f
       /\ SameReady(a, k) /\ SameDelayed(a, k) /\ SameRest(a, k)
       /\ a.xSuspendedTaskList = k.xSuspendedTaskList /\ a.xYieldPending = k.xYieldPending
       /\ Pnd(a) = Pnd(k)
  <2> DEFINE b == [k EXCEPT !.xTasksWaiting = f]
  <2>1. b \in Kernel /\ b.xTasksWaiting = f
    BY <1>2, <1>13 DEF Kernel
  <2>2. /\ SameReady(b, k) /\ SameDelayed(b, k) /\ SameRest(b, k)
        /\ b.xSuspendedTaskList = k.xSuspendedTaskList /\ b.xYieldPending = k.xYieldPending
        /\ Pnd(b) = Pnd(k)
    BY <1>2 DEF Kernel, SameReady, SameDelayed, SameRest, Pnd
  <2> HIDE DEF a
  <2> QED BY <1>12, <2>1, <2>2
<1> HIDE DEF a, i
<1>15. \A g \in Events : Wts(a, g) = IF g \in E THEN Wts(k, g) \cup {cur} ELSE Wts(k, g)
  <2>1. w = k.xTasksWaiting[e] /\ cur = c
    BY DEF cur
  <2> HIDE DEF q, w, e, c
  <2> QED BY <1>11, <1>13, <1>14, <2>1 DEF Wts
<1>16. (\A g, h \in E : g = h) /\ forever \in BOOLEAN /\ n = arg[cur].ticks
  OBVIOUS
<1> HIDE DEF E, forever, n, c, w, e
<1> QED BY <1>1, <1>2, <1>4, <1>5, <1>14, <1>15, <1>16, BlockStep

-----------------------------------------------------------------------------
(***************************************************************************)
(* xTaskResumeAll.                                                         *)
(***************************************************************************)
\* The invariant after the outermost xTaskResumeAll.
LEMMA ResumedFacts ==
  ASSUME IInv, NEW n, Resumed(n, k, left)
  PROVE  /\ n \in Kernel /\ Placed(n, tcb) /\ Timed(n, left)
         /\ n.pxCurrentTCB = k.pxCurrentTCB /\ n.uxSchedulerSuspended = 0
         /\ n.xPendedTicks = 0
         /\ n.xTasksWaitingTermination = k.xTasksWaitingTermination
         /\ n.xPendedTicks <= MaxPended /\ n.uxSchedulerSuspended <= MaxSuspended
<1>1. n \in Kernel /\ n.uxSchedulerSuspended = 0 /\ n.xPendedTicks = 0
      /\ n.pxCurrentTCB = k.pxCurrentTCB
      /\ n.xTasksWaitingTermination = k.xTasksWaitingTermination
  BY DEF Resumed
<1>2. Placed(n, tcb)
  BY Parts DEF Resumed, Placed
<1>3. Timed(n, left)
  BY <1>1 DEF Resumed, Timed
<1>4. MaxPended \in Nat /\ MaxSuspended \in Nat
  BY Parts
<1> QED BY <1>1, <1>2, <1>3, <1>4

\* xTaskResumeAll at the end of a blocking call keeps the invariant.
LEMMA ResumeStep ==
  ASSUME IInv, ResumeAndYield
  PROVE  Preserved
<1> DEFINE c == k.pxCurrentTCB
           r == xTaskResumeAll(k)
           p == IF r.yielded THEN "run" ELSE "yield"
<1>0. p \in Kpcs /\ p # "free" /\ NoArg \in Args
  BY ArgFacts DEF Kpcs
<1>1. yieldReq = FALSE /\ kpc[c] = "resume" /\ c \in Threads
  BY AtFacts DEF ResumeAndYield
<1>2. k.uxSchedulerSuspended = 1 /\ c # Idle
  BY <1>1, Parts DEF Called
<1>3. Resumed(r.s, k, left) /\ r.yielded = r.s.xYieldPending
  BY <1>2, Parts, ResumeLast
<1>4. k' = r.s /\ yieldReq' = r.yielded /\ Goto(p, NoArg) /\ UNCHANGED <<tcb, left>>
  BY DEF ResumeAndYield
<1>5. r.yielded \in BOOLEAN
  BY <1>3 DEF Resumed, Kernel
<1> HIDE DEF r
<1>6. /\ k' \in Kernel /\ Placed(k', tcb) /\ Timed(k', left)
      /\ k'.pxCurrentTCB = c /\ k'.uxSchedulerSuspended = 0
      /\ k'.xTasksWaitingTermination = k.xTasksWaitingTermination
      /\ k'.xPendedTicks <= MaxPended /\ k'.uxSchedulerSuspended <= MaxSuspended
  BY <1>3, <1>4, ResumedFacts
<1>7. Owned(k', Put(kpc, c, p), Put(arg, c, NoArg), tcb)
  <2> HIDE DEF p
  <2> QED BY <1>0, <1>6, Parts, OwnedKept
<1>8. MayBe(k', p, NoArg, r.yielded) /\ Runs(k', p, NoArg.task, r.yielded)
  <2>1. CASE r.yielded
    <3>1. MayBe(k', "run", NoArg, r.yielded) /\ Runs(k', "run", NoArg.task, r.yielded)
      BY <1>6, <2>1 DEF MayBe, Runs
    <3> QED BY <2>1, <3>1
  <2>2. CASE ~ r.yielded
    <3>1. MayBe(k', "yield", NoArg, r.yielded) /\ Runs(k', "yield", NoArg.task, r.yielded)
      BY <1>2, <1>6, <2>2 DEF MayBe, Runs
    <3> QED BY <2>2, <3>1
  <2> QED BY <2>1, <2>2
<1>9. MayBe(k', p, NoArg, yieldReq') /\ Runs(k', p, NoArg.task, yieldReq') /\ yieldReq' \in BOOLEAN
  BY <1>4, <1>5, <1>8
<1> HIDE DEF c, p
<1> QED BY <1>0, <1>4, <1>6, <1>7, <1>9, Parts, Goes DEF c

\* xTaskResumeAll called by a task keeps the invariant.
LEMMA ResumeAllStep ==
  ASSUME IInv, ResumeAll
  PROVE  Preserved
<1> DEFINE c == k.pxCurrentTCB
           r == xTaskResumeAll(k)
<1>1. /\ At("run") /\ yieldReq = FALSE /\ c \in Threads /\ IsReady(k, c)
      /\ k.xYieldPending \/ Highest(k)
  BY CallFacts, Parts DEF ResumeAll
<1>2. k' = r.s /\ yieldReq' = r.yielded /\ Stay /\ UNCHANGED <<tcb, left>>
  BY DEF ResumeAll
<1>3. k.uxSchedulerSuspended \in Nat /\ k.uxSchedulerSuspended > 0
  <2>1. k.uxSchedulerSuspended \in Nat /\ k.uxSchedulerSuspended # 0
    BY Parts DEF ResumeAll, Unlocked
  <2> QED BY <2>1
<1>4. CASE k.uxSchedulerSuspended = 1
  <2>1. Resumed(r.s, k, left) /\ r.yielded = r.s.xYieldPending
    BY <1>4, Parts, ResumeLast
  <2>2. r.yielded \in BOOLEAN
    BY <2>1 DEF Resumed, Kernel
  <2> HIDE DEF r
  <2>3. /\ k' \in Kernel /\ Placed(k', tcb) /\ Timed(k', left)
        /\ k'.pxCurrentTCB = c /\ k'.uxSchedulerSuspended = 0
        /\ k'.xTasksWaitingTermination = k.xTasksWaitingTermination
        /\ k'.xPendedTicks <= MaxPended /\ k'.uxSchedulerSuspended <= MaxSuspended
    BY <2>1, <1>2, ResumedFacts
  <2>4. IsReady(k', c) /\ (r.yielded \/ Highest(k'))
    BY <2>1, <1>1, <1>2 DEF Resumed
  <2>5. \A t : Runs(k', "run", t, r.yielded)
    BY <2>2, <2>3, <2>4 DEF Runs
  <2>6. Owned(k', kpc, arg, tcb)
    BY <2>3, Parts, OwnedKept
  <2>7. yieldReq' \in BOOLEAN /\ \A t : Runs(k', "run", t, yieldReq')
    BY <1>2, <2>2, <2>5
  <2> QED BY <1>1, <1>2, <2>3, <2>6, <2>7, Parts, Stays
<1>5. CASE k.uxSchedulerSuspended > 1
  <2> DEFINE d == k.uxSchedulerSuspended - 1
             b == k.xPendedTicks
             n == SetCounts(k, d, b)
  <2>1. d \in Nat /\ b \in Nat /\ d > 0 /\ d <= MaxSuspended /\ d # 0
    BY <1>3, <1>5, Parts DEF IInv
  <2>2. r.s = n /\ r.yielded = FALSE
    <3>1. [k EXCEPT !.uxSchedulerSuspended = @ - 1] = n
      BY Parts DEF Kernel, SetCounts
    <3>2. [k EXCEPT !.uxSchedulerSuspended = @ - 1].uxSchedulerSuspended > 0
      BY <1>3, <1>5, Parts DEF Kernel
    <3> QED BY <3>1, <3>2 DEF xTaskResumeAll
  <2> HIDE DEF r, d
  <2>3. /\ n \in Kernel /\ n.uxSchedulerSuspended = d /\ n.xPendedTicks = b
        /\ SamePlaces(n, k) /\ n.uxTopReadyPriority = k.uxTopReadyPriority
        /\ n.xYieldPending = k.xYieldPending /\ n.pxCurrentTCB = c
        /\ n.xTasksWaitingTermination = k.xTasksWaitingTermination
    <3> HIDE DEF b
    <3> QED BY <2>1, Parts, SetCountsFacts
  <2> HIDE DEF n
  <2>4. Alike(n, k) /\ TimesOK(n) /\ LeftOK(n, left, n.xPendedTicks) /\ (Highest(k) => Highest(n))
    BY <2>3, Parts, SamePlacesAlike
  <2>5. Placed(n, tcb) /\ Timed(n, left)
    BY <2>1, <2>3, <2>4, Parts DEF Placed, Timed, Alike
  <2>6. k' = n /\ yieldReq' = FALSE
    BY <1>2, <2>2
  <2>7. IsReady(n, c) /\ (n.xYieldPending \/ Highest(n))
    BY <1>1, <2>3, <2>4 DEF Alike
  <2>8. \A t : Runs(n, "run", t, FALSE)
    BY <2>1, <2>3, <2>7 DEF Runs
  <2>9. Owned(n, kpc, arg, tcb)
    BY <2>3, Parts, OwnedKept
  <2>10. n.xPendedTicks <= MaxPended /\ n.uxSchedulerSuspended <= MaxSuspended
    BY <2>1, <2>3 DEF IInv
  <2> QED BY <1>1, <1>2, <2>3, <2>5, <2>6, <2>8, <2>9, <2>10, Parts, Stays
<1> QED BY <1>3, <1>4, <1>5

-----------------------------------------------------------------------------
(***************************************************************************)
(* Signals, vTaskSuspend.                                                  *)
(***************************************************************************)
\* A delay is forgotten.
LEMMA ForgetFacts ==
  ASSUME NEW l \in [Threads -> 0..portMAX_DELAY], NEW t \in Threads
  PROVE  LET h == [l EXCEPT ![t] = 0]
         IN  h \in [Threads -> 0..portMAX_DELAY] /\ Cleared(h, l, t)
<1>1. 0 \in 0..portMAX_DELAY
  BY BoundsAssumption DEF portMAX_DELAY
<1> QED BY <1>1 DEF Cleared

\* What the running task's own code has to keep.
LEMMA StillRuns ==
  ASSUME NEW s \in Kernel, NEW n \in Kernel, NEW y \in BOOLEAN,
         n.uxSchedulerSuspended = s.uxSchedulerSuspended,
         n.pxCurrentTCB = s.pxCurrentTCB, IsReady(n, s.pxCurrentTCB),
         s.xYieldPending => n.xYieldPending,
         s.uxSchedulerSuspended = 0 => Highest(s),
         s.uxSchedulerSuspended > 0 => s.xYieldPending \/ Highest(s),
         y \/ (Highest(s) => Highest(n))
  PROVE  \A t : Runs(n, "run", t, y)
BY DEF Runs

\* What holds in its own code.
LEMMA RunFacts ==
  ASSUME IInv, At("run")
  PROVE  /\ yieldReq = FALSE /\ IsReady(k, k.pxCurrentTCB)
         /\ k.uxSchedulerSuspended = 0 => Highest(k)
         /\ k.uxSchedulerSuspended > 0 => k.xYieldPending \/ Highest(k)
         /\ k.xPendedTicks <= MaxPended /\ k.uxSchedulerSuspended <= MaxSuspended
<1>1. /\ yieldReq = FALSE /\ IsReady(k, k.pxCurrentTCB)
      /\ Unlocked => Highest(k)
      /\ ~ Unlocked => k.xYieldPending \/ Highest(k)
  BY AtRun
<1>2. k.uxSchedulerSuspended \in Nat
  BY Parts
<1>3. k.xPendedTicks <= MaxPended /\ k.uxSchedulerSuspended <= MaxSuspended
  BY DEF IInv
<1> QED BY <1>1, <1>2, <1>3 DEF Unlocked

\* A send that finds a task waiting keeps the invariant.
LEMMA SignalStep ==
  ASSUME IInv, NEW e \in Events, Signal(e)
  PROVE  Preserved
<1> DEFINE c == k.pxCurrentTCB
           r == xTaskRemoveFromEventList(k, e)
           n == r.s
           t == Head(k.xTasksWaiting[e])
           h == [left EXCEPT ![t] = 0]
<1>1. At("run") /\ Unlocked /\ k.xTasksWaiting[e] # <<>>
  BY CallFacts DEF Signal
<1>2. k' = n /\ yieldReq' = r.higher /\ left' = h /\ tcb' = tcb /\ Stay
  BY DEF Signal, Forget
<1>3. k.uxSchedulerSuspended = 0 /\ Pnd(k) = {}
  BY <1>1, Parts DEF Unlocked
<1>4. /\ t \in Tasks /\ Signalled(n, k)
      /\ ListsOK(n) /\ TimesOK(n) /\ LeftOK(n, h, k.xPendedTicks)
      /\ r.higher \in BOOLEAN
      /\ k.xYieldPending => n.xYieldPending
      /\ ~ r.higher => NoneAbove(n, k)
  BY <1>1, <1>3, Parts, SignalFacts
<1>5. h \in [Threads -> 0..portMAX_DELAY]
  BY <1>4, Parts, ForgetFacts DEF Threads
<1> HIDE DEF r, h, t
<1>6. /\ n \in Kernel /\ n.uxPriority = k.uxPriority /\ n.pxCurrentTCB = c
      /\ n.xTasksWaitingTermination = k.xTasksWaitingTermination
      /\ n.xPendedTicks = k.xPendedTicks
      /\ n.uxSchedulerSuspended = k.uxSchedulerSuspended
      /\ \A u \in Threads : Linked(n, u) <=> Linked(k, u)
      /\ Pnd(n) = {}
  BY <1>3, <1>4 DEF Signalled
<1>7. Placed(n, tcb) /\ Timed(n, h)
  BY <1>3, <1>4, <1>6, Parts DEF Placed, Timed
<1>8. IsReady(n, c)
  BY <1>1, <1>4, RunFacts, Parts DEF Signalled
<1>9. ~ r.higher => (Highest(k) => Highest(n))
  BY <1>4, <1>6, StillHighest
<1>10. \A u : Runs(n, "run", u, r.higher)
  BY <1>1, <1>4, <1>6, <1>8, <1>9, Parts, RunFacts, StillRuns
<1>11. Owned(n, kpc, arg, tcb)
  BY <1>6, Parts, OwnedKept
<1>12. n.xPendedTicks <= MaxPended /\ n.uxSchedulerSuspended <= MaxSuspended
  BY <1>1, <1>6, RunFacts
<1> HIDE DEF n
<1> QED BY <1>1, <1>2, <1>4, <1>5, <1>6, <1>7, <1>10, <1>11, <1>12, Parts, Stays

\* The arguments of vTaskSuspend, vTaskDelete and xTaskCreate.
LEMMA TaskArg ==
  ASSUME NEW t \in Tasks
  PROVE  LET w == [NoArg EXCEPT !.task = t] IN w \in Args /\ w.task = t
<1>1. [NoArg EXCEPT !.task = t] = [task |-> t, event |-> NoEvent, ticks |-> 0]
  BY DEF NoArg
<1>2. 0 \in 0..portMAX_DELAY /\ t \in Threads
  BY BoundsAssumption DEF portMAX_DELAY, Threads
<1> QED BY <1>1, <1>2 DEF Args

\* The first critical section of vTaskSuspend keeps the invariant.
LEMMA SuspendStep ==
  ASSUME IInv, NEW t \in Tasks, vTaskSuspend(t)
  PROVE  Preserved
<1> DEFINE c == k.pxCurrentTCB
           n == Unlinked(k, t, {t})
           h == [left EXCEPT ![t] = 0]
           w == [NoArg EXCEPT !.task = t]
<1>1. /\ At("run") /\ yieldReq = FALSE /\ c # Idle /\ IsReady(k, c)
      /\ Unlocked => Highest(k)
      /\ ~ Unlocked => k.xYieldPending \/ Highest(k)
  BY CallFacts DEF vTaskSuspend
<1>2. tcb[t] = "live" /\ (t = c => k.uxSchedulerSuspended = 0)
  BY DEF vTaskSuspend, cur, Unlocked
<1>3. k' = n /\ left' = h /\ Goto("reset", w) /\ yieldReq' = FALSE /\ tcb' = tcb
  BY <1>1 DEF vTaskSuspend, Forget, Unlinked
<1>4. h \in [Threads -> 0..portMAX_DELAY] /\ Cleared(h, left, t)
  BY Parts, ForgetFacts DEF Threads
<1>5. w \in Args /\ w.task = t /\ "reset" \in Kpcs /\ "reset" # "free"
  BY TaskArg DEF Kpcs
<1> HIDE DEF h, w
<1>6. /\ n \in Kernel /\ ListsOK(n) /\ TimesOK(n) /\ LeftOK(n, h, k.xPendedTicks)
      /\ Linked(n, t)
      /\ \A u \in Threads : u # t => /\ IsReady(n, u) <=> IsReady(k, u)
                                     /\ Linked(n, u) <=> Linked(k, u)
      /\ Pnd(n) = Pnd(k) \ {t} /\ SameRest(n, k)
      /\ n.xYieldPending = k.xYieldPending
      /\ Highest(k) => Highest(n)
  <2> DEFINE S == {t}
  <2>1. k \in Kernel /\ ListsOK(k) /\ TimesOK(k) /\ LeftOK(k, left, k.xPendedTicks)
    BY Parts
  <2>2. S = {} \/ S = {t}
    OBVIOUS
  <2>3. n = Unlinked(k, t, S)
    OBVIOUS
  <2>4. S = {t}
    OBVIOUS
  <2> HIDE DEF S, n
  <2> QED BY <1>4, <2>1, <2>2, <2>3, <2>4, UnlinkOutcome
<1> HIDE DEF n
<1>7. n.uxSchedulerSuspended = k.uxSchedulerSuspended /\ n.pxCurrentTCB = c
      /\ n.xPendedTicks = k.xPendedTicks
      /\ n.xTasksWaitingTermination = k.xTasksWaitingTermination
  BY <1>6 DEF SameRest
<1>8. Placed(n, tcb)
  BY <1>2, <1>6, Parts DEF Placed
<1>9. Timed(n, h)
  BY <1>6, <1>7, Parts DEF Timed
<1>10. MayBe(n, "reset", w, FALSE)
  BY <1>1, <1>2, <1>5, <1>7 DEF MayBe
<1>11. Runs(n, "reset", w.task, FALSE)
  <2>0. c \in Threads /\ k.uxSchedulerSuspended \in Nat
    BY Parts
  <2>1. CASE t = c
    BY <1>2, <1>5, <1>7, <2>1 DEF Runs
  <2>2. CASE t # c
    <3>1. IsReady(n, c)
      BY <1>1, <1>6, <2>0, <2>2
    <3>2. k.uxSchedulerSuspended = 0 => Highest(n)
      BY <1>1, <1>6 DEF Unlocked
    <3>3. k.uxSchedulerSuspended > 0 => n.xYieldPending \/ Highest(n)
      BY <1>1, <1>6, <2>0 DEF Unlocked
    <3> QED BY <1>5, <1>7, <3>1, <3>2, <3>3 DEF Runs
  <2> QED BY <2>1, <2>2
<1>12. Owned(n, Put(kpc, c, "reset"), Put(arg, c, w), tcb)
  BY <1>5, <1>6, <1>7, Parts, OwnedKept
<1>13. n.xPendedTicks <= MaxPended /\ n.uxSchedulerSuspended <= MaxSuspended
  BY <1>7 DEF IInv
<1> HIDE DEF c
<1> QED BY <1>3, <1>4, <1>5, <1>6, <1>7, <1>8, <1>9, <1>10, <1>11, <1>12, <1>13, Parts, Goes DEF c

\* The second one does too.
LEMMA SuspendResetStep ==
  ASSUME IInv, SuspendReset
  PROVE  Preserved
<1> DEFINE c == k.pxCurrentTCB
           t == arg[c].task
           n == prvResetNextTaskUnblockTime(k)
           p == IF t = c THEN "yield" ELSE "run"
<1>0. p \in Kpcs /\ p # "free" /\ NoArg \in Args
  BY ArgFacts DEF Kpcs
<1>1. yieldReq = FALSE /\ kpc[c] = "reset" /\ c \in Threads
  BY AtFacts DEF SuspendReset
<1>2. k' = n /\ Goto(p, NoArg) /\ yieldReq' = FALSE /\ tcb' = tcb /\ left' = left
  BY <1>1 DEF SuspendReset, cur
<1>3. c # Idle /\ (t = c => k.uxSchedulerSuspended = 0)
  BY <1>1, Parts DEF Called
<1>4. Runs(k, "reset", t, FALSE)
  BY <1>1, Parts DEF Running
<1>5. /\ Alike(n, k) /\ TimesOK(n) /\ LeftOK(n, left, k.xPendedTicks) /\ SameRest(n, k)
      /\ n.xYieldPending = k.xYieldPending
      /\ Highest(k) => Highest(n)
  BY Parts, ResetOutcome
<1> HIDE DEF n, t
<1>6. /\ n \in Kernel /\ n.uxSchedulerSuspended = k.uxSchedulerSuspended /\ n.pxCurrentTCB = c
      /\ n.xPendedTicks = k.xPendedTicks
      /\ n.xTasksWaitingTermination = k.xTasksWaitingTermination
  BY <1>5 DEF SameRest, Alike
<1>7. Placed(n, tcb) /\ Timed(n, left)
  BY <1>5, <1>6, Parts DEF Placed, Timed, Alike
<1>8. MayBe(n, p, NoArg, FALSE) /\ Runs(n, p, NoArg.task, FALSE)
  <2>1. CASE t = c
    <3>1. MayBe(n, "yield", NoArg, FALSE) /\ Runs(n, "yield", NoArg.task, FALSE)
      BY <1>3, <1>6, <2>1 DEF MayBe, Runs
    <3> QED BY <2>1, <3>1
  <2>2. CASE t # c
    <3>1. /\ IsReady(k, c) /\ (k.uxSchedulerSuspended = 0 => Highest(k))
          /\ k.uxSchedulerSuspended > 0 => k.xYieldPending \/ Highest(k)
      BY <1>4, <2>2 DEF Runs
    <3>2. IsReady(n, c)
      BY <1>1, <1>5, <3>1 DEF Alike
    <3>3. MayBe(n, "run", NoArg, FALSE)
      BY DEF MayBe
    <3>4. \A u : Runs(n, "run", u, FALSE)
      BY <1>5, <1>6, <3>1, <3>2, Parts, StillRuns
    <3> QED BY <2>2, <3>3, <3>4
  <2> QED BY <2>1, <2>2
<1>9. Owned(n, Put(kpc, c, p), Put(arg, c, NoArg), tcb)
  <2> HIDE DEF p
  <2> QED BY <1>0, <1>6, Parts, OwnedKept
<1>10. n.xPendedTicks <= MaxPended /\ n.uxSchedulerSuspended <= MaxSuspended
  BY <1>6 DEF IInv
<1> HIDE DEF c, p
<1> QED BY <1>0, <1>2, <1>6, <1>7, <1>8, <1>9, <1>10, Parts, Goes DEF c

-----------------------------------------------------------------------------
(***************************************************************************)
(* vTaskResume, vTaskPrioritySet.                                          *)
(***************************************************************************)
\* vTaskResume keeps the invariant.
LEMMA ResumeTaskStep ==
  ASSUME IInv, NEW t \in Tasks, vTaskResume(t)
  PROVE  Preserved
<1> DEFINE c == k.pxCurrentTCB
           n == prvAddTaskToReadyList(RemoveState(k, t), t)
<1>1. At("run") /\ c \in Threads /\ t \in Threads
  BY CallFacts, Parts DEF vTaskResume, Threads
<1>2. k' = n /\ yieldReq' = ResumeYields(t) /\ Stay /\ tcb' = tcb /\ left' = left
  BY DEF vTaskResume
<1>3. t \in k.xSuspendedTaskList /\ t \notin Pnd(k) /\ ~ Waits(k, t)
  BY DEF vTaskResume, prvTaskIsTaskSuspended, Pnd, Waits, Wts
<1>4. t \notin DOwn(k) /\ t \notin OOwn(k) /\ Linked(k, t)
  BY <1>1, <1>3, Parts DEF ListsOK, TaskOK, Linked, Asleep
<1>5. left[t] = 0
  <2>1. left[t] \in Nat /\ ~ (left[t] > 0)
    BY <1>1, <1>4, Parts DEF LeftOK
  <2> QED BY <2>1
<1>6. Readies(n, k, t)
  BY <1>3, Parts, MakeReady
<1> HIDE DEF n
<1>7. /\ n \in Kernel /\ ListsOK(n) /\ TimesOK(n) /\ LeftOK(n, left, k.xPendedTicks)
      /\ \A u \in Threads : /\ IsReady(n, u) <=> IsReady(k, u) \/ u = t
                            /\ Linked(n, u) <=> Linked(k, u) \/ u = t
      /\ Pnd(n) = Pnd(k) \ {t}
      /\ n.uxPriority = k.uxPriority /\ n.pxCurrentTCB = c
  <2>1. Cleared(left, left, t)
    BY <1>5 DEF Cleared
  <2> QED BY <1>6, <2>1, Parts, ReadiesFacts
<1>8. /\ n.xPendedTicks = k.xPendedTicks
      /\ n.uxSchedulerSuspended = k.uxSchedulerSuspended
      /\ n.xTasksWaitingTermination = k.xTasksWaitingTermination
      /\ n.xYieldPending = k.xYieldPending
      /\ Readied(n, k, {t})
  BY <1>6 DEF Readies
<1>9. Placed(n, tcb) /\ Timed(n, left)
  BY <1>4, <1>7, <1>8, Parts DEF Placed, Timed
<1>10. k.uxPriority[t] \in Nat /\ k.uxPriority[c] \in Nat
  BY <1>1, Parts, ItemsTyped
<1>11. ResumeYields(t) \in BOOLEAN
  BY DEF ResumeYields
<1>12. ~ ResumeYields(t) => (Highest(k) => Highest(n))
  <2> SUFFICES ASSUME ~ ResumeYields(t), Highest(k) PROVE Highest(n)
    OBVIOUS
  <2>1. ~ (k.uxPriority[t] >= k.uxPriority[c])
    BY Zenon DEF ResumeYields, cur
  <2>2. ~ (k.uxPriority[t] > k.uxPriority[c])
    BY <1>10, <2>1
  <2> DEFINE X == {t}
  <2>3. X \in SUBSET Threads /\ Readied(n, k, X)
        /\ \A u \in X : ~ (k.uxPriority[u] > k.uxPriority[c])
    BY <1>1, <1>8, <2>2
  <2> HIDE DEF X
  <2> QED BY <2>3, Parts, ReadiedHighest
<1>13. \A u : Runs(n, "run", u, ResumeYields(t))
  <2> DEFINE y == ResumeYields(t)
  <2>1. y \in BOOLEAN /\ (y \/ (Highest(k) => Highest(n))) /\ IsReady(n, c)
    BY <1>1, <1>7, <1>11, <1>12, RunFacts
  <2> HIDE DEF y
  <2>2. \A u : Runs(n, "run", u, y)
    BY <1>1, <1>7, <1>8, <2>1, Parts, RunFacts, StillRuns
  <2> QED BY <2>2 DEF y
<1>14. Owned(n, kpc, arg, tcb)
  BY <1>7, <1>8, Parts, OwnedKept
<1>15. n.xPendedTicks <= MaxPended /\ n.uxSchedulerSuspended <= MaxSuspended
  BY <1>8 DEF IInv
<1>16. yieldReq' \in BOOLEAN /\ \A u : Runs(n, "run", u, yieldReq')
  BY <1>2, <1>11, <1>13
<1> QED BY <1>1, <1>2, <1>7, <1>9, <1>14, <1>15, <1>16, Parts, Stays

\* vTaskPrioritySet keeps the invariant.
LEMMA PriorityStep ==
  ASSUME IInv, NEW t \in Tasks, NEW p \in Workloads[load].priorities, vTaskPrioritySet(t, p)
  PROVE  Preserved
<1> DEFINE c == k.pxCurrentTCB
           n == Relist(SetPriority(k, t, p), t, k.uxPriority[t])
           y == PriorityYields(t, p)
<1>0. p \in Priorities
  BY WorkloadAssumption DEF IInv
<1>1. At("run") /\ c \in Threads /\ t \in Threads
  BY CallFacts, Parts DEF vTaskPrioritySet, Threads
<1>2. k' = n /\ yieldReq' = y /\ Stay /\ tcb' = tcb /\ left' = left
  BY DEF vTaskPrioritySet, SetPriority
<1>3. /\ Retained(n, k, t, p) /\ ListsOK(n)
      /\ \A u \in Threads : /\ IsReady(n, u) <=> IsReady(k, u)
                            /\ Linked(n, u) <=> Linked(k, u)
      /\ Pnd(n) = Pnd(k) /\ TimesOK(n) /\ LeftOK(n, left, k.xPendedTicks)
  BY <1>0, Parts, RelistOutcome
<1> HIDE DEF n
<1>4. /\ n \in Kernel /\ n.pxCurrentTCB = c
      /\ n.xPendedTicks = k.xPendedTicks
      /\ n.uxSchedulerSuspended = k.uxSchedulerSuspended
      /\ n.xTasksWaitingTermination = k.xTasksWaitingTermination
      /\ n.xYieldPending = k.xYieldPending
  BY <1>3 DEF Retained
<1>5. Placed(n, tcb) /\ Timed(n, left)
  BY <1>3, <1>4, Parts DEF Placed, Timed
<1>6. y \in BOOLEAN
  <2>1. CASE t = cur
    BY <2>1 DEF PriorityYields
  <2>2. CASE t # cur
    BY <2>2 DEF PriorityYields
  <2> QED BY <2>1, <2>2
<1>7. y \/ (Highest(k) => Highest(n))
  <2> SUFFICES ASSUME ~ y, Highest(k) PROVE Highest(n)
    BY <1>6
  <2>1. CASE t = c
    <3>1. ~ (p < k.uxPriority[t])
      BY <2>1, Zenon DEF PriorityYields, cur
    <3> QED BY <1>0, <1>1, <1>3, <2>1, <3>1, Parts, RunFacts, RelistHighest
  <2>2. CASE t # c
    <3>1. ~ (p > k.uxPriority[t] /\ p >= k.uxPriority[c])
      BY <2>2, Zenon DEF PriorityYields, cur
    <3> QED BY <1>0, <1>1, <1>3, <2>2, <3>1, Parts, RunFacts, RelistHighest
  <2> QED BY <2>1, <2>2
<1> HIDE DEF y
<1>8. IsReady(n, c)
  BY <1>1, <1>3, RunFacts
<1>9. \A u : Runs(n, "run", u, y)
  BY <1>1, <1>4, <1>6, <1>7, <1>8, Parts, RunFacts, StillRuns
<1>10. Owned(n, kpc, arg, tcb)
  BY <1>4, Parts, OwnedKept
<1>11. n.xPendedTicks <= MaxPended /\ n.uxSchedulerSuspended <= MaxSuspended
  BY <1>4 DEF IInv
<1> QED BY <1>1, <1>2, <1>4, <1>5, <1>6, <1>9, <1>10, <1>11, Parts, Stays

-----------------------------------------------------------------------------
(***************************************************************************)
(* vTaskDelete.                                                            *)
(***************************************************************************)
\* Who is about to free whom, when the running task goes on to p.
LEMMA FreesAfter ==
  ASSUME NEW c \in Threads, NEW pc \in [Threads -> Kpcs], NEW a \in [Threads -> Args],
         NEW p, NEW w, NEW u \in Threads, NEW v \in Threads
  PROVE  Frees(Put(pc, c, p), Put(a, c, w), u, v) <=>
            IF u = c THEN p = "free" /\ w.task = v /\ v # c ELSE Frees(pc, a, u, v)
BY DEF Frees, Put

\* A deleted task has one owner that frees its memory.
LEMMA OwnedDeleted ==
  ASSUME NEW s \in Kernel, NEW pc \in [Threads -> Kpcs], NEW a \in [Threads -> Args],
         NEW m \in [Threads -> {"live", "dead", "free"}], Owned(s, pc, a, m),
         NEW t \in Threads, m[t] = "live", NEW w \in Args, w.task = t,
         NEW n \in Kernel, n.pxCurrentTCB = s.pxCurrentTCB,
         ToSet(n.xTasksWaitingTermination) =
           IF t = s.pxCurrentTCB THEN ToSet(s.xTasksWaitingTermination) \cup {t}
           ELSE ToSet(s.xTasksWaitingTermination)
  PROVE  /\ Owned(n, Put(pc, s.pxCurrentTCB, "free"), Put(a, s.pxCurrentTCB, w), Put(m, t, "dead"))
         /\ t \notin ToSet(s.xTasksWaitingTermination)
<1> DEFINE c == s.pxCurrentTCB
           pc2 == Put(pc, c, "free")
           a2 == Put(a, c, w)
           m2 == Put(m, t, "dead")
<1>1. m2[t] = "dead" /\ \A u \in Threads : u # t => m2[u] = m[u]
  BY DEF Put
<1>2. \A u, v \in Threads : Frees(pc2, a2, u, v) <=>
               IF u = c THEN t = v /\ v # c ELSE Frees(pc, a, u, v)
  <2> DEFINE p == "free"
  <2>1. c \in Threads /\ p = "free"
    BY DEF Kernel
  <2> HIDE DEF c, p
  <2>2. \A u, v \in Threads : Frees(Put(pc, c, p), Put(a, c, w), u, v) <=>
               IF u = c THEN p = "free" /\ w.task = v /\ v # c ELSE Frees(pc, a, u, v)
    BY <2>1, FreesAfter
  <2> QED BY <2>1, <2>2
<1>3. t \notin ToSet(s.xTasksWaitingTermination) /\ c \in Threads /\ m[c] # "free"
  BY DEF Owned, Kernel
<1>4. \A u \in Threads : ~ Frees(pc, a, u, t)
  BY DEF Owned
<1>5. ToSet(s.xTasksWaitingTermination) \subseteq Threads
      /\ ToSet(n.xTasksWaitingTermination) \subseteq Threads
  BY ElementsOf DEF Kernel, Distinct, Threads
<1>6. \A v \in ToSet(n.xTasksWaitingTermination) : m2[v] = "dead"
  <2> HIDE DEF m2
  <2> QED BY <1>1, <1>3, <1>5 DEF Owned
<1> HIDE DEF m2, pc2, a2
<1>7. m2[c] # "free"
  BY <1>1, <1>3
<1>8. ASSUME NEW u \in Threads, NEW v \in Threads, Frees(pc2, a2, u, v)
      PROVE  /\ m2[v] = "dead" /\ v \notin ToSet(n.xTasksWaitingTermination)
             /\ \A x \in Threads : Frees(pc2, a2, x, v) => x = u
  <2>1. CASE u = c
    BY <1>1, <1>2, <1>3, <1>4, <1>8, <2>1
  <2>2. CASE u # c
    <3>1. Frees(pc, a, u, v) /\ v # t
      BY <1>2, <1>4, <1>8, <2>2
    <3>2. m[v] = "dead" /\ v \notin ToSet(s.xTasksWaitingTermination)
          /\ \A x \in Threads : Frees(pc, a, x, v) => x = u
      BY <3>1 DEF Owned
    <3> QED BY <1>1, <1>2, <3>1, <3>2
  <2> QED BY <2>1, <2>2
<1>9. Owned(n, pc2, a2, m2)
  BY <1>6, <1>7, <1>8 DEF Owned
<1> QED BY <1>3, <1>9 DEF m2, pc2, a2

\* The deleted task is in no list of state items.
LEMMA LiveLeft ==
  ASSUME NEW m \in [Threads -> {"live", "dead", "free"}], NEW t \in Threads, NEW n, NEW s,
         ListsOK(n), \A u \in Threads : u # t => (Linked(n, u) <=> Linked(s, u)),
         ~ Linked(n, t), Placed(s, m)
  PROVE  /\ Put(m, t, "dead") \in [Threads -> {"live", "dead", "free"}]
         /\ Placed(n, Put(m, t, "dead"))
<1> DEFINE m2 == Put(m, t, "dead")
<1>1. m2 \in [Threads -> {"live", "dead", "free"}]
      /\ m2[t] = "dead" /\ \A u \in Threads : u # t => m2[u] = m[u]
  BY DEF Put
<1> HIDE DEF m2
<1>2. Placed(n, m2)
  BY <1>1 DEF Placed
<1> QED BY <1>1, <1>2 DEF m2

\* The critical section of vTaskDelete keeps the invariant.
LEMMA DeleteStep ==
  ASSUME IInv, NEW t \in Tasks, vTaskDelete(t)
  PROVE  Preserved
<1> DEFINE c == k.pxCurrentTCB
           o == Unlink(k, t)
           q == Append(k.xTasksWaitingTermination, t)
           h == [left EXCEPT ![t] = 0]
           w == [NoArg EXCEPT !.task = t]
           m == Put(tcb, t, "dead")
           n == IF t = c THEN [o EXCEPT !.xTasksWaitingTermination = q]
                ELSE prvResetNextTaskUnblockTime(o)
<1>1. /\ At("run") /\ yieldReq = FALSE /\ c # Idle /\ IsReady(k, c) /\ t \in Threads
      /\ Unlocked => Highest(k)
      /\ ~ Unlocked => k.xYieldPending \/ Highest(k)
  BY CallFacts DEF vTaskDelete, Threads
<1>2. tcb[t] = "live" /\ (t = c => k.uxSchedulerSuspended = 0)
  BY DEF vTaskDelete, cur, Unlocked
<1>3. tcb' = m /\ left' = h /\ Goto("free", w) /\ yieldReq' = FALSE
  BY <1>1 DEF vTaskDelete, Forget, Put
<1>4. h \in [Threads -> 0..portMAX_DELAY] /\ Cleared(h, left, t)
  BY <1>1, Parts, ForgetFacts
<1>5. w \in Args /\ w.task = t /\ "free" \in Kpcs
  BY TaskArg DEF Kpcs
<1>6. o = Unlinked(k, t, {})
  <2>1. o \in Kernel
    BY Parts, UnlinkFacts
  <2> HIDE DEF o
  <2>2. [o EXCEPT !.xSuspendedTaskList = @ \cup {}] = o
    BY <2>1 DEF Kernel
  <2> QED BY <2>2 DEF o, Unlinked
<1>7. k' = n
  <2>1. o.xTasksWaitingTermination = k.xTasksWaitingTermination
    BY Parts, UnlinkFacts DEF SameRest
  <2> QED BY <2>1 DEF vTaskDelete, cur
<1> HIDE DEF h, w, o
<1>8. /\ o \in Kernel /\ ListsOK(o) /\ TimesOK(o) /\ LeftOK(o, h, k.xPendedTicks)
      /\ ~ Linked(o, t)
      /\ \A u \in Threads : u # t => /\ IsReady(o, u) <=> IsReady(k, u)
                                     /\ Linked(o, u) <=> Linked(k, u)
      /\ Pnd(o) = Pnd(k) \ {t} /\ SameRest(o, k)
      /\ o.xYieldPending = k.xYieldPending
      /\ Highest(k) => Highest(o)
  <2> DEFINE S == {}
  <2>1. k \in Kernel /\ ListsOK(k) /\ TimesOK(k) /\ LeftOK(k, left, k.xPendedTicks)
    BY Parts
  <2>2. (S = {} \/ S = {t}) /\ S # {t}
    OBVIOUS
  <2>3. o = Unlinked(k, t, S)
    BY <1>6
  <2> HIDE DEF S
  <2> QED BY <1>4, <2>1, <2>2, <2>3, UnlinkOutcome
<1>9. /\ Alike(n, o) /\ TimesOK(n) /\ LeftOK(n, h, k.xPendedTicks)
      /\ n.xYieldPending = k.xYieldPending /\ (Highest(k) => Highest(n))
      /\ n.uxSchedulerSuspended = k.uxSchedulerSuspended
      /\ n.xPendedTicks = k.xPendedTicks
      /\ ToSet(n.xTasksWaitingTermination) =
           IF t = c THEN ToSet(k.xTasksWaitingTermination) \cup {t}
           ELSE ToSet(k.xTasksWaitingTermination)
  <2>0. /\ o.xTasksWaitingTermination = k.xTasksWaitingTermination
        /\ o.uxSchedulerSuspended = k.uxSchedulerSuspended
        /\ o.xPendedTicks = k.xPendedTicks
    BY <1>8 DEF SameRest
  <2>1. CASE t = c
    <3>1. k.xTasksWaitingTermination \in Distinct(Tasks)
          /\ t \notin ToSet(k.xTasksWaitingTermination)
      BY <1>2, Parts DEF Kernel, Owned
    <3>2. q \in Distinct(Tasks) /\ ToSet(q) = ToSet(k.xTasksWaitingTermination) \cup {t}
      BY <3>1, DistinctAppend
    <3>3. n = [o EXCEPT !.xTasksWaitingTermination = q]
      BY <2>1
    <3> HIDE DEF q, n
    <3> QED BY <1>8, <2>0, <2>1, <3>2, <3>3, TerminationFacts
  <2>2. CASE t # c
    <3>1. n = prvResetNextTaskUnblockTime(o)
      BY <2>2
    <3> HIDE DEF n
    <3> QED BY <1>8, <2>0, <2>2, <3>1, ResetOutcome DEF SameRest
  <2> QED BY <2>1, <2>2
<1> HIDE DEF n
<1>10. /\ n \in Kernel /\ ListsOK(n) /\ n.pxCurrentTCB = c /\ ~ Linked(n, t)
       /\ \A u \in Threads : u # t => /\ IsReady(n, u) <=> IsReady(k, u)
                                      /\ Linked(n, u) <=> Linked(k, u)
       /\ Pnd(n) = Pnd(k) \ {t}
  BY <1>1, <1>8, <1>9 DEF Alike, SameRest
<1>11. m \in [Threads -> {"live", "dead", "free"}] /\ Placed(n, m)
  BY <1>1, <1>10, Parts, LiveLeft
<1>12. Timed(n, h)
  BY <1>9, <1>10, Parts DEF Timed
<1>13. MayBe(n, "free", w, FALSE)
  BY <1>1, <1>2, <1>5, <1>9, <1>10 DEF MayBe
<1>14. Runs(n, "free", w.task, FALSE)
  <2>0. c \in Threads /\ k.uxSchedulerSuspended \in Nat
    BY Parts
  <2>1. CASE t = c
    BY <1>2, <1>5, <1>9, <1>10, <2>1 DEF Runs
  <2>2. CASE t # c
    <3>1. IsReady(n, c)
      BY <1>1, <1>10, <2>0, <2>2
    <3>2. k.uxSchedulerSuspended = 0 => Highest(n)
      BY <1>1, <1>9 DEF Unlocked
    <3>3. k.uxSchedulerSuspended > 0 => n.xYieldPending \/ Highest(n)
      BY <1>1, <1>9, <2>0 DEF Unlocked
    <3> QED BY <1>5, <1>9, <1>10, <3>1, <3>2, <3>3 DEF Runs
  <2> QED BY <2>1, <2>2
<1>15. Owned(n, Put(kpc, c, "free"), Put(arg, c, w), m)
  BY <1>1, <1>2, <1>5, <1>9, <1>10, Parts, OwnedDeleted
<1>16. n.xPendedTicks <= MaxPended /\ n.uxSchedulerSuspended <= MaxSuspended
  BY <1>9 DEF IInv
<1> HIDE DEF c, m
<1> QED BY <1>3, <1>4, <1>5, <1>7, <1>10, <1>11, <1>12, <1>13, <1>14, <1>15, <1>16, Parts, Goes DEF c

-----------------------------------------------------------------------------
(***************************************************************************)
(* Freeing the memory of a task.                                           *)
(***************************************************************************)
\* prvDeleteTCB keeps the invariant: what it frees is in no list and has no
\* other owner.
LEMMA FreeStep ==
  ASSUME IInv, prvDeleteTCB
  PROVE  Preserved
<1> DEFINE c == k.pxCurrentTCB
           t == arg[c].task
           p == IF t = c THEN "yield" ELSE "run"
           m == IF t # c THEN Put(tcb, t, "free") ELSE tcb
<1>0. p \in Kpcs /\ p # "free" /\ NoArg \in Args
  BY ArgFacts DEF Kpcs
<1>1. yieldReq = FALSE /\ kpc[c] = "free" /\ c \in Threads
  BY AtFacts DEF prvDeleteTCB
<1>2. k' = k /\ left' = left /\ yieldReq' = FALSE /\ Goto(p, NoArg) /\ tcb' = m
  BY <1>1 DEF prvDeleteTCB, cur, FreesNow, Put
<1>3. t \in Tasks /\ (t = c => k.uxSchedulerSuspended = 0)
  BY <1>1, Parts DEF Called
<1>4. Runs(k, "free", t, FALSE)
  BY <1>1, Parts DEF Running
<1>5. t \in Threads
  BY <1>3 DEF Threads
<1>6. k.xPendedTicks <= MaxPended /\ k.uxSchedulerSuspended <= MaxSuspended
  BY DEF IInv
<1>7. CASE t = c
  <2>1. c # Idle /\ p = "yield" /\ m = tcb
    BY <1>3, <1>7, ThreadsAssumption
  <2>2. MayBe(k, p, NoArg, FALSE) /\ Runs(k, p, NoArg.task, FALSE)
    BY <1>3, <1>7, <2>1 DEF MayBe, Runs
  <2>3. Owned(k, Put(kpc, c, p), Put(arg, c, NoArg), tcb)
    <3> HIDE DEF p
    <3> QED BY <1>0, Parts, OwnedKept
  <2> HIDE DEF c, p, m, t
  <2> QED BY <1>0, <1>2, <1>6, <2>1, <2>2, <2>3, Parts, Goes DEF c
<1>8. CASE t # c
  <2>1. p = "run" /\ m = Put(tcb, t, "free")
    BY <1>8
  <2>2. Frees(kpc, arg, c, t)
    BY <1>1, <1>8 DEF Frees
  <2>3. tcb[t] = "dead" /\ t \notin ToSet(k.xTasksWaitingTermination)
        /\ \A v \in Threads : Frees(kpc, arg, v, t) => v = c
    BY <1>1, <1>5, <2>2, Parts DEF Owned
  <2>4. /\ m \in [Threads -> {"live", "dead", "free"}] /\ m[t] = "free"
        /\ \A u \in Threads : u # t => m[u] = tcb[u]
    BY <1>5, <2>1, Parts DEF Put
  <2>5. IsReady(k, c) /\ (k.uxSchedulerSuspended = 0 => Highest(k))
        /\ (k.uxSchedulerSuspended > 0 => k.xYieldPending \/ Highest(k))
    BY <1>4, <1>8 DEF Runs
  <2> DEFINE pc2 == Put(kpc, c, p)
             a2 == Put(arg, c, NoArg)
  <2>6. \A u, v \in Threads : Frees(pc2, a2, u, v) => u # c /\ Frees(kpc, arg, u, v)
    <3> DEFINE w == NoArg
    <3>1. p # "free" /\ c \in Threads
      BY <1>0, <1>1
    <3> HIDE DEF c, p, w
    <3>2. \A u, v \in Threads : Frees(Put(kpc, c, p), Put(arg, c, w), u, v) <=>
               IF u = c THEN p = "free" /\ w.task = v /\ v # c ELSE Frees(kpc, arg, u, v)
      BY <3>1, Parts, FreesAfter
    <3> QED BY <3>1, <3>2 DEF w
  <2> HIDE DEF m, p, t, pc2, a2
  <2>7. Placed(k, m)
    BY <2>3, <2>4, Parts DEF Placed
  <2>8. MayBe(k, p, NoArg, FALSE)
    BY <2>1 DEF MayBe
  <2>9. Runs(k, p, NoArg.task, FALSE)
    BY <2>1, <2>5 DEF Runs
  <2>10. m[c] # "free" /\ \A v \in ToSet(k.xTasksWaitingTermination) : m[v] = "dead"
    <3>1. ToSet(k.xTasksWaitingTermination) \subseteq Threads
      BY Parts, ElementsOf DEF Kernel, Distinct, Threads
    <3> QED BY <1>1, <1>8, <2>3, <2>4, <3>1, Parts DEF Owned
  <2>11. ASSUME NEW u \in Threads, NEW v \in Threads, Frees(pc2, a2, u, v)
         PROVE  /\ m[v] = "dead" /\ v \notin ToSet(k.xTasksWaitingTermination)
                /\ \A x \in Threads : Frees(pc2, a2, x, v) => x = u
    <3>1. Frees(kpc, arg, u, v) /\ u # c
      BY <2>6, <2>11
    <3>2. tcb[v] = "dead" /\ v \notin ToSet(k.xTasksWaitingTermination)
          /\ \A x \in Threads : Frees(kpc, arg, x, v) => x = u
      BY <3>1, Parts DEF Owned
    <3>3. v # t
      BY <2>3, <3>1
    <3> QED BY <2>4, <2>6, <3>2, <3>3
  <2>12. Owned(k, pc2, a2, m)
    BY <2>10, <2>11 DEF Owned
  <2>13. Owned(k, Put(kpc, c, p), Put(arg, c, NoArg), m)
    BY <2>12 DEF pc2, a2
  <2> HIDE DEF c
  <2> QED BY <1>0, <1>2, <1>6, <2>4, <2>7, <2>8, <2>9, <2>13, Parts, Goes DEF c
<1> QED BY <1>7, <1>8

\* prvCheckTasksWaitingTermination keeps the invariant.
LEMMA CheckTerminationStep ==
  ASSUME IInv, prvCheckTasksWaitingTermination
  PROVE  Preserved
<1> DEFINE c == k.pxCurrentTCB
           d == k.xTasksWaitingTermination
           t == Head(d)
           q == Tail(d)
           w == [NoArg EXCEPT !.task = t]
           n == [k EXCEPT !.xTasksWaitingTermination = q]
<1>1. At("run") /\ c = Idle /\ d # <<>> /\ c \in Threads
  BY Parts DEF prvCheckTasksWaitingTermination, cur
<1>2. yieldReq = FALSE
  BY <1>1, RunFacts
<1>3. k' = n /\ Goto("free", w) /\ yieldReq' = FALSE /\ tcb' = tcb /\ left' = left
  BY <1>2 DEF prvCheckTasksWaitingTermination
<1>4. d \in Distinct(Tasks)
  BY Parts DEF Kernel
<1>5. t \in Tasks /\ q \in Distinct(Tasks) /\ t \in ToSet(d) /\ ToSet(q) = ToSet(d) \ {t}
  <2> HIDE DEF d
  <2> QED BY <1>1, <1>4, DistinctTail
<1>6. w \in Args /\ w.task = t /\ t # c /\ "free" \in Kpcs /\ t \in Threads
  BY <1>1, <1>5, TaskArg, ThreadsAssumption DEF Kpcs, Threads
<1>7. n = [k EXCEPT !.xTasksWaitingTermination = q]
  OBVIOUS
<1> HIDE DEF w, q, n
<1>8. /\ Alike(n, k) /\ TimesOK(n) /\ LeftOK(n, left, k.xPendedTicks)
      /\ Highest(k) => Highest(n)
      /\ n.xTasksWaitingTermination = q
      /\ n.xYieldPending = k.xYieldPending
      /\ n.xPendedTicks = k.xPendedTicks
      /\ n.uxSchedulerSuspended = k.uxSchedulerSuspended
  BY <1>5, <1>7, Parts, TerminationFacts
<1>9. n \in Kernel /\ n.pxCurrentTCB = c /\ Pnd(n) = Pnd(k)
  BY <1>8 DEF Alike
<1>10. Placed(n, tcb) /\ Timed(n, left)
  BY <1>8, <1>9, Parts DEF Placed, Timed, Alike
<1>11. MayBe(n, "free", w, FALSE)
  BY <1>5, <1>6, <1>9 DEF MayBe
<1>12. /\ IsReady(n, c) /\ (k.uxSchedulerSuspended = 0 => Highest(n))
       /\ k.uxSchedulerSuspended > 0 => n.xYieldPending \/ Highest(n)
  BY <1>1, <1>8, RunFacts DEF Alike
<1>13. Runs(n, "free", w.task, FALSE)
  BY <1>8, <1>9, <1>12 DEF Runs
<1> DEFINE pc2 == Put(kpc, c, "free")
           a2 == Put(arg, c, w)
<1>14. \A u, v \in Threads : Frees(pc2, a2, u, v) <=>
          IF u = c THEN v = t ELSE Frees(kpc, arg, u, v)
  <2> DEFINE p == "free"
  <2>1. p = "free" /\ c \in Threads
    BY <1>1
  <2>4. c \in Threads
    BY <1>1
  <2>3. kpc \in [Threads -> Kpcs] /\ arg \in [Threads -> Args]
    BY Parts
  <2> HIDE DEF c, p, t
  <2>2. \A u, v \in Threads : Frees(Put(kpc, c, p), Put(arg, c, w), u, v) <=>
               IF u = c THEN p = "free" /\ w.task = v /\ v # c ELSE Frees(kpc, arg, u, v)
    BY <2>3, <2>4, FreesAfter
  <2> QED BY <1>6, <2>1, <2>2
<1> HIDE DEF pc2, a2
<1>15. tcb[t] = "dead" /\ \A u \in Threads : ~ Frees(kpc, arg, u, t)
  BY <1>5, <1>6, Parts DEF Owned
<1>16. ASSUME NEW u \in Threads, NEW v \in Threads, Frees(pc2, a2, u, v)
       PROVE  /\ tcb[v] = "dead" /\ v \notin ToSet(q)
              /\ \A x \in Threads : Frees(pc2, a2, x, v) => x = u
  <2>1. CASE u = c
    <3>1. v = t
      BY <1>14, <1>16, <2>1
    <3> QED BY <1>5, <1>14, <1>15, <2>1, <3>1
  <2>2. CASE u # c
    <3>1. Frees(kpc, arg, u, v)
      BY <1>14, <1>16, <2>2
    <3>2. tcb[v] = "dead" /\ v \notin ToSet(d)
          /\ \A x \in Threads : Frees(kpc, arg, x, v) => x = u
      BY <3>1, Parts DEF Owned
    <3>3. v # t
      BY <1>15, <3>1
    <3> QED BY <1>5, <1>14, <3>2, <3>3
  <2> QED BY <2>1, <2>2
<1>17. Owned(n, pc2, a2, tcb)
  <2>1. tcb[c] # "free" /\ \A v \in ToSet(q) : tcb[v] = "dead"
    BY <1>5, Parts DEF Owned
  <2> QED BY <1>8, <1>9, <1>16, <2>1 DEF Owned
<1>18. Owned(n, Put(kpc, c, "free"), Put(arg, c, w), tcb)
  BY <1>17 DEF pc2, a2
<1>19. n.xPendedTicks <= MaxPended /\ n.uxSchedulerSuspended <= MaxSuspended
  BY <1>8 DEF IInv
<1> HIDE DEF c
<1> QED BY <1>3, <1>6, <1>9, <1>10, <1>11, <1>13, <1>18, <1>19, Parts, Goes DEF c

-----------------------------------------------------------------------------
(***************************************************************************)
(* xTaskCreate.                                                            *)
(***************************************************************************)
\* A task whose memory is free begins in its own code.
LEMMA NewTask ==
  ASSUME NEW s \in Kernel, NEW pc \in [Threads -> Kpcs], NEW a \in [Threads -> Args], NEW y,
         NEW m, Called(s, pc, a, y), Owned(s, pc, a, m), NEW t \in Tasks, t # s.pxCurrentTCB,
         NEW w \in Args
  PROVE  /\ Put(pc, t, "run") \in [Threads -> Kpcs] /\ Put(a, t, w) \in [Threads -> Args]
         /\ Called(s, Put(pc, t, "run"), Put(a, t, w), y)
         /\ Owned(s, Put(pc, t, "run"), Put(a, t, w), m)
<1> DEFINE pc2 == Put(pc, t, "run")
           a2 == Put(a, t, w)
<1>1. t \in Threads /\ t # Idle /\ Idle \in Threads /\ "run" \in Kpcs
      /\ s.pxCurrentTCB \in Threads
  BY ThreadsAssumption DEF Threads, Kpcs, Kernel
<1>2. /\ pc2 \in [Threads -> Kpcs] /\ a2 \in [Threads -> Args]
      /\ pc2[t] = "run" /\ a2[t] = w
      /\ \A u \in Threads : u # t => pc2[u] = pc[u] /\ a2[u] = a[u]
  BY <1>1 DEF Put
<1> HIDE DEF pc2, a2
<1>3. Called(s, pc2, a2, y)
  <2>1. pc2[Idle] = pc[Idle] /\ pc2[s.pxCurrentTCB] = pc[s.pxCurrentTCB]
        /\ a2[s.pxCurrentTCB] = a[s.pxCurrentTCB]
    BY <1>1, <1>2
  <2>2. ASSUME NEW u \in Threads
        PROVE  /\ pc2[u] \in {"add", "unlock", "resume"} =>
                     u = s.pxCurrentTCB /\ s.uxSchedulerSuspended = 1
               /\ pc2[u] \in {"reset", "free", "created"} => a2[u].task \in Tasks
               /\ pc2[u] = "add" => a2[u].ticks > 0
    <3>1. CASE u = t
      BY <1>2, <3>1
    <3>2. CASE u # t
      BY <1>2, <3>2 DEF Called
    <3> QED BY <3>1, <3>2
  <2> QED BY <2>1, <2>2 DEF Called
<1>4. \A u, v \in Threads : Frees(pc2, a2, u, v) => Frees(pc, a, u, v)
  BY <1>1, <1>2 DEF Frees
<1>5. Owned(s, pc2, a2, m)
  BY <1>4 DEF Owned
<1> QED BY <1>2, <1>3, <1>5 DEF pc2, a2

\* xTaskCreate keeps the invariant.
LEMMA CreateStep ==
  ASSUME IInv, NEW t \in Tasks, NEW p \in Workloads[load].priorities, xTaskCreate(t, p)
  PROVE  Preserved
<1> DEFINE c == k.pxCurrentTCB
           n == prvAddTaskToReadyList(SetPriority(k, t, p), t)
           w == [NoArg EXCEPT !.task = t]
           pc1 == Put(kpc, t, "run")
           a1 == Put(arg, t, NoArg)
           m == Put(tcb, t, "live")
<1>0. p \in Priorities
  BY WorkloadAssumption DEF IInv
<1>1. /\ At("run") /\ yieldReq = FALSE /\ c # Idle /\ IsReady(k, c)
      /\ Unlocked /\ Highest(k) /\ k.uxSchedulerSuspended = 0 /\ c \in Threads /\ t \in Threads
  BY CallFacts, Parts DEF xTaskCreate, Threads, Unlocked
<1>2. tcb[t] = "free" /\ t # c
  BY Parts DEF xTaskCreate, Owned
<1>3. w \in Args /\ w.task = t /\ NoArg \in Args /\ "created" \in Kpcs /\ "created" # "free"
  BY TaskArg, ArgFacts DEF Kpcs
<1>4. k' = n /\ tcb' = m /\ yieldReq' = FALSE /\ left' = left
  BY <1>1 DEF xTaskCreate, SetPriority, Put
<1>5. kpc' = Put(pc1, c, "created") /\ arg' = Put(a1, c, w)
  <2> HIDE DEF w
  <2>1. kpc' = [kpc EXCEPT ![c] = "created", ![t] = "run"]
        /\ arg' = [arg EXCEPT ![c] = w, ![t] = NoArg]
    BY DEF xTaskCreate, cur, w
  <2> QED BY <1>1, <1>2, <2>1, Parts DEF Put
<1> HIDE DEF n, w
<1>6. ~ Linked(k, t)
  BY <1>1, <1>2, Parts DEF Placed
<1>7. /\ Retained(n, k, t, p) /\ ListsOK(n)
      /\ \A u \in Threads : /\ IsReady(n, u) <=> IsReady(k, u) \/ u = t
                            /\ Linked(n, u) <=> Linked(k, u) \/ u = t
      /\ Pnd(n) = Pnd(k) /\ TimesOK(n) /\ LeftOK(n, left, k.xPendedTicks)
  BY <1>0, <1>6, Parts, CreateOutcome DEF n
<1>8. /\ n \in Kernel /\ n.pxCurrentTCB = c
      /\ n.xPendedTicks = k.xPendedTicks
      /\ n.uxSchedulerSuspended = k.uxSchedulerSuspended
      /\ n.xTasksWaitingTermination = k.xTasksWaitingTermination
      /\ \A u \in Threads : u # t => n.uxPriority[u] = k.uxPriority[u]
  BY <1>7 DEF Retained
<1>9. /\ m \in [Threads -> {"live", "dead", "free"}] /\ m[t] = "live"
      /\ \A u \in Threads : u # t => m[u] = tcb[u]
  BY <1>1, Parts DEF Put
<1>10. pc1 \in [Threads -> Kpcs] /\ a1 \in [Threads -> Args]
       /\ Called(k, pc1, a1, FALSE) /\ Owned(k, pc1, a1, tcb)
  <2> DEFINE v == NoArg
             y == yieldReq
  <2>1. v \in Args /\ Called(k, kpc, arg, y)
    BY <1>3, Parts
  <2> HIDE DEF v, y
  <2>2. /\ Put(kpc, t, "run") \in [Threads -> Kpcs] /\ Put(arg, t, v) \in [Threads -> Args]
        /\ Called(k, Put(kpc, t, "run"), Put(arg, t, v), y)
        /\ Owned(k, Put(kpc, t, "run"), Put(arg, t, v), tcb)
    BY <1>2, <2>1, Parts, NewTask
  <2> QED BY <1>1, <2>2 DEF v, y
<1> HIDE DEF pc1, a1, m
<1>11. Placed(n, m) /\ Timed(n, left)
  BY <1>2, <1>7, <1>8, <1>9, Parts DEF Placed, Timed
<1> DEFINE pc2 == Put(pc1, c, "created")
           a2 == Put(a1, c, w)
<1>12. Owned(n, pc2, a2, tcb)
  BY <1>3, <1>8, <1>10, Parts, OwnedKept
<1> HIDE DEF pc2, a2
<1>13. Owned(n, pc2, a2, m)
  <2>1. ToSet(n.xTasksWaitingTermination) \subseteq Threads
    BY <1>8, ElementsOf DEF Kernel, Distinct, Threads
  <2>2. m[c] # "free"
    BY <1>1, <1>2, <1>9, Parts DEF Owned
  <2>3. \A v \in Threads : tcb[v] = "dead" => m[v] = "dead"
    BY <1>2, <1>9
  <2>4. \A v \in ToSet(n.xTasksWaitingTermination) : m[v] = "dead"
    BY <1>12, <2>1, <2>3 DEF Owned
  <2>5. \A u, v \in Threads : Frees(pc2, a2, u, v) =>
          /\ m[v] = "dead" /\ v \notin ToSet(n.xTasksWaitingTermination)
          /\ \A x \in Threads : Frees(pc2, a2, x, v) => x = u
    BY <1>12, <2>3 DEF Owned
  <2> QED BY <1>8, <2>2, <2>4, <2>5 DEF Owned
<1>14. MayBe(n, "created", w, FALSE)
  BY <1>1, <1>3, <1>8 DEF MayBe
<1>15. Runs(n, "created", w.task, FALSE)
  <2>1. IsReady(n, c)
    BY <1>1, <1>7
  <2>2. \A u \in Threads : IsReady(n, u) => n.uxPriority[u] <= n.uxPriority[c] \/ u = t
    BY <1>1, <1>2, <1>7, <1>8 DEF Highest
  <2> QED BY <1>1, <1>3, <1>8, <2>1, <2>2 DEF Runs
<1>16. n.xPendedTicks <= MaxPended /\ n.uxSchedulerSuspended <= MaxSuspended
  BY <1>8 DEF IInv
<1>17. Good(n, pc2, a2, FALSE, m, left)
  <2> DEFINE y == FALSE
             x == "created"
  <2>1. y \in BOOLEAN /\ Called(k, pc1, a1, y) /\ MayBe(n, x, w, y) /\ Runs(n, x, w.task, y)
        /\ x \in Kpcs /\ Owned(n, Put(pc1, c, x), Put(a1, c, w), m)
    BY <1>3, <1>10, <1>13, <1>14, <1>15 DEF pc2, a2
  <2> HIDE DEF y, x, c
  <2>2. c = k.pxCurrentTCB
    BY DEF c
  <2>3. Good(n, Put(pc1, c, x), Put(a1, c, w), y, m, left)
    <3>1. k \in Kernel /\ left \in [Threads -> 0..portMAX_DELAY]
          /\ m \in [Threads -> {"live", "dead", "free"}] /\ n \in Kernel
          /\ n.pxCurrentTCB = k.pxCurrentTCB /\ w \in Args
          /\ pc1 \in [Threads -> Kpcs] /\ a1 \in [Threads -> Args]
      BY <1>3, <1>8, <1>9, <1>10, <2>2, Parts
    <3> DEFINE l == left
    <3>2. Placed(n, m) /\ Timed(n, l) /\ l \in [Threads -> 0..portMAX_DELAY]
      BY <1>11, <3>1
    <3> HIDE DEF l
    <3>3. Good(n, Put(pc1, c, x), Put(a1, c, w), y, m, l)
      BY <2>1, <2>2, <3>1, <3>2, CallStep
    <3> QED BY <3>3 DEF l
  <2> QED BY <2>3 DEF x, y, pc2, a2
<1> QED BY <1>4, <1>5, <1>16, <1>17 DEF Preserved, pc2, a2

-----------------------------------------------------------------------------
(***************************************************************************)
(* Interrupts.                                                             *)
(***************************************************************************)
\* the invariant after it
GoodAfter(r, n, pc, a, m, l) ==
    /\ Good(r, pc, a, FALSE, m, l)
    /\ r.xPendedTicks = n.xPendedTicks
    /\ r.uxSchedulerSuspended = n.uxSchedulerSuspended

\* vTaskSwitchContext establishes the invariant for the task it chooses.
LEMMA SwitchGood ==
  ASSUME NEW s, NEW pc \in [Threads -> Kpcs], NEW a \in [Threads -> Args], NEW y,
         NEW m \in [Threads -> {"live", "dead", "free"}],
         NEW l \in [Threads -> 0..portMAX_DELAY], NEW n,
         Found(s, pc, a, y, m), Quiet(n, s, TRUE), Timed(n, l)
  PROVE  GoodAfter(vTaskSwitchContext(n), n, pc, a, m, l)
<1> DEFINE r == vTaskSwitchContext(n)
<1>1. Switched(r, n, pc, a, m, l)
  BY QuietSwitches
<1> HIDE DEF r
<1>2. Typed(r, pc, a, FALSE, m, l)
  BY <1>1 DEF Typed, Switched
<1>3. GoodAfter(r, n, pc, a, m, l)
  BY <1>1, <1>2 DEF Good, Switched, GoodAfter
<1> QED BY <1>3 DEF r

\* The end of an interrupt handler, with a switch or without.
LEMMA HandlerStep ==
  ASSUME IInv, NEW n, NEW sw \in BOOLEAN, HandlerEnd(n, sw), Quiet(n, k, sw),
         NEW h \in [Threads -> 0..portMAX_DELAY], Timed(n, h), left' = h,
         Stay, UNCHANGED tcb, n.xPendedTicks <= MaxPended
  PROVE  Preserved
<1>1. n \in Kernel /\ n.uxSchedulerSuspended = k.uxSchedulerSuspended
  BY DEF Quiet
<1>2. n.uxSchedulerSuspended <= MaxSuspended
  BY <1>1 DEF IInv
<1>3. kpc' = kpc /\ arg' = arg /\ tcb' = tcb
  BY DEF Stay
<1>4. yieldReq \in BOOLEAN /\ k \in Kernel
      /\ Placed(k, tcb) /\ Called(k, kpc, arg, yieldReq)
      /\ Running(k, kpc, arg, yieldReq) /\ Owned(k, kpc, arg, tcb)
      /\ kpc \in [Threads -> Kpcs] /\ arg \in [Threads -> Args]
      /\ tcb \in [Threads -> {"live", "dead", "free"}]
  BY Parts
<1>5. CASE sw \/ yieldReq
  <2>1. k' = vTaskSwitchContext(n) /\ yieldReq' = FALSE
    BY <1>5 DEF HandlerEnd
  <2>2. Quiet(n, k, TRUE)
    BY DEF Quiet
  <2> DEFINE r == vTaskSwitchContext(n)
             y == yieldReq
             m == tcb
  <2>3. Found(k, kpc, arg, y, m)
    BY <1>4 DEF Found
  <2> HIDE DEF y, m
  <2>4. kpc \in [Threads -> Kpcs] /\ arg \in [Threads -> Args]
        /\ m \in [Threads -> {"live", "dead", "free"}]
    BY <1>4 DEF m
  <2>5. Timed(n, h) /\ h \in [Threads -> 0..portMAX_DELAY]
    OBVIOUS
  <2>6. GoodAfter(r, n, kpc, arg, m, h)
    BY <2>2, <2>3, <2>4, <2>5, SwitchGood
  <2> HIDE DEF r
  <2> QED BY <1>2, <1>3, <2>1, <2>6 DEF Preserved, GoodAfter, r, m
<1>6. CASE ~ (sw \/ yieldReq)
  <2>1. k' = n /\ yieldReq' = yieldReq
    BY <1>6 DEF HandlerEnd
  <2>2. Quiet(n, k, FALSE)
    BY <1>6 DEF Quiet
  <2> DEFINE y == yieldReq
             m == tcb
  <2>3. Found(k, kpc, arg, y, m)
    BY <1>4 DEF Found
  <2> HIDE DEF y, m
  <2>4. Placed(n, m) /\ Called(n, kpc, arg, y) /\ Running(n, kpc, arg, y) /\ Owned(n, kpc, arg, m)
    BY <2>2, <2>3, QuietStays
  <2>5. Typed(n, kpc, arg, y, m, h)
    BY <1>1, <1>4, <2>3 DEF Typed, Found, m
  <2>6. Good(n, kpc, arg, y, m, h)
    BY <2>4, <2>5 DEF Good
  <2> QED BY <1>2, <1>3, <2>1, <2>6 DEF Preserved, y, m
<1> QED BY <1>5, <1>6

\* The timer interrupt keeps the invariant.
LEMMA TickStepKeeps ==
  ASSUME IInv, TickIsr
  PROVE  Preserved
<1> DEFINE r == xTaskIncrementTick(k)
           n == r.s
           h == OneLess(left)
<1>1. HandlerEnd(n, r.switch) /\ left' = h /\ Stay /\ tcb' = tcb /\ k.xPendedTicks < MaxPended
  BY DEF TickIsr, OneLess
<1>2. k.uxSchedulerSuspended = 0 => k.xPendedTicks = 0 /\ Pnd(k) = {}
  BY Parts DEF Timed
<1>3. /\ Ticked(n, k) /\ ListsOK(n) /\ TimesOK(n)
      /\ LeftOK(n, h, n.xPendedTicks)
      /\ r.switch \in BOOLEAN
      /\ ~ r.switch => NoneAbove(n, k)
  BY <1>2, Parts, TickOutcome
<1>4. h \in [Threads -> 0..portMAX_DELAY]
  <2>1. \A x \in 0..portMAX_DELAY : (IF x > 0 THEN x - 1 ELSE 0) \in 0..portMAX_DELAY
    BY BoundsAssumption DEF portMAX_DELAY
  <2>2. \A t \in Threads : left[t] \in 0..portMAX_DELAY
    BY Parts
  <2> QED BY <2>1, <2>2 DEF OneLess
<1> DEFINE sw == r.switch
<1>5. sw \in BOOLEAN /\ HandlerEnd(n, sw)
  BY <1>1, <1>3
<1>6. Quiet(n, k, sw)
  BY <1>3 DEF Quiet, Ticked
<1>7. Timed(n, h)
  BY <1>3 DEF Timed, Ticked
<1>8. n.xPendedTicks <= MaxPended
  <2>1. n.xPendedTicks = IF k.uxSchedulerSuspended = 0 THEN 0 ELSE k.xPendedTicks + 1
    BY <1>3 DEF Ticked
  <2> HIDE DEF n
  <2> QED BY <1>1, <2>1, Parts
<1> HIDE DEF r, n, h, sw
<1> QED BY <1>1, <1>4, <1>5, <1>6, <1>7, <1>8, HandlerStep

\* The yield interrupt keeps the invariant.
LEMMA YieldIsrKeeps ==
  ASSUME IInv, YieldIsr
  PROVE  Preserved
<1> DEFINE sw == TRUE
           h == left
<1>1. HandlerEnd(k, sw) /\ left' = h /\ Stay /\ tcb' = tcb /\ sw \in BOOLEAN
  BY DEF YieldIsr
<1>2. Quiet(k, k, sw)
  BY Parts DEF Quiet
<1>3. Timed(k, h) /\ h \in [Threads -> 0..portMAX_DELAY]
  BY Parts
<1>4. k.xPendedTicks <= MaxPended
  BY DEF IInv
<1> HIDE DEF sw, h
<1> QED BY <1>1, <1>2, <1>3, <1>4, HandlerStep

\* A give from an interrupt keeps the invariant.
LEMMA IsrSignalKeeps ==
  ASSUME IInv, NEW e \in Events, IsrSignal(e)
  PROVE  Preserved
<1> DEFINE r == xTaskRemoveFromEventList(k, e)
           n == r.s
           t == Head(k.xTasksWaiting[e])
           h == [left EXCEPT ![t] = 0]
           sw == r.higher
<1>1. HandlerEnd(n, sw) /\ left' = h /\ Stay /\ tcb' = tcb /\ k.xTasksWaiting[e] # <<>>
  BY DEF IsrSignal, Forget
<1>2. (Pnd(k) # {} => k.uxSchedulerSuspended > 0)
      /\ (k.uxSchedulerSuspended = 0 => k.xPendedTicks = 0)
  <2>1. k.uxSchedulerSuspended \in Nat
    BY Parts
  <2>2. k.uxSchedulerSuspended = 0 => k.xPendedTicks = 0 /\ Pnd(k) = {}
    BY Parts DEF Timed
  <2> QED BY <2>1, <2>2
<1>3. /\ t \in Tasks /\ Signalled(n, k)
      /\ ListsOK(n) /\ TimesOK(n) /\ LeftOK(n, h, k.xPendedTicks)
      /\ sw \in BOOLEAN
      /\ k.xYieldPending => n.xYieldPending
      /\ ~ sw => NoneAbove(n, k)
  BY <1>1, <1>2, Parts, SignalFacts
<1>4. h \in [Threads -> 0..portMAX_DELAY]
  BY <1>3, Parts, ForgetFacts DEF Threads
<1> HIDE DEF r, h, t, n, sw
<1>5. Quiet(n, k, sw)
  BY <1>3 DEF Quiet, Signalled
<1>6. Timed(n, h)
  <2>1. n.uxSchedulerSuspended = k.uxSchedulerSuspended /\ n.xPendedTicks = k.xPendedTicks
        /\ (Pnd(n) # {} => n.uxSchedulerSuspended > 0)
    BY <1>3 DEF Signalled
  <2> QED BY <1>2, <1>3, <2>1 DEF Timed
<1>7. n.xPendedTicks <= MaxPended
  BY <1>3 DEF Signalled, IInv
<1> QED BY <1>1, <1>3, <1>4, <1>5, <1>6, <1>7, HandlerStep

(***************************************************************************)
(* The theorems.                                                           *)
(***************************************************************************)
\* Every step keeps the inductive invariant.
LEMMA NextLemma == IInv /\ [Next]_vars => IInv'
<1> SUFFICES ASSUME IInv, [Next]_vars PROVE IInv'
  OBVIOUS
<1>1. Next => Preserved
  <2>1. ASSUME Blocking PROVE Preserved
    <3>1. ASSUME NEW n \in Delays, vTaskDelay(n) PROVE Preserved
      BY <3>1, DelayStep
    <3>2. ASSUME NEW n \in Delays, NEW e \in Events, Wait(e, n) PROVE Preserved
      BY <3>2, WaitStep
    <3> QED BY <2>1, <3>1, <3>2, DelayedStep, PlaceStep, UnlockStep, ResumeStep,
               YieldWithinStep DEF Blocking
  <2>2. ASSUME Waking PROVE Preserved
    <3>1. ASSUME NEW e \in Events, Signal(e) PROVE Preserved
      BY <3>1, SignalStep
    <3> QED BY <2>2, <3>1, YieldStep, SuspendAllStep, ResumeAllStep DEF Waking
  <2>3. ASSUME Managing PROVE Preserved
    <3>1. ASSUME NEW t \in Tasks, vTaskSuspend(t) PROVE Preserved
      BY <3>1, SuspendStep
    <3>2. ASSUME NEW t \in Tasks, vTaskResume(t) PROVE Preserved
      BY <3>2, ResumeTaskStep
    <3>3. ASSUME NEW t \in Tasks, vTaskDelete(t) PROVE Preserved
      BY <3>3, DeleteStep
    <3>4. ASSUME NEW t \in Tasks, NEW p \in Workloads[load].priorities, vTaskPrioritySet(t, p)
          PROVE  Preserved
      BY <3>4, PriorityStep
    <3>5. ASSUME NEW t \in Tasks, NEW p \in Workloads[load].priorities, xTaskCreate(t, p)
          PROVE  Preserved
      BY <3>5, CreateStep
    <3> QED BY <2>3, <3>1, <3>2, <3>3, <3>4, <3>5, SuspendResetStep, FreeStep, CreatedStep
            DEF Managing
  <2>4. ASSUME IdleTask PROVE Preserved
    BY <2>4, CheckTerminationStep, IdleYieldStep DEF IdleTask
  <2>5. ASSUME Interrupts PROVE Preserved
    <3>1. ASSUME NEW e \in Events, IsrSignal(e) PROVE Preserved
      BY <3>1, IsrSignalKeeps
    <3> QED BY <2>5, <3>1, TickStepKeeps, YieldIsrKeeps DEF Interrupts
  <2> QED BY <2>1, <2>2, <2>3, <2>4, <2>5 DEF Next
<1>2. Next => load' = load
  BY DEF Next
<1>3. CASE Next
  <2>1. Preserved /\ load' = load
    BY <1>1, <1>2, <1>3
  <2> QED BY <2>1 DEF Preserved, IInv, MaxPended
<1>4. CASE UNCHANGED vars
  BY <1>4 DEF vars, IInv, MaxPended
<1> QED BY <1>3, <1>4

\* The inductive invariant holds in every reachable state, for every set of
\* tasks, priorities, events and workloads.
THEOREM SchedulerInvariant == Spec => []IInv
<1> QED BY InitLemma, NextLemma, PTL DEF Spec

\* The size of a set of at most one element.
LEMMA OneOrNone ==
  ASSUME NEW S, \A x, y \in S : x = y
  PROVE  Cardinality(S) = IF S = {} THEN 0 ELSE 1
<1>1. CASE S = {}
  BY <1>1, FS_EmptySet
<1>2. CASE S # {}
  <2>1. PICK x \in S : TRUE
    BY <1>2
  <2>2. S = {x}
    BY <2>1
  <2> QED BY <1>2, <2>2, FS_Singleton
<1> QED BY <1>1, <1>2

\* The owners of a delayed list, each in it once.
LEMMA OwnersFacts ==
  ASSUME NEW l \in DList, NEW t
  PROVE  LET S == {i \in DOMAIN l : l[i].owner = t}
         IN  /\ Owners(l) = {d.owner : d \in ToSet(l)}
             /\ Cardinality(S) = IF t \in Owners(l) THEN 1 ELSE 0
<1> DEFINE S == {i \in DOMAIN l : l[i].owner = t}
<1>1. l \in Seq(Item) /\ \A i, j \in 1..Len(l) : l[i].owner = l[j].owner => i = j
  BY DEF DList
<1>2. DOMAIN l = 1..Len(l) /\ ToSet(l) = {l[i] : i \in 1..Len(l)}
  BY <1>1, ElementsOf
<1>3. Owners(l) = {d.owner : d \in ToSet(l)}
  BY <1>2 DEF Owners
<1>4. \A i, j \in S : i = j
  BY <1>1, <1>2
<1>5. S = {} <=> t \notin Owners(l)
  BY DEF Owners
<1> HIDE DEF S
<1>6. Cardinality(S) = IF t \in Owners(l) THEN 1 ELSE 0
  BY <1>4, <1>5, OneOrNone
<1> QED BY <1>3, <1>6 DEF S

\* How many lists a task is in, counted as the properties count.
LEMMA PlacesFacts ==
  ASSUME IInv
  PROVE  /\ Delayed = DOwn(k) \cup OOwn(k)
         /\ \A t \in Threads :
              /\ t \in Ready <=> IsReady(k, t)
              /\ StateLists(t) = IF Linked(k, t) THEN 1 ELSE 0
              /\ EventLists(t) = IF Waits(k, t) \/ t \in Pnd(k) THEN 1 ELSE 0
<1>1. k \in Kernel /\ ListsOK(k)
  BY Parts
<1>2. k.pxDelayedTaskList \in DList /\ k.pxOverflowDelayedTaskList \in DList
  BY <1>1 DEF Kernel
<1>3. Owners(k.pxDelayedTaskList) = DOwn(k) /\ Owners(k.pxOverflowDelayedTaskList) = OOwn(k)
  BY <1>2, OwnersFacts DEF DOwn, OOwn, DItems, OItems
<1>4. ASSUME NEW t \in Threads
      PROVE  /\ t \in Ready <=> IsReady(k, t)
             /\ StateLists(t) = IF Linked(k, t) THEN 1 ELSE 0
             /\ EventLists(t) = IF Waits(k, t) \/ t \in Pnd(k) THEN 1 ELSE 0
  <2>1. TaskOK(k, t)
    BY <1>1 DEF ListsOK
  <2>2. t \in Ready <=> IsReady(k, t)
    BY DEF Ready, IsReady, ReadyAt, RdyAt
  <2> DEFINE R == {p \in Priorities : t \in ReadyAt(p)}
             D == {i \in DOMAIN k.pxDelayedTaskList : k.pxDelayedTaskList[i].owner = t}
             O == {i \in DOMAIN k.pxOverflowDelayedTaskList :
                       k.pxOverflowDelayedTaskList[i].owner = t}
             W == {e \in Events : t \in WaitingOn(e)}
  <2>3. Cardinality(R) = IF IsReady(k, t) THEN 1 ELSE 0
    <3>1. \A p, q \in R : p = q
      BY <2>1 DEF TaskOK, ReadyAt, RdyAt
    <3>2. R = {} <=> ~ IsReady(k, t)
      BY DEF IsReady, ReadyAt, RdyAt
    <3> HIDE DEF R
    <3> QED BY <3>1, <3>2, OneOrNone
  <2>4. Cardinality(D) = IF t \in DOwn(k) THEN 1 ELSE 0
    BY <1>2, <1>3, OwnersFacts
  <2>5. Cardinality(O) = IF t \in OOwn(k) THEN 1 ELSE 0
    BY <1>2, <1>3, OwnersFacts
  <2>6. Cardinality(W) = IF Waits(k, t) THEN 1 ELSE 0
    <3>1. \A e, f \in W : e = f
      BY <2>1 DEF TaskOK, WaitingOn, Wts
    <3>2. W = {} <=> ~ Waits(k, t)
      BY DEF Waits, WaitingOn, Wts
    <3> HIDE DEF W
    <3> QED BY <3>1, <3>2, OneOrNone
  <2>7. StateLists(t) = Cardinality(R) + Cardinality(D) + Cardinality(O)
                        + (IF t \in k.xSuspendedTaskList THEN 1 ELSE 0)
    BY DEF StateLists
  <2>8. EventLists(t) = Cardinality(W) + (IF t \in Pnd(k) THEN 1 ELSE 0)
    BY DEF EventLists, PendingReady, Pnd
  <2> HIDE DEF R, D, O, W
  <2>9. StateLists(t) = IF Linked(k, t) THEN 1 ELSE 0
    <3>1. CASE IsReady(k, t)
      BY <2>1, <2>3, <2>4, <2>5, <2>7, <3>1 DEF TaskOK, Linked, Asleep
    <3>2. CASE ~ IsReady(k, t) /\ t \in DOwn(k)
      BY <2>1, <2>3, <2>4, <2>5, <2>7, <3>2 DEF TaskOK, Linked, Asleep
    <3>3. CASE ~ IsReady(k, t) /\ t \notin DOwn(k)
      BY <2>1, <2>3, <2>4, <2>5, <2>7, <3>3 DEF TaskOK, Linked, Asleep
    <3> QED BY <3>1, <3>2, <3>3
  <2>10. EventLists(t) = IF Waits(k, t) \/ t \in Pnd(k) THEN 1 ELSE 0
    BY <2>1, <2>6, <2>8 DEF TaskOK
  <2> QED BY <2>2, <2>9, <2>10
<1> QED BY <1>3, <1>4 DEF Delayed

\* The invariant implies the types.
LEMMA TypeOKHolds == IInv => TypeOK
<1> SUFFICES ASSUME IInv PROVE TypeOK
  OBVIOUS
<1>1. /\ k \in Kernel /\ yieldReq \in BOOLEAN /\ kpc \in [Threads -> Kpcs]
      /\ tcb \in [Threads -> {"live", "dead", "free"}] /\ left \in [Threads -> 0..portMAX_DELAY]
      /\ MaxPended \in Nat /\ MaxSuspended \in Nat
  BY Parts
<1>2. \A p \in Priorities : IsList(k.pxReadyTasksLists[p])
  <2> TAKE p \in Priorities
  <2> DEFINE l == k.pxReadyTasksLists[p]
  <2>1. l \in RList
    BY <1>1 DEF Kernel
  <2> HIDE DEF l
  <2>2. l.items \in Seq(Threads) /\ l.index \in 0..Len(l.items)
    BY <2>1 DEF RList, Distinct
  <2> QED BY <2>2 DEF IsList, l
<1>3. /\ k.pxDelayedTaskList \in Seq(Item) /\ k.pxOverflowDelayedTaskList \in Seq(Item)
      /\ k.xSuspendedTaskList \subseteq Tasks
      /\ k.xPendingReadyList \in Seq(Tasks) /\ k.xTasksWaitingTermination \in Seq(Tasks)
      /\ k.xTasksWaiting \in [Events -> Seq(Tasks)]
  <2>1. Distinct(Tasks) \subseteq Seq(Tasks) /\ DList \subseteq Seq(Item)
    BY DEF Distinct, DList
  <2>2. /\ k.pxDelayedTaskList \in DList /\ k.pxOverflowDelayedTaskList \in DList
        /\ k.xPendingReadyList \in Distinct(Tasks)
        /\ k.xTasksWaitingTermination \in Distinct(Tasks)
        /\ k.xTasksWaiting \in [Events -> Distinct(Tasks)]
        /\ k.xSuspendedTaskList \subseteq Tasks
    BY <1>1 DEF Kernel
  <2> QED BY <2>1, <2>2
<1>4. /\ k.uxPriority \in [Threads -> Priorities] /\ k.uxTopReadyPriority \in Priorities
      /\ k.xTickCount \in 0..portMAX_DELAY /\ k.xNextTaskUnblockTime \in 0..portMAX_DELAY
      /\ k.xPendedTicks \in Nat /\ k.uxSchedulerSuspended \in Nat
      /\ k.xYieldPending \in BOOLEAN /\ k.pxCurrentTCB \in Threads
  BY <1>1 DEF Kernel
<1>5. k.xPendedTicks \in 0..MaxPended /\ k.uxSchedulerSuspended \in 0..MaxSuspended
  BY <1>1, <1>4 DEF IInv
<1> QED BY <1>1, <1>2, <1>3, <1>4, <1>5 DEF TypeOK

\* The invariant implies that every live task is in exactly one list.
LEMMA ListsConsistentHolds == IInv => ListsConsistent
<1> SUFFICES ASSUME IInv PROVE ListsConsistent
  OBVIOUS
<1>1. ListsOK(k) /\ Placed(k, tcb) /\ (Unlocked => Pnd(k) = {})
  BY Parts
<1>2. ASSUME NEW t \in Threads
      PROVE  /\ StateLists(t) = IF tcb[t] = "live" THEN 1 ELSE 0
             /\ EventLists(t) <= IF t \in Ready THEN 0 ELSE 1
  <2>1. TaskOK(k, t) /\ (Linked(k, t) <=> tcb[t] = "live")
    BY <1>1 DEF ListsOK, Placed
  <2>2. IsReady(k, t) => ~ (Waits(k, t) \/ t \in Pnd(k))
    BY <2>1 DEF TaskOK
  <2>3. /\ StateLists(t) = IF Linked(k, t) THEN 1 ELSE 0
        /\ EventLists(t) = IF Waits(k, t) \/ t \in Pnd(k) THEN 1 ELSE 0
        /\ t \in Ready <=> IsReady(k, t)
    BY PlacesFacts
  <2> QED BY <2>1, <2>2, <2>3
<1>3. \A p \in Priorities : \A t \in ReadyAt(p) : k.uxPriority[t] = p
  <2> TAKE p \in Priorities
  <2> TAKE t \in ReadyAt(p)
  <2>1. t \in RdyAt(k, p)
    BY DEF ReadyAt, RdyAt
  <2>2. t \in Threads
    <3>1. k.pxReadyTasksLists[p].items \in Seq(Threads)
      BY TypeOKHolds DEF TypeOK, IsList
    <3> QED BY <2>1, <3>1, ElementsOf DEF RdyAt
  <2>3. TaskOK(k, t)
    BY <1>1, <2>2 DEF ListsOK
  <2> QED BY <2>1, <2>3 DEF TaskOK
<1>4. PendingReady # {} => ~ Unlocked
  BY <1>1 DEF PendingReady, Pnd
<1> QED BY <1>2, <1>3, <1>4, TypeOKHolds DEF ListsConsistent

\* The invariant implies that the highest ready priority runs.
LEMMA HighestRuns == IInv => HighestPriorityRuns
<1> SUFFICES ASSUME IInv, Unlocked, At("run")
    PROVE  /\ cur \in Ready
           /\ \A p \in Priorities : ReadyAt(p) # {} =>
                 p <= k.uxPriority[cur] /\ p <= k.uxTopReadyPriority
  BY DEF HighestPriorityRuns
<1>1. cur \in Threads /\ IsReady(k, cur) /\ Highest(k) /\ ListsOK(k)
  BY AtRun, Parts DEF cur
<1>2. cur \in Ready
  BY <1>1, PlacesFacts
<1>3. ASSUME NEW p \in Priorities, NEW t \in ReadyAt(p)
      PROVE  p <= k.uxPriority[cur] /\ p <= k.uxTopReadyPriority
  <2>1. t \in RdyAt(k, p) /\ k.uxPriority[t] = p /\ t \in Threads
    <3>1. k.pxReadyTasksLists[p].items \in Seq(Threads)
      BY TypeOKHolds DEF TypeOK, IsList
    <3>2. t \in Threads
      BY <3>1, ElementsOf DEF ReadyAt
    <3> QED BY <3>2, ListsConsistentHolds DEF ListsConsistent, ReadyAt, RdyAt
  <2>2. IsReady(k, t)
    BY <2>1 DEF IsReady
  <2> QED BY <1>1, <2>1, <2>2 DEF Highest, ListsOK, cur
<1> QED BY <1>2, <1>3

\* The invariant implies that delays are exact.
LEMMA OnTime == IInv => WokenOnTime
<1> SUFFICES ASSUME IInv PROVE WokenOnTime
  OBVIOUS
<1>1. k \in Kernel /\ left \in [Threads -> Nat] /\ TimesOK(k) /\ LeftOK(k, left, k.xPendedTicks)
      /\ (Unlocked => k.xPendedTicks = 0 /\ Pnd(k) = {})
  BY Parts
<1>2. \A t \in Threads : left[t] > 0 => t \in Delayed
  BY <1>1, PlacesFacts DEF LeftOK
<1>3. ASSUME Unlocked, NEW t \in Delayed PROVE left[t] > 0
  <2>1. k.xPendedTicks = 0 /\ Pnd(k) = {}
    BY <1>1, <1>3
  <2>2. CASE t \in DOwn(k)
    <3>1. PICK d \in DItems(k) : d.owner = t
      BY <2>2 DEF DOwn
    <3>2. left[t] = LeftOf(d.value - k.xTickCount, 0) /\ d.value > k.xTickCount
      BY <1>1, <2>1, <3>1 DEF LeftOK, TimesOK
    <3>3. d.value \in Nat /\ k.xTickCount \in Nat
      BY <1>1, <3>1, ItemsTyped
    <3> QED BY <3>2, <3>3 DEF LeftOf
  <2>3. CASE t \in OOwn(k)
    <3>1. PICK d \in OItems(k) : d.owner = t
      BY <2>3 DEF OOwn
    <3>2. left[t] = LeftOf(d.value + Wrap - k.xTickCount, 0)
      BY <1>1, <2>1, <3>1 DEF LeftOK
    <3>3. d.value \in Nat /\ k.xTickCount \in Nat /\ k.xTickCount < Wrap /\ Wrap \in Nat
      BY <1>1, <3>1, ItemsTyped, BoundsAssumption
    <3> QED BY <3>2, <3>3 DEF LeftOf
  <2> QED BY <2>2, <2>3, PlacesFacts
<1> QED BY <1>2, <1>3 DEF WokenOnTime

\* The invariant implies that nothing refers to freed memory.
LEMMA Unreferenced == IInv => FreedUnreferenced
<1> SUFFICES ASSUME IInv, NEW t \in Threads, tcb[t] = "free"
    PROVE  /\ t # cur /\ StateLists(t) + EventLists(t) = 0
           /\ t \notin ToSet(k.xTasksWaitingTermination)
  BY DEF FreedUnreferenced
<1>1. ListsOK(k) /\ Placed(k, tcb) /\ Owned(k, kpc, arg, tcb)
  BY Parts
<1>2. TaskOK(k, t) /\ ~ Linked(k, t)
  BY <1>1 DEF ListsOK, Placed
<1>3. ~ Waits(k, t) /\ t \notin Pnd(k)
  BY <1>2 DEF TaskOK, Linked
<1>4. StateLists(t) = 0 /\ EventLists(t) = 0
  BY <1>2, <1>3, PlacesFacts
<1> QED BY <1>1, <1>4 DEF Owned, cur

\* The globals of tasks.c keep their types; pxIndex points into its list.
THEOREM SchedulerTypeOK == Spec => []TypeOK
<1> QED BY SchedulerInvariant, TypeOKHolds, PTL

\* Every live task is in exactly one state list and at most one event list,
\* a deleted one in none, and none is held back once the scheduler runs:
\* for every workload, whatever calls and interrupts interleave.
THEOREM TasksInOneList == Spec => []ListsConsistent
<1> QED BY SchedulerInvariant, ListsConsistentHolds, PTL

\* Whenever the running task is in its own code with the scheduler running
\* and no interrupt pending, it is ready and nothing ready is above it.
THEOREM HighestReadyRuns == Spec => []HighestPriorityRuns
<1> QED BY SchedulerInvariant, HighestRuns, PTL

\* A delayed task is woken by the timer interrupt that ends its delay, or
\* by xTaskResumeAll if the scheduler was suspended then, across every wrap
\* of xTickCount.
THEOREM DelaysAreExact == Spec => []WokenOnTime
<1> QED BY SchedulerInvariant, OnTime, PTL

\* Freed task memory is in no list, is not waiting to be freed again, and
\* the processor is not on its stack.
THEOREM FreedAreUnreferenced == Spec => []FreedUnreferenced
<1> QED BY SchedulerInvariant, Unreferenced, PTL
==============================================================================
