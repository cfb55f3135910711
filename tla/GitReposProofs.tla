---------------------------- MODULE GitReposProofs ----------------------------
(***************************************************************************)
(* What a run builds: for every set of actors, pipelines and repositories, *)
(* no other run of the same pipeline has moved the checkout since the      *)
(* run's own pull, although a repository has no lock of its own.           *)
(***************************************************************************)
EXTENDS GitRepos, TLAPS

\* The types of what the argument is about.
RunTypes ==
  /\ lock \in [Pipelines -> Actors \union {NoActor}]
  /\ pc \in [Actors -> Labels]
  /\ pipe \in [Actors -> Pipelines \union {NoPipe}]
  /\ pulled \in [Actors -> BOOLEAN]
  /\ touched \in [Actors -> SUBSET (Pipelines \union {NoPipe})]

\* A run between Enter and Unlock holds the lock of its pipeline.
HoldsLock(a) == pc[a] \in RunLabels /\ pipe[a] # NoPipe => lock[pipe[a]] = a

\* Only runs wait for the lock, build and unlock.
HasPipeline(a) == pc[a] \in {"wait", "build", "unlock"} => pipe[a] \in Pipelines

\* A pull is remembered from its end to the end of its run, and only then is
\* it recorded who moves the checkout.
PulledLater(a) == pulled[a] => pc[a] \in {"reset", "build", "unlock"}
TouchedLater(a) == ~pulled[a] => touched[a] = {}
OwnPull(a) == pulled[a] /\ pipe[a] # NoPipe => pipe[a] \notin touched[a]

ActorInv(a) == HoldsLock(a) /\ HasPipeline(a) /\ PulledLater(a) /\ TouchedLater(a) /\ OwnPull(a)

RunInv == RunTypes /\ \A a \in Actors : ActorInv(a)

-----------------------------------------------------------------------------
(* What a step does to an actor.                                           *)

Same(b) == pc'[b] = pc[b] /\ pipe'[b] = pipe[b] /\ pulled'[b] = pulled[b] /\ touched'[b] = touched[b]
Idles(b) == pc'[b] = "idle" /\ pipe'[b] = NoPipe /\ pulled'[b] = FALSE /\ touched'[b] = {}

\* From one label of a page's request to another.
Paging(b) ==
  /\ pc[b] \notin RunLabels /\ pc'[b] \notin RunLabels \union {"wait"}
  /\ pipe'[b] = pipe[b] /\ pulled'[b] = pulled[b] /\ touched'[b] = touched[b]

LEMMA QuietActor ==
  ASSUME RunInv, NEW b \in Actors, Same(b) \/ Idles(b) \/ Paging(b), lock' = lock
  PROVE  ActorInv(b)'
  BY DEF RunInv, ActorInv, HoldsLock, HasPipeline, PulledLater, TouchedLater, OwnPull, Same, Idles,
     Paging,
         RunLabels

LEMMA LeaveEffect ==
  ASSUME RunTypes, NEW a \in Actors, Leave(a)
  PROVE  /\ Idles(a) /\ \A b \in Actors \ {a} : Same(b)
         /\ pc' \in [Actors -> Labels] /\ pipe' \in [Actors -> Pipelines \union {NoPipe}]
         /\ pulled' \in [Actors -> BOOLEAN] /\ touched' \in [Actors -> SUBSET (Pipelines \union {NoPipe})]
  BY DEF RunTypes, Leave, Goto, Idles, Same, Labels

LEMMA GotoEffect ==
  ASSUME RunTypes, NEW a \in Actors, NEW l \in Labels, Goto(a, l), UNCHANGED <<pipe, pulled, touched>>
  PROVE  /\ pc'[a] = l /\ pipe'[a] = pipe[a] /\ pulled'[a] = pulled[a] /\ touched'[a] = touched[a]
         /\ \A b \in Actors \ {a} : Same(b)
         /\ pc' \in [Actors -> Labels] /\ pipe' \in [Actors -> Pipelines \union {NoPipe}]
         /\ pulled' \in [Actors -> BOOLEAN] /\ touched' \in [Actors -> SUBSET (Pipelines \union {NoPipe})]
  BY DEF RunTypes, Goto, Same

\* An actor that leaves, and a page's request that goes on, disturb nobody.
LEMMA LeaveKeeps ==
  ASSUME RunInv, NEW a \in Actors, Leave(a), lock' = lock
  PROVE  RunInv'
  <1>1. RunTypes'
    BY LeaveEffect DEF RunInv, RunTypes
  <1>2. QED
    BY <1>1, LeaveEffect, QuietActor DEF RunInv

LEMMA PageKeeps ==
  ASSUME RunInv, NEW a \in Actors, NEW l \in Labels \ (RunLabels \union {"wait"}),
         pc[a] \notin RunLabels, Goto(a, l), UNCHANGED <<pipe, pulled, touched, lock>>
  PROVE  RunInv'
  <1>1. RunTypes'
    BY GotoEffect DEF RunInv, RunTypes
  <1>2. Paging(a)
    BY GotoEffect DEF RunInv, Paging
  <1>3. QED
    BY <1>1, <1>2, GotoEffect, QuietActor DEF RunInv

\* A run that goes on inside its critical section keeps what it has.
LEMMA RunKeeps ==
  ASSUME RunInv, NEW a \in Actors, NEW l \in RunLabels, pc[a] \in RunLabels,
         l \in {"build", "unlock"} => pipe[a] \in Pipelines,
         pulled[a] => l \in {"reset", "build", "unlock"},
         Goto(a, l), UNCHANGED <<pipe, pulled, touched, lock>>
  PROVE  RunInv'
  <1>0. l \in Labels /\ l # "wait"
    BY DEF RunLabels, Labels
  <1>1. RunTypes'
    BY <1>0, GotoEffect DEF RunInv, RunTypes
  <1>2. ActorInv(a)'
    BY <1>0, GotoEffect
    DEF RunInv, ActorInv, HoldsLock, HasPipeline, PulledLater, TouchedLater, OwnPull
  <1>3. QED
    BY <1>0, <1>1, <1>2, GotoEffect, QuietActor DEF RunInv

LEMMA AfterPullKeeps ==
  ASSUME RunInv, NEW a \in Actors, pc[a] \in RunLabels, AfterPull(a), lock' = lock
  PROVE  RunInv'
  <1>1. CASE pipe[a] = NoPipe
    BY <1>1, LeaveKeeps DEF AfterPull
  <1>2. CASE pipe[a] # NoPipe
    <2>1. pipe[a] \in Pipelines
      BY <1>2 DEF RunInv, RunTypes
    <2>2. PICK l \in {"build", "unlock"} : Goto(a, l)
      BY <1>2 DEF AfterPull
    <2>3. UNCHANGED <<pipe, pulled, touched>>
      BY <1>2 DEF AfterPull
    <2>4. QED
      BY <2>1, <2>2, <2>3, RunKeeps DEF RunLabels
  <1>3. QED
    BY <1>1, <1>2

-----------------------------------------------------------------------------
(* The actions.                                                            *)

LEMMA BeginKeeps ==
  ASSUME RunInv, NEW a \in Actors, NEW n \in Repos, BeginAny(a, n)
  PROVE  RunInv'
  <1>1. PICK l \in {"check", "remove", "set", "pushset", "wait"}, p \in Pipelines \union {NoPipe} :
          /\ Begin(a, n, l, p)
          /\ l = "wait" <=> p \in Pipelines
          /\ l # "wait" <=> p = NoPipe
    BY PipelinesAssumption DEF BeginAny, BeginRegister, BeginDelete, BeginPull, BeginPush, BeginRun
  <1>2. pc[a] = "idle" /\ UNCHANGED <<lock, pulled, touched>>
    BY <1>1 DEF Begin
  <1>3. pc' = [pc EXCEPT ![a] = l] /\ pipe' = [pipe EXCEPT ![a] = p]
    BY <1>1 DEF Begin, Goto
  <1>4. RunTypes' /\ pc'[a] = l /\ pipe'[a] = p /\ \A b \in Actors \ {a} : Same(b)
    BY <1>2, <1>3 DEF RunInv, RunTypes, Same, Labels
  <1>5. pulled[a] = FALSE /\ touched[a] = {}
    BY <1>2 DEF RunInv, RunTypes, ActorInv, PulledLater, TouchedLater
  <1>6. ActorInv(a)'
    BY <1>1, <1>2, <1>4, <1>5
    DEF ActorInv, HoldsLock, HasPipeline, PulledLater, TouchedLater, OwnPull, RunLabels
  <1>7. QED
    BY <1>2, <1>4, <1>6, QuietActor DEF RunInv

\* Registering, deleting and pushing: requests of the pages.
LEMMA PagesKeep ==
  ASSUME RunInv, NEW a \in Actors,
         \/ CheckPath(a) \/ CloneStarts(a) \/ CloneRefused(a) \/ CloneEnds(a) \/ CloneFails(a)
         \/ CleanUp(a) \/ Insert(a) \/ Remove(a) \/ RemoveTimesOut(a)
         \/ PushSet(a) \/ Push(a) \/ PushReset(a)
  PROVE  RunInv'
  <1>1. lock' = lock
    BY DEF CheckPath, CloneStarts, CloneRefused, CloneEnds, CloneFails, CleanUp, Insert, Remove,
           RemoveTimesOut, PushSet, Push, PushReset
  <1>2. CASE Leave(a)
    BY <1>1, <1>2, LeaveKeeps
  <1>3. CASE ~Leave(a)
    <2>1. PICK l \in {"clone", "cloning", "cleanup", "insert", "unrow", "push", "pushreset"} : Goto(a, l)
      BY <1>3
      DEF CheckPath, CloneStarts, CloneRefused, CloneEnds, CloneFails, CleanUp, Insert, Remove,
                  RemoveTimesOut, PushSet, Push, PushReset
    <2>2. UNCHANGED <<pipe, pulled, touched>>
      BY <1>3
      DEF CheckPath, CloneStarts, CloneRefused, CloneEnds, CloneFails, CleanUp, Insert, Remove,
                  RemoveTimesOut, PushSet, Push, PushReset
    <2>3. pc[a] \notin RunLabels
      BY DEF CheckPath, CloneStarts, CloneRefused, CloneEnds, CloneFails, CleanUp, Insert, Remove,
             RemoveTimesOut, PushSet, Push, PushReset, RunLabels
    <2>4. l \in Labels \ (RunLabels \union {"wait"})
      BY DEF Labels, RunLabels
    <2>5. QED
      BY <1>1, <2>1, <2>2, <2>3, <2>4, PageKeeps
  <1>4. QED
    BY <1>2, <1>3

LEMMA RemoveRowKeeps ==
  ASSUME RunInv, NEW a \in Actors, RemoveRow(a)
  PROVE  RunInv'
  <1>1. pc[a] \notin RunLabels /\ Goto(a, "idle") /\ UNCHANGED <<pipe, pulled, touched, lock>>
    BY DEF RemoveRow, RunLabels
  <1>2. "idle" \in Labels \ (RunLabels \union {"wait"})
    BY DEF Labels, RunLabels
  <1>3. QED
    BY <1>1, <1>2, PageKeeps

LEMMA PullsKeep ==
  ASSUME RunInv, NEW a \in Actors, SetUrl(a) \/ ResetUrl(a) \/ AnswerLost(a) \/ Unreached(a)
  PROVE  RunInv'
  <1>1. CASE SetUrl(a)
    <2>1. CASE Goto(a, "fetch") /\ UNCHANGED <<pipe, pulled, touched>>
      <3>1. lock' = lock /\ pc[a] \in RunLabels /\ ~pulled[a]
        BY <1>1 DEF SetUrl, RunLabels, RunInv, ActorInv, PulledLater
      <3>2. QED
        BY <2>1, <3>1, RunKeeps DEF RunLabels
    <2>2. CASE AfterPull(a)
      BY <1>1, <2>2, AfterPullKeeps DEF SetUrl, RunLabels
    <2>3. QED
      BY <1>1, <2>1, <2>2 DEF SetUrl
  <1>2. CASE ResetUrl(a)
    BY <1>2, AfterPullKeeps DEF ResetUrl, RunLabels
  <1>3. CASE AnswerLost(a)
    <2>1. CASE pc[a] = "cloning"
      BY <1>3, <2>1, LeaveKeeps DEF AnswerLost
    <2>2. CASE pc[a] # "cloning"
      BY <1>3, <2>2, AfterPullKeeps DEF AnswerLost, RunLabels
    <2>3. QED
      BY <2>1, <2>2
  <1>4. CASE Unreached(a)
    <2>1. CASE pc[a] = "set"
      BY <1>4, <2>1, AfterPullKeeps DEF Unreached, RunLabels
    <2>2. CASE pc[a] # "set"
      BY <1>4, <2>2, LeaveKeeps DEF Unreached
    <2>3. QED
      BY <2>1, <2>2
  <1>5. QED
    BY <1>1, <1>2, <1>3, <1>4

\* Two actors inside the critical section of one pipeline are the same, so a
\* fetch is recorded at no other run of its pipeline.
LEMMA FetchKeeps ==
  ASSUME RunInv, NEW a \in Actors, Fetch(a)
  PROVE  RunInv'
  <1>1. PICK ok \in BOOLEAN : pulled' = [pulled EXCEPT ![a] = ok]
    BY DEF Fetch
  <1>2. pc[a] = "fetch" /\ pc' = [pc EXCEPT ![a] = "reset"] /\ UNCHANGED <<pipe, lock>>
    BY DEF Fetch, Goto
  <1>3. touched' = Moved(on[a], pipe[a])
    BY DEF Fetch
  <1>4. \A b \in Actors :
          \/ touched'[b] = touched[b]
          \/ pulled[b] /\ pipe[b] # NoPipe /\ touched'[b] = touched[b] \union {pipe[a]}
    BY <1>3 DEF Moved, Busy, RunInv, RunTypes
  <1>5. RunTypes'
    <2>1. touched' \in [Actors -> SUBSET (Pipelines \union {NoPipe})]
      BY <1>3 DEF Moved, RunInv, RunTypes
    <2>2. pulled' \in [Actors -> BOOLEAN] /\ pc' \in [Actors -> Labels]
      BY <1>1, <1>2 DEF RunInv, RunTypes, Labels
    <2>3. QED
      BY <1>2, <2>1, <2>2 DEF RunInv, RunTypes
  <1>6. ~pulled[a] /\ touched[a] = {}
    BY <1>2 DEF RunInv, ActorInv, PulledLater, TouchedLater
  <1>7. ActorInv(a)'
    <2>1. pc'[a] = "reset" /\ touched'[a] = {} /\ pipe'[a] = pipe[a] /\ lock' = lock
      BY <1>2, <1>4, <1>6 DEF RunInv, RunTypes
    <2>2. HoldsLock(a)'
      BY <1>2, <2>1 DEF RunInv, ActorInv, HoldsLock, RunLabels
    <2>3. QED
      BY <2>1, <2>2 DEF ActorInv, HasPipeline, PulledLater, TouchedLater, OwnPull
  <1>8. ASSUME NEW b \in Actors \ {a}
        PROVE  ActorInv(b)'
    <2>1. pc'[b] = pc[b] /\ pipe'[b] = pipe[b] /\ pulled'[b] = pulled[b] /\ lock' = lock
      BY <1>1, <1>2 DEF RunInv, RunTypes
    <2>2. ASSUME pulled[b], pipe[b] # NoPipe, pipe[a] = pipe[b]
          PROVE  FALSE
      <3>1. pc[b] \in RunLabels /\ pc[a] \in RunLabels
        BY <1>2, <2>2 DEF RunInv, ActorInv, PulledLater, RunLabels
      <3>2. lock[pipe[b]] = b /\ lock[pipe[a]] = a
        BY <2>2, <3>1 DEF RunInv, ActorInv, HoldsLock
      <3>3. QED
        BY <2>2, <3>2
    <2>3. QED
      BY <1>4, <2>1, <2>2
      DEF RunInv, ActorInv, HoldsLock, HasPipeline, PulledLater, TouchedLater, OwnPull
  <1>9. QED
    BY <1>5, <1>7, <1>8 DEF RunInv

LEMMA LocksKeep ==
  ASSUME RunInv, NEW a \in Actors, Enter(a) \/ Unlock(a)
  PROVE  RunInv'
  <1>1. CASE Enter(a)
    <2>1. PICK l \in {"set", "unlock"} : Goto(a, l)
      BY <1>1 DEF Enter
    <2>2. pipe[a] \in Pipelines /\ ~pulled[a] /\ touched[a] = {}
      BY <1>1 DEF Enter, RunInv, ActorInv, HasPipeline, PulledLater, TouchedLater
    <2>3. lock[pipe[a]] = NoActor /\ lock' = [lock EXCEPT ![pipe[a]] = a]
          /\ UNCHANGED <<pipe, pulled, touched>>
      BY <1>1 DEF Enter
    <2>4. l \in Labels
      BY DEF Labels
    <2>5. RunTypes'
      BY <2>1, <2>2, <2>3, <2>4, GotoEffect DEF RunInv, RunTypes
    <2>6. ActorInv(a)'
      BY <2>1, <2>2, <2>3, <2>4, GotoEffect
      DEF RunInv, RunTypes, ActorInv, HoldsLock, HasPipeline, PulledLater, TouchedLater, OwnPull
    <2>7. ASSUME NEW b \in Actors \ {a}
          PROVE  ActorInv(b)'
      <3>1. Same(b)
        BY <2>1, <2>3, <2>4, GotoEffect DEF RunInv
      <3>2. HoldsLock(b)'
        BY <2>2, <2>3, <3>1, ActorsAssumption DEF RunInv, RunTypes, ActorInv, HoldsLock, Same
      <3>3. QED
        BY <3>1, <3>2 DEF RunInv, ActorInv, HasPipeline, PulledLater, TouchedLater, OwnPull, Same
    <2>8. QED
      BY <2>5, <2>6, <2>7 DEF RunInv
  <1>2. CASE Unlock(a)
    <2>1. pc[a] = "unlock" /\ pipe[a] \in Pipelines /\ lock[pipe[a]] = a
      BY <1>2, PipelinesAssumption
      DEF Unlock, RunInv, ActorInv, HasPipeline, HoldsLock, RunLabels
    <2>2. lock' = [lock EXCEPT ![pipe[a]] = NoActor] /\ Leave(a)
      BY <1>2 DEF Unlock
    <2>3. RunTypes' /\ Idles(a)
      BY <2>2, LeaveEffect DEF RunInv, RunTypes
    <2>4. ActorInv(a)'
      BY <2>3
      DEF Idles, ActorInv, HoldsLock, HasPipeline, PulledLater, TouchedLater, OwnPull, RunLabels
    <2>5. ASSUME NEW b \in Actors \ {a}
          PROVE  ActorInv(b)'
      <3>1. Same(b)
        BY <2>2, LeaveEffect DEF RunInv
      <3>2. HoldsLock(b)'
        BY <2>1, <2>2, <3>1 DEF RunInv, RunTypes, ActorInv, HoldsLock, Same
      <3>3. QED
        BY <3>1, <3>2 DEF RunInv, ActorInv, HasPipeline, PulledLater, TouchedLater, OwnPull, Same
    <2>6. QED
      BY <2>3, <2>4, <2>5 DEF RunInv
  <1>3. QED
    BY <1>1, <1>2

LEMMA BuildKeeps ==
  ASSUME RunInv, NEW a \in Actors, Build(a)
  PROVE  RunInv'
  <1>1. pc[a] \in RunLabels /\ pipe[a] \in Pipelines
    BY DEF Build, RunLabels, RunInv, ActorInv, HasPipeline
  <1>2. Goto(a, "unlock") /\ UNCHANGED <<pipe, pulled, touched, lock>>
    BY DEF Build
  <1>3. QED
    BY <1>1, <1>2, RunKeeps DEF RunLabels

\* A checkout from the page, and a pull nobody waits for, are recorded as
\* nobody's pipeline.
LEMMA MovedKeeps ==
  ASSUME RunInv, NEW n, touched' = Moved(n, NoPipe), UNCHANGED <<lock, pc, pipe, pulled>>
  PROVE  RunInv'
  <1>1. RunTypes'
    BY DEF Moved, RunInv, RunTypes
  <1>2. QED
    BY <1>1
    DEF Moved, RunInv, ActorInv, HoldsLock, HasPipeline, PulledLater, TouchedLater, OwnPull

LEMMA CrashKeeps ==
  ASSUME RunInv, Crash
  PROVE  RunInv'
  BY DEF Crash, RunInv, RunTypes, ActorInv, HoldsLock, HasPipeline, PulledLater, TouchedLater,
     OwnPull,
         Labels, RunLabels

LEMMA RunInvInductive == RunInv /\ [Next]_vars => RunInv'
  <1> SUFFICES ASSUME RunInv, [Next]_vars
               PROVE  RunInv'
    OBVIOUS
  <1>1. CASE \E a \in Actors : Step(a)
    BY <1>1, PagesKeep, RemoveRowKeeps, PullsKeep, FetchKeeps, LocksKeep, BuildKeeps DEF Step
  <1>2. CASE \E a \in Actors, n \in Repos : BeginAny(a, n)
    BY <1>2, BeginKeeps
  <1>3. CASE \E n \in Repos : Checkout(n)
    BY <1>3, MovedKeeps DEF Checkout
  <1>4. CASE Crash
    BY <1>4, CrashKeeps
  <1>5. CASE UNCHANGED <<lock, pc, pipe, pulled, touched>>
    BY <1>5
    DEF RunInv, RunTypes, ActorInv, HoldsLock, HasPipeline, PulledLater, TouchedLater, OwnPull
  <1>6. CASE \/ \E n \in Repos : CreateScript(n) \/ DeleteScript(n)
             \/ CreateServer \/ DeleteServer \/ UNCHANGED vars
    BY <1>5, <1>6 DEF CreateScript, DeleteScript, CreateServer, DeleteServer, vars
  <1>7. CASE \E c \in orphans : OrphanStep(c)
    <2>1. PICK c \in orphans : OrphanStep(c)
      BY <1>7
    <2>2. CASE OrphanPulls(c)
      BY <2>2, MovedKeeps DEF OrphanPulls, OrphanEnds
    <2>3. CASE OrphanClones(c) \/ OrphanRemoves(c) \/ OrphanDies(c)
      BY <1>5, <2>3 DEF OrphanClones, OrphanRemoves, OrphanDies, OrphanEnds
    <2>4. QED
      BY <2>1, <2>2, <2>3 DEF OrphanStep
  <1>8. QED
    BY <1>1, <1>2, <1>3, <1>4, <1>6, <1>7 DEF Next

LEMMA RunInvInit == Init => RunInv
  BY DEF Init, RunInv, RunTypes, ActorInv, HoldsLock, HasPipeline, PulledLater, TouchedLater,
     OwnPull,
         Labels, RunLabels

\* For every number of requests, pipelines, repositories and crashes, what a
\* run builds was moved since its own pull by pages and other pipelines only.
THEOREM RunsBuildTheirPull == Spec => []BuildsOwnPull
  <1>1. Init => RunInv
    BY RunInvInit
  <1>2. RunInv => BuildsOwnPull
    BY DEF RunInv, ActorInv, OwnPull, BuildsOwnPull
  <1>3. QED
    BY <1>1, <1>2, RunInvInductive, PTL DEF Spec

-----------------------------------------------------------------------------
(* Types of the rest.                                                      *)

FileTypes ==
  /\ place \in [Repos -> {"local", "server"}]
  /\ auth \in [Repos -> {"https", "ssh_key"}]
  /\ row \in [Repos -> {"none", "local", "server", "nowhere"}]
  /\ scripts \in [Repos -> BOOLEAN]
  /\ server \in BOOLEAN
  /\ disk \in [Repos -> {"none", "half", "cloned"}]
  /\ cloner \in [Repos -> Actors \union {NoActor}]
  /\ origin \in [Repos -> {"plain", "authed"}]
  /\ fault \in [Repos -> BOOLEAN]
  /\ leak \in [Repos -> BOOLEAN]
  /\ orphans \subseteq [repo : Repos, kind : {"clone", "pull", "rm"}]
  /\ crashes \in 0..MaxCrashes

\* An actor at work has a repository, and only a deletion has lost its row.
OnInv ==
  /\ on \in [Actors -> Repos \union {NoRepo}]
  /\ gone \in [Actors -> BOOLEAN]
  /\ \A a \in Actors : (pc[a] = "idle" <=> on[a] = NoRepo) /\ (gone[a] => pc[a] \in {"remove", "unrow"})

LEMMA AtWork ==
  ASSUME OnInv, NEW a \in Actors, Step(a)
  PROVE on[a] \in Repos /\ pc[a] # "idle"
  BY DEF OnInv, Step, CheckPath, CloneStarts, CloneRefused, CloneEnds, CloneFails, CleanUp, Insert,
     Remove, RemoveTimesOut, RemoveRow, SetUrl, Fetch, ResetUrl, AnswerLost, Unreached, PushSet, Push, PushReset, Enter,
     Build, Unlock

LEMMA RemovedTypes ==
  ASSUME FileTypes, NEW n \in Repos, Removed(n) \/ HalfRemoved(n)
  PROVE /\ disk' \in [Repos -> {"none", "half", "cloned"}]
        /\ cloner' \in [Repos -> Actors \union {NoActor}]
        /\ origin' \in [Repos -> {"plain", "authed"}]
        /\ orphans' \subseteq orphans
        /\ Removed(n) => leak' \in [Repos -> BOOLEAN]
<1>1. CASE Removed(n)
  <2>1. disk' \in [Repos -> {"none", "half", "cloned"}] /\ origin' \in [Repos -> {"plain", "authed"}]
    BY <1>1 DEF FileTypes, Removed
  <2>2. cloner' \in [Repos -> Actors \union {NoActor}] /\ leak' \in [Repos -> BOOLEAN]
    BY <1>1 DEF FileTypes, Removed
  <2>3. orphans' \subseteq orphans
    BY <1>1 DEF Removed, OrphansNotIn
  <2> QED
    BY <2>1, <2>2, <2>3
<1>2. CASE ~Removed(n) /\ HalfRemoved(n)
  BY <1>2 DEF FileTypes, HalfRemoved
<1> QED
  BY <1>1, <1>2

LEMMA OrphanTypes ==
  ASSUME NEW a \in Actors, on[a] \in Repos, NEW kind \in {"clone", "pull", "rm"}
  PROVE /\ Orphan(a, kind) \subseteq [repo : Repos, kind : {"clone", "pull", "rm"}]
        /\ \A c \in Orphan(a, kind) : c.repo = on[a] /\ c.kind = kind /\ disk[on[a]] # "none"
  BY DEF Orphan

LEMMA FileSteps ==
  ASSUME FileTypes, NEW a \in Actors, Step(a), on[a] \in Repos
  PROVE FileTypes'
<1> USE DEF FileTypes, rows, files, names, history
<1>h. Https(on[a]) \in BOOLEAN
  BY DEF Https
<1>1. CASE CheckPath(a)
  BY <1>1 DEF CheckPath
<1>2. CASE CloneStarts(a)
  BY <1>2 DEF CloneStarts
<1>3. CASE CloneRefused(a)
  BY <1>3 DEF CloneRefused
<1>4. CASE CloneEnds(a)
  BY <1>4, <1>h DEF CloneEnds
<1>5. CASE CloneFails(a)
  BY <1>5 DEF CloneFails
<1>6. CASE CleanUp(a)
  <2>1. Removed(on[a]) \/ HalfRemoved(on[a]) \/ UNCHANGED files
    BY <1>6 DEF CleanUp
  <2>2. leak' \in [Repos -> BOOLEAN] /\ fault' \in [Repos -> BOOLEAN]
    BY <1>6, RemovedTypes DEF CleanUp, Fault
  <2>3. orphans' \subseteq orphans \union Orphan(a, "rm") /\ UNCHANGED <<rows, names, crashes>>
    BY <1>6, RemovedTypes DEF CleanUp
  <2>4. orphans' \subseteq [repo : Repos, kind : {"clone", "pull", "rm"}]
    BY <2>3, OrphanTypes
  <2>5. /\ disk' \in [Repos -> {"none", "half", "cloned"}]
        /\ cloner' \in [Repos -> Actors \union {NoActor}]
        /\ origin' \in [Repos -> {"plain", "authed"}]
    BY <2>1, RemovedTypes
  <2> QED
    BY <2>2, <2>3, <2>4, <2>5
<1>7. CASE Insert(a)
  <2>1. row' \in [Repos -> {"none", "local", "server", "nowhere"}]
    BY <1>7 DEF Insert
  <2>2. fault' \in [Repos -> BOOLEAN]
    BY <1>7 DEF Insert, Fault, Local
  <2>3. UNCHANGED <<place, auth, scripts, server, disk, cloner, origin, leak, orphans, crashes>>
    BY <1>7 DEF Insert
  <2> QED
    BY <2>1, <2>2, <2>3
<1>8. CASE Remove(a)
  <2>0. Removed(on[a]) \/ (HalfRemoved(on[a]) /\ UNCHANGED leak) \/ UNCHANGED <<files, leak, orphans>>
    BY <1>8 DEF Remove
  <2>1. disk' \in [Repos -> {"none", "half", "cloned"}] /\ origin' \in [Repos -> {"plain", "authed"}]
    BY <2>0, RemovedTypes
  <2>2. /\ cloner' \in [Repos -> Actors \union {NoActor}] /\ leak' \in [Repos -> BOOLEAN]
        /\ orphans' \subseteq orphans
    BY <2>0, RemovedTypes
  <2>3. fault' \in [Repos -> BOOLEAN]
    BY <1>8 DEF Remove, Fault
  <2>4. UNCHANGED <<place, auth, row, scripts, server, crashes>>
    BY <1>8 DEF Remove
  <2> QED
    BY <2>1, <2>2, <2>3, <2>4
<1>9. CASE RemoveRow(a)
  BY <1>9 DEF RemoveRow, Fault
<1>10. CASE SetUrl(a)
  BY <1>10 DEF SetUrl
<1>11. CASE Fetch(a)
  BY <1>11 DEF Fetch
<1>12. CASE ResetUrl(a)
  BY <1>12 DEF ResetUrl
<1>13. CASE AnswerLost(a)
  <2>1. orphans' \subseteq [repo : Repos, kind : {"clone", "pull", "rm"}]
    BY <1>13, OrphanTypes DEF AnswerLost
  <2> QED
    BY <1>13, <2>1 DEF AnswerLost, Fault
<1>14. CASE PushSet(a)
  BY <1>14 DEF PushSet
<1>15. CASE Push(a)
  BY <1>15, <1>h DEF Push
<1>16. CASE PushReset(a)
  BY <1>16 DEF PushReset
<1>17. CASE Enter(a)
  BY <1>17 DEF Enter
<1>18. CASE Build(a)
  BY <1>18 DEF Build
<1>19. CASE Unlock(a)
  BY <1>19 DEF Unlock
<1>20. CASE RemoveTimesOut(a)
  <2>1. orphans' \subseteq [repo : Repos, kind : {"clone", "pull", "rm"}]
    BY <1>20, OrphanTypes DEF RemoveTimesOut
  <2> QED
    BY <1>20, <2>1 DEF RemoveTimesOut, Fault
<1>21. CASE Unreached(a)
  BY <1>21 DEF Unreached
<1> QED
  BY <1>1, <1>2, <1>3, <1>4, <1>5, <1>6, <1>7, <1>8, <1>9, <1>10, <1>11, <1>12, <1>13, <1>14,
     <1>15, <1>16, <1>17, <1>18, <1>19, <1>20, <1>21
  DEF Step

\* The actor goes on to another label, and stays where it works.
Goes(a) ==
  \E l \in Labels \ {"idle"} :
    (pc[a] \in {"remove", "unrow"} => l = "unrow") /\ Goto(a, l) /\ UNCHANGED <<on, pipe, gone>>

LEMMA GoesOrLeaves ==
  ASSUME NEW a \in Actors, Step(a)
  PROVE Leave(a) \/ Goes(a) \/ RemoveRow(a)
<1> USE DEF Goes, Labels
<1>1. CASE CheckPath(a)
  BY <1>1 DEF CheckPath
<1>2. CASE CloneStarts(a)
  BY <1>2 DEF CloneStarts
<1>3. CASE CloneRefused(a)
  BY <1>3 DEF CloneRefused
<1>4. CASE CloneEnds(a)
  BY <1>4 DEF CloneEnds
<1>5. CASE CloneFails(a)
  BY <1>5 DEF CloneFails
<1>6. CASE CleanUp(a)
  BY <1>6 DEF CleanUp
<1>7. CASE Insert(a)
  BY <1>7 DEF Insert
<1>8. CASE Remove(a)
  BY <1>8 DEF Remove
<1>9. CASE RemoveRow(a)
  BY <1>9 DEF RemoveRow
<1>10. CASE SetUrl(a)
  BY <1>10 DEF SetUrl, AfterPull
<1>11. CASE Fetch(a)
  BY <1>11 DEF Fetch
<1>12. CASE ResetUrl(a)
  BY <1>12 DEF ResetUrl, AfterPull
<1>13. CASE AnswerLost(a)
  BY <1>13 DEF AnswerLost, AfterPull
<1>14. CASE PushSet(a)
  BY <1>14 DEF PushSet
<1>15. CASE Push(a)
  BY <1>15 DEF Push
<1>16. CASE PushReset(a)
  BY <1>16 DEF PushReset
<1>17. CASE Enter(a)
  BY <1>17 DEF Enter
<1>18. CASE Build(a)
  BY <1>18 DEF Build
<1>19. CASE Unlock(a)
  BY <1>19 DEF Unlock
<1>20. CASE RemoveTimesOut(a)
  BY <1>20 DEF RemoveTimesOut
<1>21. CASE Unreached(a)
  BY <1>21 DEF Unreached, AfterPull
<1> QED
  BY <1>1, <1>2, <1>3, <1>4, <1>5, <1>6, <1>7, <1>8, <1>9, <1>10, <1>11, <1>12, <1>13, <1>14,
     <1>15, <1>16, <1>17, <1>18, <1>19, <1>20, <1>21
  DEF Step

LEMMA OnSteps ==
  ASSUME OnInv, RunTypes, NEW a \in Actors, Step(a), on[a] \in Repos
  PROVE OnInv'
<1>1. CASE Leave(a)
  BY <1>1 DEF Leave, Goto, OnInv, RunTypes
<1>2. CASE Goes(a)
  <2>1. PICK l \in Labels \ {"idle"} :
          (pc[a] \in {"remove", "unrow"} => l = "unrow") /\ Goto(a, l) /\ UNCHANGED <<on, pipe, gone>>
    BY <1>2 DEF Goes
  <2> QED
    BY <2>1, ReposAssumption DEF Goto, OnInv, RunTypes
<1>3. CASE RemoveRow(a)
  <2>1. pc' = [pc EXCEPT ![a] = "idle"] /\ on' = [on EXCEPT ![a] = NoRepo]
    BY <1>3 DEF RemoveRow, Goto
  <2>2. /\ gone' \in [Actors -> BOOLEAN] /\ gone'[a] = FALSE
        /\ \A b \in Actors : gone'[b] => pc[b] \in {"remove", "unrow"}
    BY <1>3 DEF RemoveRow, Busy, OnInv
  <2> QED
    BY <2>1, <2>2, ReposAssumption DEF OnInv, RunTypes
<1> QED
  BY <1>1, <1>2, <1>3, GoesOrLeaves

-----------------------------------------------------------------------------
(* The credential.                                                         *)

\* An actor that is at work in the checkout and may have put the credential
\* into its URL.
UrlLabels == {"cloning", "cleanup", "fetch", "reset", "push", "pushreset"}

CredInv ==
  \A n \in Repos : origin[n] = "authed" =>
     Https(n) /\ (leak[n] = TRUE \/ \E b \in Actors : Busy(b, n) /\ pc[b] \in UrlLabels)

Types == RunTypes /\ FileTypes /\ OnInv

\* What leaves the credential where it is, is remembered by leak.
LEMMA LeakStep ==
  ASSUME Types, CredInv, NEW a \in Actors, on[a] \in Repos,
         leak' = [leak EXCEPT ![on[a]] = origin[on[a]] = "authed"],
         UNCHANGED <<origin, auth>>, \A b \in Actors \ {a} : pc'[b] = pc[b] /\ on'[b] = on[b]
  PROVE CredInv'
<1>1. ASSUME NEW n \in Repos, origin[n] = "authed"
      PROVE leak'[n] = TRUE \/ \E b \in Actors \ {a} : Busy(b, n) /\ pc[b] \in UrlLabels
  <2>1. CASE n = on[a]
    <3>1. leak'[n] = (origin[n] = "authed")
      BY <2>1 DEF Types, FileTypes
    <3> QED
      BY <1>1, <3>1
  <2>2. CASE n # on[a]
    <3>1. leak'[n] = leak[n]
      BY <2>2 DEF Types, FileTypes
    <3> QED
      BY <1>1, <2>2, <3>1 DEF CredInv, Busy
  <2> QED
    BY <2>1, <2>2
<1>2. ASSUME NEW n \in Repos, NEW b \in Actors \ {a}, Busy(b, n), pc[b] \in UrlLabels
      PROVE Busy(b, n)' /\ pc'[b] \in UrlLabels
  BY <1>2 DEF Busy
<1>3. \A n \in Repos : (origin'[n] = "authed" <=> origin[n] = "authed") /\ (Https(n)' <=> Https(n))
  BY DEF Https
<1> QED
  BY <1>1, <1>2, <1>3 DEF CredInv

LEMMA CredStep ==
  ASSUME Types, CredInv, NEW a \in Actors, Step(a)
  PROVE CredInv'
<1>a. on[a] \in Repos
  BY AtWork DEF Types
<1> USE <1>a DEF Types, RunTypes, FileTypes, OnInv, CredInv, Https, Busy, UrlLabels, Leave, Goto,
        rows, files, names, history
<1>1. CASE CheckPath(a)
  BY <1>1 DEF CheckPath
<1>2. CASE CloneStarts(a)
  BY <1>2 DEF CloneStarts
<1>3. CASE CloneRefused(a)
  BY <1>3 DEF CloneRefused
<1>4. CASE CloneEnds(a)
  <2>1. \A b \in Actors \ {a} : pc'[b] = pc[b] /\ on'[b] = on[b]
    BY <1>4 DEF CloneEnds
  <2>2. UNCHANGED <<origin, auth>> /\ leak' = [leak EXCEPT ![on[a]] = origin[on[a]] = "authed"]
    BY <1>4 DEF CloneEnds
  <2> HIDE DEF Types, CredInv, Https
  <2> QED
    BY <2>1, <2>2, LeakStep
<1>5. CASE CloneFails(a)
  BY <1>5 DEF CloneFails
<1>6. CASE CleanUp(a)
  <2>1. CASE Removed(on[a])
    BY <1>6, <2>1 DEF CleanUp, Removed
  <2>2. CASE ~Removed(on[a])
    <3>1. UNCHANGED <<origin, auth>> /\ leak' = [leak EXCEPT ![on[a]] = origin[on[a]] = "authed"]
      BY <1>6, <2>2 DEF CleanUp, HalfRemoved
    <3>2. \A b \in Actors \ {a} : pc'[b] = pc[b] /\ on'[b] = on[b]
      BY <1>6 DEF CleanUp
    <3> HIDE DEF Types, CredInv, Https
    <3> QED
      BY <3>1, <3>2, LeakStep
  <2> QED
    BY <2>1, <2>2
<1>7. CASE Insert(a)
  BY <1>7 DEF Insert, Fault
<1>8. CASE Remove(a)
  BY <1>8 DEF Remove, Fault, Removed, HalfRemoved
<1>9. CASE RemoveRow(a)
  BY <1>9 DEF RemoveRow, Fault
<1>10. CASE SetUrl(a)
  BY <1>10 DEF SetUrl, AfterPull
<1>11. CASE Fetch(a)
  BY <1>11 DEF Fetch
<1>12. CASE ResetUrl(a)
  BY <1>12 DEF ResetUrl, AfterPull
<1>13. CASE AnswerLost(a)
  <2>1. UNCHANGED <<origin, auth>> /\ leak' = [leak EXCEPT ![on[a]] = origin[on[a]] = "authed"]
    BY <1>13 DEF AnswerLost
  <2>2. \A b \in Actors \ {a} : pc'[b] = pc[b] /\ on'[b] = on[b]
    BY <1>13 DEF AnswerLost, AfterPull
  <2> HIDE DEF Types, CredInv, Https
  <2> QED
    BY <2>1, <2>2, LeakStep
<1>14. CASE PushSet(a)
  BY <1>14 DEF PushSet
<1>15. CASE Push(a)
  <2>1. CASE Goto(a, "pushreset") /\ UNCHANGED <<on, leak>>
    BY <1>15, <2>1 DEF Push
  <2>2. CASE Leave(a) /\ leak' = [leak EXCEPT ![on[a]] = origin[on[a]] = "authed"]
    <3>1. UNCHANGED <<origin, auth>> /\ \A b \in Actors \ {a} : pc'[b] = pc[b] /\ on'[b] = on[b]
      BY <1>15, <2>2 DEF Push
    <3> HIDE DEF Types, CredInv, Https
    <3> QED
      BY <2>2, <3>1, LeakStep
  <2> QED
    BY <1>15, <2>1, <2>2 DEF Push
<1>16. CASE PushReset(a)
  BY <1>16 DEF PushReset
<1>17. CASE Enter(a)
  BY <1>17 DEF Enter
<1>18. CASE Build(a)
  BY <1>18 DEF Build
<1>19. CASE Unlock(a)
  BY <1>19 DEF Unlock
<1>20. CASE RemoveTimesOut(a)
  BY <1>20 DEF RemoveTimesOut
<1>21. CASE Unreached(a)
  BY <1>21 DEF Unreached, AfterPull
<1> QED
  BY <1>1, <1>2, <1>3, <1>4, <1>5, <1>6, <1>7, <1>8, <1>9, <1>10, <1>11, <1>12, <1>13, <1>14,
     <1>15, <1>16, <1>17, <1>18, <1>19, <1>20, <1>21
  DEF Step

-----------------------------------------------------------------------------
(* Rows and checkouts.                                                     *)

At(n, l) == \E b \in Actors : on[b] = n /\ pc[b] = l

\* A directory is being filled by a clone into it.
ClonerInv ==
  \A n \in Repos : cloner[n] # NoActor => pc[cloner[n]] = "cloning" /\ on[cloner[n]] = n

\* A deletion that has not lost its row has one.
DeletesInv ==
  \A b \in Actors : pc[b] \in {"remove", "unrow"} /\ gone[b] = FALSE => row[on[b]] # "none"

\* Without a fault, a row without its checkout is being deleted, a checkout
\* without a row is about to get one, and a part of a checkout is being
\* cloned or cleaned up.  A deletion that has removed the files and has its row
\* finds a checkout only where a registration is about to fail.
RowInv ==
  \A n \in Repos : fault[n] = FALSE =>
     /\ row[n] # "nowhere"
     /\ Placed(n) /\ disk[n] # "cloned" => At(n, "unrow")
     /\ disk[n] = "cloned" /\ ~Placed(n) => At(n, "insert")
     /\ At(n, "insert") => disk[n] = "cloned"
     /\ disk[n] = "cloned" /\ (\E b \in Actors : on[b] = n /\ pc[b] = "unrow" /\ gone[b] = FALSE) =>
          At(n, "insert")
     /\ disk[n] = "half" => cloner[n] # NoActor \/ At(n, "cleanup")

\* A clone that goes on with nobody waiting, or a removal, is a fault that
\* lasts: the directory is there, so no registration starts anew.
OrphanInv ==
  \A c \in orphans : c.kind # "pull" => fault[c.repo] = TRUE /\ disk[c.repo] # "none"

\* A fault that an action may add.
LEMMA FaultOr ==
  ASSUME FileTypes, NEW n \in Repos, NEW P \in BOOLEAN, fault' = [fault EXCEPT ![n] = @ \/ P]
  PROVE /\ fault'[n] = FALSE => fault[n] = FALSE /\ P = FALSE
        /\ \A m \in Repos \ {n} : fault'[m] = fault[m]
<1>1. fault'[n] = (fault[n] \/ P) /\ fault[n] \in BOOLEAN
  BY DEF FileTypes
<1>2. CASE fault[n] = TRUE
  BY <1>1, <1>2 DEF FileTypes
<1>3. CASE fault[n] = FALSE /\ P = TRUE
  BY <1>1, <1>3 DEF FileTypes
<1>4. CASE fault[n] = FALSE /\ P = FALSE
  BY <1>4 DEF FileTypes
<1> QED
  BY <1>1, <1>2, <1>3, <1>4

\* Most steps touch neither rows nor checkouts, and are no witness for one.
Quiet(a) ==
  /\ UNCHANGED <<row, disk, cloner, fault, orphans>>
  /\ pc[a] \notin {"cloning", "cleanup", "insert", "remove", "unrow"}
  /\ pc'[a] \notin {"cloning", "insert", "remove", "unrow"}
  /\ \A b \in Actors \ {a} : pc'[b] = pc[b] /\ on'[b] = on[b] /\ gone'[b] = gone[b]

LEMMA QuietSteps ==
  ASSUME Types, NEW a \in Actors,
         \/ CheckPath(a) \/ CloneRefused(a) \/ Unreached(a) \/ SetUrl(a) \/ Fetch(a) \/ ResetUrl(a)
         \/ PushSet(a) \/ Push(a) \/ PushReset(a) \/ Enter(a) \/ Build(a) \/ Unlock(a)
  PROVE Quiet(a)
<1> USE DEF Types, RunTypes, OnInv, Quiet, Leave, Goto, rows, files, names, history
<1>1. CASE CheckPath(a) \/ CloneRefused(a) \/ Unreached(a)
  BY <1>1 DEF CheckPath, CloneRefused, Unreached, AfterPull
<1>2. CASE SetUrl(a) \/ Fetch(a) \/ ResetUrl(a)
  BY <1>2 DEF SetUrl, Fetch, ResetUrl, AfterPull
<1>3. CASE PushSet(a) \/ Push(a) \/ PushReset(a)
  BY <1>3 DEF PushSet, Push, PushReset
<1>4. CASE Enter(a) \/ Build(a) \/ Unlock(a)
  BY <1>4 DEF Enter, Build, Unlock
<1> QED
  BY <1>1, <1>2, <1>3, <1>4

LEMMA ClonerStep ==
  ASSUME Types, ClonerInv, NEW a \in Actors, Step(a)
  PROVE ClonerInv'
<1>a. on[a] \in Repos
  BY AtWork DEF Types
<1> USE <1>a, ActorsAssumption DEF Types, RunTypes, FileTypes, OnInv, ClonerInv, Leave, Goto, rows,
        files, names
<1>1. CASE Quiet(a)
  BY <1>1 DEF Quiet
<1>2. CASE CloneStarts(a)
  BY <1>2 DEF CloneStarts
<1>3. CASE CloneEnds(a)
  BY <1>3 DEF CloneEnds
<1>4. CASE CloneFails(a)
  BY <1>4 DEF CloneFails
<1>5. CASE CleanUp(a)
  BY <1>5 DEF CleanUp, Removed, HalfRemoved
<1>6. CASE Insert(a)
  BY <1>6 DEF Insert, Fault
<1>7. CASE Remove(a)
  BY <1>7 DEF Remove, Removed, HalfRemoved
<1>8. CASE RemoveRow(a)
  BY <1>8 DEF RemoveRow, Fault
<1>9. CASE AnswerLost(a)
  BY <1>9 DEF AnswerLost, AfterPull, Fault
<1>10. CASE RemoveTimesOut(a)
  BY <1>10 DEF RemoveTimesOut
<1> QED
  BY <1>1, <1>2, <1>3, <1>4, <1>5, <1>6, <1>7, <1>8, <1>9, <1>10, QuietSteps DEF Step

LEMMA DeletesStep ==
  ASSUME Types, DeletesInv, NEW a \in Actors, Step(a)
  PROVE DeletesInv'
<1>a. on[a] \in Repos
  BY AtWork DEF Types
<1> USE <1>a DEF Types, RunTypes, FileTypes, OnInv, DeletesInv, Leave, Goto, Busy, rows, files,
        names
<1>1. CASE Quiet(a)
  BY <1>1 DEF Quiet
<1>2. CASE CloneStarts(a)
  BY <1>2 DEF CloneStarts
<1>3. CASE CloneEnds(a)
  BY <1>3 DEF CloneEnds
<1>4. CASE CloneFails(a)
  BY <1>4 DEF CloneFails
<1>5. CASE CleanUp(a)
  BY <1>5 DEF CleanUp, Removed, HalfRemoved
<1>6. CASE Insert(a)
  BY <1>6 DEF Insert, Fault
<1>7. CASE Remove(a)
  BY <1>7 DEF Remove, Removed, HalfRemoved
<1>8. CASE RemoveRow(a)
  <2>1. CASE /\ row' = [row EXCEPT ![on[a]] = "none"]
             /\ gone' = [b \in Actors |-> b # a /\ (gone[b] \/ (Busy(b, on[a]) /\ pc[b] \in {"remove", "unrow"}))]
    <3>1. \A b \in Actors \ {a} :
            gone'[b] = FALSE => gone[b] = FALSE /\ ~(on[b] = on[a] /\ pc[b] \in {"remove", "unrow"})
      BY <2>1
    <3>2. \A b \in Actors \ {a} : pc'[b] = pc[b] /\ on'[b] = on[b]
      BY <1>8 DEF RemoveRow
    <3>3. pc'[a] = "idle"
      BY <1>8 DEF RemoveRow
    <3> QED
      BY <2>1, <3>1, <3>2, <3>3
  <2>2. CASE row' = row /\ gone' = [gone EXCEPT ![a] = FALSE]
    BY <1>8, <2>2 DEF RemoveRow
  <2> QED
    BY <1>8, <2>1, <2>2 DEF RemoveRow
<1>9. CASE AnswerLost(a)
  BY <1>9 DEF AnswerLost, AfterPull, Fault
<1>10. CASE RemoveTimesOut(a)
  BY <1>10 DEF RemoveTimesOut
<1> QED
  BY <1>1, <1>2, <1>3, <1>4, <1>5, <1>6, <1>7, <1>8, <1>9, <1>10, QuietSteps DEF Step

\* Others are where they were.
LEMMA LeaveOthers ==
  ASSUME Types, NEW a \in Actors, Leave(a)
  PROVE /\ pc'[a] = "idle" /\ on'[a] = NoRepo
        /\ \A b \in Actors \ {a} : pc'[b] = pc[b] /\ on'[b] = on[b] /\ gone'[b] = gone[b]
  BY DEF Types, RunTypes, OnInv, Leave, Goto

LEMMA CleanUpRows ==
  ASSUME Types, ClonerInv, RowInv, NEW a \in Actors, CleanUp(a), on[a] \in Repos
  PROVE RowInv'
<1> DEFINE P == disk[on[a]] = "cloned" \/ cloner[on[a]] # NoActor
<1>1. /\ pc[a] = "cleanup" /\ pc'[a] = "idle" /\ row' = row
      /\ \A b \in Actors \ {a} : pc'[b] = pc[b] /\ on'[b] = on[b] /\ gone'[b] = gone[b]
  BY LeaveOthers DEF CleanUp, rows
<1>2. CASE Removed(on[a]) /\ fault' = [fault EXCEPT ![on[a]] = @ \/ P]
  <2>1. /\ fault'[on[a]] = FALSE => fault[on[a]] = FALSE /\ P = FALSE
        /\ \A m \in Repos \ {on[a]} : fault'[m] = fault[m]
    <3>1. P \in BOOLEAN
      OBVIOUS
    <3> HIDE DEF P
    <3> QED
      BY <1>2, <3>1, FaultOr DEF Types
  <2>2. disk' = [disk EXCEPT ![on[a]] = "none"] /\ cloner' = [cloner EXCEPT ![on[a]] = NoActor]
    BY <1>2 DEF Removed
  <2> QED
    BY <1>1, <2>1, <2>2, ReposAssumption DEF Types, FileTypes, OnInv, RowInv, At, Placed
<1>3. CASE Fault(on[a]) /\ (HalfRemoved(on[a]) \/ UNCHANGED files)
  <2>1. \A m \in Repos \ {on[a]} : disk'[m] = disk[m] /\ cloner'[m] = cloner[m] /\ fault'[m] = fault[m]
    BY <1>3 DEF Fault, HalfRemoved, files, Types, FileTypes
  <2>2. fault'[on[a]] = TRUE
    BY <1>3 DEF Fault, Types, FileTypes
  <2> QED
    BY <1>1, <2>1, <2>2, ReposAssumption DEF Types, FileTypes, OnInv, RowInv, At, Placed
<1> QED
  BY <1>2, <1>3 DEF CleanUp, files

LEMMA InsertRows ==
  ASSUME Types, DeletesInv, RowInv, NEW a \in Actors, Insert(a), on[a] \in Repos
  PROVE RowInv'
<1>1. /\ pc[a] = "insert" /\ pc'[a] = "idle" /\ UNCHANGED <<disk, cloner>>
      /\ \A b \in Actors \ {a} : pc'[b] = pc[b] /\ on'[b] = on[b] /\ gone'[b] = gone[b]
  BY LeaveOthers DEF Insert, files
<1>2. CASE row[on[a]] = "none"
  <2> DEFINE P == ~Local(on[a]) /\ ~server
  <2>1. fault' = [fault EXCEPT ![on[a]] = @ \/ P] /\ P \in BOOLEAN
    BY <1>2 DEF Insert
  <2>2. /\ fault'[on[a]] = FALSE => fault[on[a]] = FALSE /\ P = FALSE
        /\ \A m \in Repos \ {on[a]} : fault'[m] = fault[m]
    <3> HIDE DEF P
    <3> QED
      BY <2>1, FaultOr DEF Types
  <2>3. ~P => row' = [row EXCEPT ![on[a]] = IF Local(on[a]) THEN "local" ELSE "server"]
    BY <1>2 DEF Insert
  <2>4. \A m \in Repos \ {on[a]} : row'[m] = row[m]
    BY <1>2 DEF Insert, Types, FileTypes
  <2>5. fault'[on[a]] = FALSE => row'[on[a]] \in {"local", "server"}
    BY <2>2, <2>3 DEF Types, FileTypes
  <2> HIDE DEF P
  <2> QED
    BY <1>1, <1>2, <2>2, <2>4, <2>5, ReposAssumption
    DEF Types, FileTypes, OnInv, RowInv, At, Placed, DeletesInv
<1>3. CASE row[on[a]] # "none"
  <2>1. row' = row /\ fault' = [fault EXCEPT ![on[a]] = TRUE]
    BY <1>3 DEF Insert, Fault
  <2> QED
    BY <1>1, <2>1, ReposAssumption DEF Types, FileTypes, OnInv, RowInv, At, Placed
<1> QED
  BY <1>2, <1>3

LEMMA RemoveRows ==
  ASSUME Types, DeletesInv, RowInv, NEW a \in Actors, Remove(a), on[a] \in Repos
  PROVE RowInv'
<1> DEFINE P == gone[a] \/ \E b \in Actors : Busy(b, on[a]) /\ pc[b] \in {"cloning", "insert"}
<1>1. pc[a] = "remove" /\ row' = row /\ UNCHANGED <<on, gone>> /\ pc' = [pc EXCEPT ![a] = "unrow"]
  BY DEF Remove, Goto, rows
<1>2. CASE Fault(on[a]) /\ (HalfRemoved(on[a]) \/ UNCHANGED <<disk, cloner>>)
  <2>1. \A m \in Repos \ {on[a]} : disk'[m] = disk[m] /\ cloner'[m] = cloner[m] /\ fault'[m] = fault[m]
    BY <1>2 DEF Fault, HalfRemoved, Types, FileTypes
  <2>2. fault'[on[a]] = TRUE
    BY <1>2 DEF Fault, Types, FileTypes
  <2> QED
    BY <1>1, <2>1, <2>2, ReposAssumption DEF Types, RunTypes, FileTypes, OnInv, RowInv, At, Placed
<1>3. CASE /\ fault' = [fault EXCEPT ![on[a]] = @ \/ P]
           /\ disk' = [disk EXCEPT ![on[a]] = "none"] /\ cloner' = [cloner EXCEPT ![on[a]] = NoActor]
  <2>1. P \in BOOLEAN
    BY DEF Types, OnInv
  <2>2. /\ fault'[on[a]] = FALSE => fault[on[a]] = FALSE /\ P = FALSE
        /\ \A m \in Repos \ {on[a]} : fault'[m] = fault[m]
    <3> HIDE DEF P
    <3> QED
      BY <1>3, <2>1, FaultOr DEF Types
  <2> QED
    BY <1>1, <1>3, <2>2, ReposAssumption
    DEF Types, RunTypes, FileTypes, OnInv, RowInv, At, Placed, Busy
<1> QED
  BY <1>2, <1>3 DEF Remove, Removed, files

LEMMA RowStep ==
  ASSUME Types, ClonerInv, DeletesInv, RowInv, NEW a \in Actors, Step(a)
  PROVE RowInv'
<1>a. on[a] \in Repos
  BY AtWork DEF Types
<1> USE <1>a, ActorsAssumption DEF Types, RunTypes, FileTypes, OnInv, ClonerInv, DeletesInv,
        RowInv, At, Placed, Local, Leave, Goto, Busy, rows, files, names, history
<1>1. CASE Quiet(a)
  <2>1. \A n \in Repos : /\ At(n, "unrow")' <=> At(n, "unrow")
                         /\ At(n, "insert")' <=> At(n, "insert")
                         /\ At(n, "cleanup") => At(n, "cleanup")'
    BY <1>1 DEF Quiet
  <2>2. \A n \in Repos : (\E b \in Actors : on'[b] = n /\ pc'[b] = "unrow" /\ gone'[b] = FALSE) =>
                          \E b \in Actors : on[b] = n /\ pc[b] = "unrow" /\ gone[b] = FALSE
    BY <1>1 DEF Quiet
  <2> HIDE DEF At
  <2> QED
    BY <1>1, <2>1, <2>2 DEF Quiet
<1>2. CASE CloneStarts(a)
  BY <1>2 DEF CloneStarts
<1>3. CASE CloneEnds(a)
  BY <1>3 DEF CloneEnds
<1>4. CASE CloneFails(a)
  BY <1>4 DEF CloneFails
<1>5. CASE CleanUp(a)
  BY <1>5, CleanUpRows
<1>6. CASE Insert(a)
  BY <1>6, InsertRows
<1>7. CASE Remove(a)
  BY <1>7, RemoveRows
<1>8. CASE RemoveRow(a)
  BY <1>8 DEF RemoveRow, Fault
<1>9. CASE AnswerLost(a)
  <2>1. /\ pc[a] \in {"cloning", "fetch", "reset"} /\ UNCHANGED <<row, disk>>
        /\ cloner' = [m \in Repos |-> IF cloner[m] = a THEN NoActor ELSE cloner[m]]
    BY <1>9 DEF AnswerLost
  <2>2. pc[a] = "cloning" => fault' = [fault EXCEPT ![on[a]] = TRUE]
    BY <1>9 DEF AnswerLost, Fault
  <2>3. pc[a] # "cloning" => fault' = fault
    BY <1>9 DEF AnswerLost
  <2>4. Leave(a) \/ ((\E l \in {"build", "unlock"} : Goto(a, l)) /\ UNCHANGED <<on, gone>>)
    BY <1>9 DEF AnswerLost, AfterPull
  <2>5. \A b \in Actors : b # a => on'[b] = on[b] /\ pc'[b] = pc[b] /\ gone'[b] = gone[b]
    BY <2>4
  <2>6. pc'[a] \in {"idle", "build", "unlock"}
    BY <2>4
  <2>7. ASSUME NEW m \in Repos, fault'[m] = FALSE
        PROVE  fault[m] = FALSE /\ cloner'[m] = cloner[m]
    <3>1. CASE pc[a] = "cloning"
      BY <2>1, <2>2, <2>7, <3>1
    <3>2. CASE pc[a] # "cloning"
      BY <2>1, <2>3, <2>7, <3>2
    <3> QED
      BY <2>1, <3>1, <3>2
  <2>8. ASSUME NEW m \in Repos, NEW l \in {"unrow", "insert", "cleanup"}
        PROVE  At(m, l)' <=> At(m, l)
    BY <2>1, <2>5, <2>6, <2>8
  <2>9. ASSUME NEW m \in Repos
        PROVE  (\E b \in Actors : on'[b] = m /\ pc'[b] = "unrow" /\ gone'[b] = FALSE) =>
                 \E b \in Actors : on[b] = m /\ pc[b] = "unrow" /\ gone[b] = FALSE
    BY <2>5, <2>6, <2>9
  <2>10. RowInv
    OBVIOUS
  <2> HIDE DEF At, Types, RunTypes, FileTypes, OnInv, ClonerInv, DeletesInv, RowInv, Leave, Goto
  <2> QED
    BY <2>1, <2>7, <2>8, <2>9, <2>10 DEF RowInv, Placed
<1>10. CASE RemoveTimesOut(a)
  BY <1>10 DEF RemoveTimesOut, Fault
<1> QED
  BY <1>1, <1>2, <1>3, <1>4, <1>5, <1>6, <1>7, <1>8, <1>9, <1>10, QuietSteps DEF Step

\* A directory that is removed takes its orphans with it, and another change of
\* it leaves it there.
LEMMA RemovedOrphans ==
  ASSUME FileTypes, OrphanInv, NEW n \in Repos, Removed(n) \/ HalfRemoved(n),
         \A m \in Repos : fault[m] = TRUE => fault'[m] = TRUE
  PROVE OrphanInv'
<1>1. CASE Removed(n)
  BY <1>1 DEF FileTypes, OrphanInv, Removed, OrphansNotIn
<1>2. CASE HalfRemoved(n)
  BY <1>2 DEF FileTypes, OrphanInv, HalfRemoved
<1> QED
  BY <1>1, <1>2

\* The orphans a step may add are faults of the step.
LEMMA AddedOrphans ==
  ASSUME FileTypes, OrphanInv, NEW a \in Actors, on[a] \in Repos, NEW kind \in {"clone", "pull", "rm"},
         orphans' \subseteq orphans \union Orphan(a, kind), disk' = disk,
         kind # "pull" => fault'[on[a]] = TRUE,
         \A m \in Repos : fault[m] = TRUE => fault'[m] = TRUE
  PROVE OrphanInv'
<1>1. ASSUME NEW c \in orphans'
      PROVE c.repo \in Repos /\ (c \in orphans \/ (c.repo = on[a] /\ c.kind = kind /\ disk[on[a]] # "none"))
  BY <1>1, OrphanTypes DEF FileTypes
<1> QED
  BY <1>1 DEF OrphanInv

LEMMA FaultsStay ==
  ASSUME FileTypes, NEW a \in Actors, Step(a), on[a] \in Repos
  PROVE \A m \in Repos : fault[m] = TRUE => fault'[m] = TRUE
<1> DEFINE Stays == \A m \in Repos : fault[m] = TRUE => fault'[m] = TRUE
<1>0. fault' = fault \/ Fault(on[a]) => Stays
  BY DEF FileTypes, Fault
<1>2. CASE CleanUp(a)
  <2> DEFINE P == disk[on[a]] = "cloned" \/ cloner[on[a]] # NoActor
  <2>1. Fault(on[a]) \/ fault' = [fault EXCEPT ![on[a]] = @ \/ P]
    BY <1>2 DEF CleanUp
  <2> QED
    BY <1>0, <2>1 DEF FileTypes
<1>3. CASE Insert(a)
  <2> DEFINE P == ~Local(on[a]) /\ ~server
  <2>1. Fault(on[a]) \/ fault' = [fault EXCEPT ![on[a]] = @ \/ P]
    BY <1>3 DEF Insert
  <2> QED
    BY <1>0, <2>1 DEF FileTypes
<1>4. CASE Remove(a)
  <2> DEFINE P == gone[a] \/ \E b \in Actors : Busy(b, on[a]) /\ pc[b] \in {"cloning", "insert"}
  <2>1. Fault(on[a]) \/ fault' = [fault EXCEPT ![on[a]] = @ \/ P]
    BY <1>4 DEF Remove
  <2> QED
    BY <1>0, <2>1 DEF FileTypes
<1>5. CASE RemoveRow(a)
  <2> DEFINE P == gone[a] /\ row[on[a]] # "none"
  <2>1. Fault(on[a]) \/ fault' = [fault EXCEPT ![on[a]] = @ \/ P]
    BY <1>5 DEF RemoveRow
  <2> QED
    BY <1>0, <2>1 DEF FileTypes
<1>6. CASE AnswerLost(a) \/ RemoveTimesOut(a)
  BY <1>0, <1>6 DEF AnswerLost, RemoveTimesOut
<1>7. CASE fault' = fault
  BY <1>0, <1>7
<1> QED
  BY <1>2, <1>3, <1>4, <1>5, <1>6, <1>7
  DEF Step, CheckPath, CloneStarts, CloneRefused, CloneEnds, CloneFails, SetUrl, Fetch, ResetUrl,
      Unreached, PushSet, Push, PushReset, Enter, Build, Unlock, history

LEMMA OrphanStepInv ==
  ASSUME Types, OrphanInv, NEW a \in Actors, Step(a)
  PROVE OrphanInv'
<1>a. on[a] \in Repos /\ FileTypes
  BY AtWork DEF Types
<1>b. \A m \in Repos : fault[m] = TRUE => fault'[m] = TRUE
  BY <1>a, FaultsStay
<1>1. CASE orphans' = orphans /\ \A m \in Repos : disk[m] # "none" => disk'[m] # "none"
  BY <1>a, <1>b, <1>1 DEF OrphanInv, FileTypes
<1>2. CASE Quiet(a) \/ Insert(a) \/ RemoveRow(a) \/ CloneFails(a)
  <2>1. orphans' = orphans /\ disk' = disk
    BY <1>2 DEF Quiet, Insert, RemoveRow, CloneFails, files
  <2> QED
    BY <1>1, <2>1
<1>3. CASE CloneStarts(a) \/ CloneEnds(a)
  BY <1>a, <1>1, <1>3 DEF CloneStarts, CloneEnds, FileTypes
<1>4. CASE CleanUp(a)
  <2>1. CASE Removed(on[a]) \/ HalfRemoved(on[a])
    BY <1>a, <1>b, <2>1, RemovedOrphans
  <2>2. CASE ~Removed(on[a]) /\ ~HalfRemoved(on[a])
    <3>1. Fault(on[a]) /\ disk' = disk /\ orphans' \subseteq orphans \union Orphan(a, "rm")
      BY <1>4, <2>2 DEF CleanUp, files
    <3>2. fault'[on[a]] = TRUE
      BY <1>a, <3>1 DEF Fault, FileTypes
    <3> QED
      BY <1>a, <1>b, <3>1, <3>2, AddedOrphans
  <2> QED
    BY <2>1, <2>2
<1>5. CASE Remove(a)
  <2>1. Removed(on[a]) \/ HalfRemoved(on[a]) \/ (orphans' = orphans /\ disk' = disk)
    BY <1>5 DEF Remove, files
  <2> QED
    BY <1>a, <1>b, <1>1, <2>1, RemovedOrphans
<1>6. CASE RemoveTimesOut(a)
  <2>1. Fault(on[a]) /\ disk' = disk /\ orphans' \subseteq orphans \union Orphan(a, "rm")
    BY <1>6 DEF RemoveTimesOut, files
  <2>2. fault'[on[a]] = TRUE
    BY <1>a, <2>1 DEF Fault, FileTypes
  <2> QED
    BY <1>a, <1>b, <2>1, <2>2, AddedOrphans
<1>7. CASE AnswerLost(a)
  <2>1. CASE pc[a] = "cloning"
    <3>1. Fault(on[a]) /\ disk' = disk /\ orphans' \subseteq orphans \union Orphan(a, "clone")
      BY <1>7, <2>1 DEF AnswerLost
    <3>2. fault'[on[a]] = TRUE
      BY <1>a, <3>1 DEF Fault, FileTypes
    <3> QED
      BY <1>a, <1>b, <3>1, <3>2, AddedOrphans
  <2>2. CASE pc[a] # "cloning"
    <3>1. disk' = disk /\ orphans' \subseteq orphans \union Orphan(a, "pull")
      BY <1>7, <2>2 DEF AnswerLost
    <3> QED
      BY <1>a, <1>b, <3>1, AddedOrphans
  <2> QED
    BY <2>1, <2>2
<1> QED
  BY <1>2, <1>3, <1>4, <1>5, <1>6, <1>7, QuietSteps DEF Step

DiskInv == FileTypes /\ OnInv /\ CredInv /\ ClonerInv /\ DeletesInv /\ RowInv /\ OrphanInv

\* What goes on with nobody waiting.
LEMMA OrphansDisk ==
  ASSUME RunTypes, DiskInv, NEW c \in orphans, OrphanStep(c)
  PROVE DiskInv'
<1>1. c.repo \in Repos /\ (c.kind # "pull" => fault[c.repo] = TRUE)
  BY DEF DiskInv, FileTypes, OrphanInv
<1>2. UNCHANGED <<rows, pc, on, gone, fault, names, crashes>>
  BY DEF OrphanStep, OrphanClones, OrphanPulls, OrphanRemoves, OrphanDies, OrphanEnds
<1>3. /\ disk' \in [Repos -> {"none", "half", "cloned"}]
      /\ cloner' \in [Repos -> Actors \union {NoActor}]
      /\ origin' \in [Repos -> {"plain", "authed"}]
      /\ leak' \in [Repos -> BOOLEAN]
      /\ orphans' \subseteq orphans
      /\ \A m \in Repos : cloner'[m] = cloner[m] \/ cloner'[m] = NoActor
      /\ \A m \in Repos : fault[m] = FALSE => disk'[m] = disk[m] /\ cloner'[m] = cloner[m]
      /\ \A m \in Repos : (origin'[m] = origin[m] /\ leak'[m] = leak[m]) \/ origin'[m] = "plain"
      /\ \A d \in orphans' : disk[d.repo] # "none" => disk'[d.repo] # "none"
  <2> USE <1>1 DEF DiskInv, FileTypes
  <2>1. CASE OrphanClones(c)
    BY <2>1 DEF OrphanClones, OrphanEnds
  <2>2. CASE OrphanPulls(c)
    BY <2>2 DEF OrphanPulls, OrphanEnds
  <2>3. CASE OrphanRemoves(c)
    BY <2>3 DEF OrphanRemoves, Removed, OrphansNotIn
  <2>4. CASE OrphanDies(c)
    BY <2>4 DEF OrphanDies, OrphanEnds, files
  <2> QED
    BY <2>1, <2>2, <2>3, <2>4 DEF OrphanStep
<1>4. FileTypes' /\ OnInv' /\ DeletesInv'
  BY <1>2, <1>3 DEF DiskInv, FileTypes, OnInv, DeletesInv, rows, names
<1>5. CredInv' /\ ClonerInv'
  BY <1>2, <1>3 DEF DiskInv, CredInv, ClonerInv, Https, Busy, names
<1>6. RowInv' /\ OrphanInv'
  BY <1>2, <1>3 DEF DiskInv, FileTypes, RowInv, OrphanInv, At, Placed, rows
<1> QED
  BY <1>4, <1>5, <1>6 DEF DiskInv

LEMMA BeginDisk ==
  ASSUME RunTypes, DiskInv, NEW a \in Actors, NEW n \in Repos, BeginAny(a, n)
  PROVE DiskInv'
<1>1. PICK l \in Labels \ {"idle", "unrow", "insert", "cleanup", "cloning"} :
        /\ pc[a] = "idle" /\ pc' = [pc EXCEPT ![a] = l] /\ on' = [on EXCEPT ![a] = n]
        /\ l = "remove" => row[n] # "none"
  BY DEF BeginAny, BeginRegister, BeginDelete, BeginPull, BeginPush, BeginRun, Begin, Goto, Labels
<1>2. UNCHANGED <<rows, files, gone, leak, orphans, names, crashes>>
  BY DEF BeginAny, BeginRegister, BeginDelete, BeginPull, BeginPush, BeginRun, Begin
<1>3. \/ fault' = fault
      \/ /\ fault' = [fault EXCEPT ![n] = @ /\ (row[n] # "none" \/ disk[n] # "none" \/ \E b \in Actors : Busy(b, n))]
  BY DEF BeginAny, BeginRegister, BeginDelete, BeginPull, BeginPush, BeginRun
<1>4. /\ fault' \in [Repos -> BOOLEAN]
      /\ \A m \in Repos : fault'[m] = FALSE =>
           fault[m] = FALSE \/ (m = n /\ row[n] = "none" /\ disk[n] = "none" /\ \A b \in Actors : on[b] # n)
  <2> DEFINE Taken == row[n] # "none" \/ disk[n] # "none" \/ \E b \in Actors : Busy(b, n)
  <2>1. fault \in [Repos -> BOOLEAN]
    BY DEF DiskInv, FileTypes
  <2>2. fault' = fault \/ fault' = [fault EXCEPT ![n] = @ /\ Taken]
    BY <1>3
  <2>3. ~Taken => row[n] = "none" /\ disk[n] = "none" /\ \A b \in Actors : on[b] # n
    BY DEF Busy
  <2>4. Taken \in BOOLEAN
    OBVIOUS
  <2> HIDE DEF Taken
  <2> QED
    BY <2>1, <2>2, <2>3, <2>4
<1>5. FileTypes' /\ OnInv'
  BY <1>1, <1>2, <1>4, ReposAssumption DEF DiskInv, RunTypes, FileTypes, OnInv, rows, files, names
<1>6. CredInv' /\ ClonerInv' /\ DeletesInv'
  BY <1>1, <1>2, ActorsAssumption, ReposAssumption
  DEF DiskInv, RunTypes, FileTypes, OnInv, CredInv, ClonerInv, DeletesInv, Https, Busy, UrlLabels,
      rows, files, names
<1>7. RowInv'
  BY <1>1, <1>2, <1>4, ActorsAssumption, ReposAssumption
  DEF DiskInv, RunTypes, FileTypes, OnInv, RowInv, DeletesInv, At, Placed, rows, files
<1>8. OrphanInv'
  BY <1>2, <1>4 DEF DiskInv, FileTypes, OrphanInv, files
<1> QED
  BY <1>5, <1>6, <1>7, <1>8 DEF DiskInv

LEMMA ServerDisk ==
  ASSUME RunTypes, DiskInv, DeleteServer
  PROVE DiskInv'
<1>1. \A m \in Repos : fault'[m] = FALSE => fault[m] = FALSE /\ row[m] # "server" /\ row'[m] = row[m]
  BY DEF DeleteServer, DiskInv, FileTypes
<1>2. FileTypes' /\ \A m \in Repos : row'[m] = "none" <=> row[m] = "none"
  BY DEF DeleteServer, DiskInv, FileTypes, files, names
<1>3. UNCHANGED <<disk, cloner, origin, auth, pc, on, gone, leak, orphans>>
  BY DEF DeleteServer, files, names
<1>4. OnInv' /\ CredInv' /\ ClonerInv' /\ DeletesInv'
  BY <1>2, <1>3, ReposAssumption DEF DiskInv, OnInv, CredInv, ClonerInv, DeletesInv, Https, Busy
<1>5. RowInv'
  BY <1>1, <1>3 DEF DiskInv, RowInv, At, Placed
<1>6. OrphanInv'
  BY <1>1, <1>2, <1>3 DEF DiskInv, FileTypes, OrphanInv
<1> QED
  BY <1>2, <1>4, <1>5, <1>6 DEF DiskInv

LEMMA CrashDisk ==
  ASSUME RunTypes, DiskInv, Crash
  PROVE DiskInv'
<1>1. ASSUME NEW m \in Repos, fault'[m] = FALSE
      PROVE fault[m] = FALSE /\ \A b \in Actors : on[b] # m
  BY <1>1 DEF Crash, DiskInv, FileTypes, Busy
<1>6. ASSUME NEW m \in Repos, leak'[m] = FALSE, origin[m] = "authed"
      PROVE leak[m] = FALSE /\ \A b \in Actors : on[b] # m
  BY <1>6 DEF Crash, DiskInv, FileTypes, Busy
<1>7. ASSUME NEW d \in orphans'
      PROVE /\ d \in [repo : Repos, kind : {"clone", "pull", "rm"}]
            /\ d \in orphans \/ (disk[d.repo] # "none" /\ \E b \in Actors : on[b] = d.repo)
  <2>1. CASE d \in orphans
    BY <2>1 DEF DiskInv, FileTypes
  <2>2. CASE d \notin orphans
    <3>1. PICK b \in Actors : d \in Outlived(b)
      BY <1>7, <2>2 DEF Crash
    <3>2. PICK kind \in {"clone", "pull", "rm"} : d \in Orphan(b, kind)
      BY <3>1 DEF Outlived
    <3>3. on[b] \in Repos
      BY <3>1 DEF Outlived, DiskInv, OnInv
    <3> QED
      BY <3>2, <3>3, OrphanTypes
  <2> QED
    BY <2>1, <2>2
<1>8. orphans' \subseteq [repo : Repos, kind : {"clone", "pull", "rm"}]
  BY <1>7
<1>2. FileTypes' /\ OnInv' /\ ClonerInv' /\ DeletesInv'
  BY <1>8, CrashesAssumption
  DEF Crash, DiskInv, FileTypes, OnInv, ClonerInv, DeletesInv, rows, names
<1>3. UNCHANGED <<row, disk, origin, auth>> /\ cloner' = [m \in Repos |-> NoActor]
  BY DEF Crash, rows, names
<1>4. CredInv'
  <2>1. ASSUME NEW m \in Repos, origin[m] = "authed"
        PROVE Https(m)' /\ leak'[m] = TRUE
    <3>1. leak'[m] = TRUE \/ leak'[m] = FALSE
      BY <1>2 DEF FileTypes
    <3>2. leak'[m] # FALSE
      BY <1>6, <2>1 DEF DiskInv, CredInv, Busy
    <3> QED
      BY <1>3, <2>1, <3>1, <3>2 DEF DiskInv, CredInv, Https
  <2> QED
    BY <1>3, <2>1 DEF CredInv
<1>5. RowInv'
  <2>1. \A m \in Repos, l \in Labels \ {"idle"} : At(m, l)' = FALSE
    BY DEF Crash, At
  <2>2. ASSUME NEW m \in Repos, fault'[m] = FALSE
        PROVE fault[m] = FALSE /\ \A l \in Labels : ~At(m, l)
    BY <1>1, <2>2 DEF At
  <2>3. ASSUME NEW m \in Repos, fault'[m] = FALSE
        PROVE cloner[m] = NoActor
    <3>1. \A b \in Actors : on[b] # m
      BY <1>1, <2>3
    <3>2. cloner[m] \in Actors \union {NoActor} /\ (cloner[m] # NoActor => on[cloner[m]] = m)
      BY DEF DiskInv, ClonerInv, FileTypes
    <3> QED
      BY <3>1, <3>2
  <2> QED
    BY <1>3, <2>1, <2>2, <2>3 DEF DiskInv, RowInv, Placed, Labels, Crash
<1>9. OrphanInv'
  <2> SUFFICES ASSUME NEW d \in orphans', d.kind # "pull"
               PROVE fault'[d.repo] = TRUE /\ disk'[d.repo] # "none"
    BY DEF OrphanInv
  <2>1. d.repo \in Repos
    BY <1>7
  <2>2. fault'[d.repo] # FALSE /\ disk[d.repo] # "none"
    BY <1>1, <1>7, <2>1 DEF DiskInv, OrphanInv
  <2> QED
    BY <1>2, <1>3, <2>1, <2>2 DEF FileTypes
<1> QED
  BY <1>2, <1>4, <1>5, <1>9 DEF DiskInv

LEMMA DiskStep ==
  ASSUME RunInv, DiskInv, [Next]_vars
  PROVE DiskInv'
<1>1. ASSUME NEW a \in Actors, Step(a)
      PROVE DiskInv'
  <2>1. Types /\ on[a] \in Repos
    BY <1>1, AtWork DEF Types, RunInv, DiskInv
  <2> QED
    BY <1>1, <2>1, FileSteps, OnSteps, CredStep, ClonerStep, DeletesStep, RowStep, OrphanStepInv
    DEF DiskInv, Types
<1>2. ASSUME NEW a \in Actors, NEW n \in Repos, BeginAny(a, n)
      PROVE DiskInv'
  BY <1>2, BeginDisk DEF RunInv
<1>3. CASE DeleteServer \/ Crash
  BY <1>3, ServerDisk, CrashDisk DEF RunInv
<1>4. CASE (\E n \in Repos : Checkout(n) \/ CreateScript(n) \/ DeleteScript(n)) \/ CreateServer \/ UNCHANGED vars
  <2>1. UNCHANGED <<row, files, pc, on, gone, names, history, orphans, crashes>>
    BY <1>4
    DEF Checkout, CreateScript, DeleteScript, CreateServer, rows, vars, files, names, history
  <2>2. FileTypes'
    BY <1>4, <2>1
    DEF Checkout, CreateScript, DeleteScript, CreateServer, rows, vars, files, names, history,
                      DiskInv, FileTypes
  <2>3. OnInv' /\ CredInv' /\ ClonerInv' /\ DeletesInv'
    BY <2>1 DEF DiskInv, OnInv, CredInv, ClonerInv, DeletesInv, Https, Busy, files, names, history
  <2>4. RowInv' /\ OrphanInv'
    BY <2>1 DEF DiskInv, RowInv, OrphanInv, At, Placed, files, names, history
  <2> QED
    BY <2>2, <2>3, <2>4 DEF DiskInv
<1>5. ASSUME NEW c \in orphans, OrphanStep(c)
      PROVE DiskInv'
  BY <1>5, OrphansDisk DEF RunInv
<1> QED
  BY <1>1, <1>2, <1>3, <1>4, <1>5 DEF Next

LEMMA DiskInit ==
  ASSUME Init
  PROVE DiskInv
<1>1. FileTypes
  <2>0. crashes = 0 /\ server = FALSE
    BY DEF Init
  <2>1. crashes \in 0..MaxCrashes
    BY <2>0, CrashesAssumption
  <2>2. server \in BOOLEAN
    BY <2>0
  <2> QED
    BY <2>1, <2>2 DEF Init, FileTypes
<1>2. OnInv /\ CredInv /\ ClonerInv /\ DeletesInv /\ RowInv /\ OrphanInv
  BY DEF Init, OnInv, CredInv, ClonerInv, DeletesInv, RowInv, OrphanInv, At, Placed
<1> QED
  BY <1>1, <1>2 DEF DiskInv

LEMMA DiskAlways == Spec => [](RunInv /\ DiskInv)
<1>1. Init => RunInv /\ DiskInv
  BY DiskInit, RunInvInit
<1>2. RunInv /\ DiskInv /\ [Next]_vars => RunInv' /\ DiskInv'
  BY DiskStep, RunInvInductive
<1> QED
  BY <1>1, <1>2, PTL DEF Spec

\* The state always has its type.
THEOREM TypeCorrect == Spec => []TypeOK
<1>1. RunInv /\ DiskInv => TypeOK
  BY DEF RunInv, RunTypes, DiskInv, FileTypes, OnInv, TypeOK
<1> QED
  BY <1>1, DiskAlways, PTL

\* The credential is in the URL only while somebody clones, pulls or pushes,
\* or because an operation ended that does not take it out: no interleaving of
\* pulls leaves it there.
THEOREM CredentialsAreExplained == Spec => []CredentialIsExplained
<1>1. DiskInv => CredentialIsExplained
  BY DEF DiskInv, CredInv, CredentialIsExplained, UrlLabels
<1> QED
  BY <1>1, DiskAlways, PTL

\* Nobody at work and no fault recorded: a row has its checkout, a checkout its
\* row, and there are no parts of one.
THEOREM RowsMatchCheckouts == Spec => []RowMatchesCheckout
<1>1. DiskInv => RowMatchesCheckout
  <2> SUFFICES ASSUME DiskInv, NEW n \in Repos, ~fault[n], \A a \in Actors : ~Busy(a, n)
               PROVE (Placed(n) <=> disk[n] = "cloned") /\ disk[n] # "half"
    BY DEF RowMatchesCheckout
  <2>1. fault[n] = FALSE /\ \A l \in Labels : ~At(n, l)
    BY DEF DiskInv, FileTypes, At, Busy
  <2>2. cloner[n] = NoActor
    BY DEF DiskInv, FileTypes, ClonerInv, Busy
  <2> QED
    BY <2>1, <2>2 DEF DiskInv, RowInv, Labels
<1> QED
  BY <1>1, DiskAlways, PTL

=============================================================================
