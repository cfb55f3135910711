------------------------- MODULE PipelineEditsProofs -------------------------
(***************************************************************************)
(* Proofs about PipelineEdits, for every set of requests and every bound:  *)
(* coroutine edits of the steps lose nothing of each other, only a page    *)
(* that is out of date doubles a step, a webhook token that was replaced   *)
(* or disabled never comes back, a run counts for the pipeline it was      *)
(* launched for, and the pushes of all five senders are understood.        *)
(***************************************************************************)
EXTENDS PipelineEdits, SequenceTheorems, TLAPS

\* What a request remembers, without the data that these proofs do not use.
Shaped(r) ==
  r = [kind |-> r.kind, pipe |-> r.pipe, index |-> r.index, born |-> r.born, shown |-> r.shown,
       stale |-> r.stale, steps |-> r.steps, token |-> r.token, pattern |-> r.pattern, runs |-> r.runs, crossed |-> r.crossed]

\* The part that is about requests, and the rest.
ReqOK == /\ req = [q \in Requests |-> req[q]]
         /\ \A q \in Requests : Shaped(req[q]) /\ (Idle(q) \/ req[q].pipe \in PipeIds)

RestOK == /\ DOMAIN born = PipeIds /\ DOMAIN steps = PipeIds
          /\ token \in [PipeIds -> Nat]
          /\ \A r \in runs : r.pipe \in PipeIds
          /\ minted \in Nat

\* A coroutine that edits steps holds the event loop, and what it has read is
\* still there, unless a thread wrote the row.
FreshInv ==
  \A q \in Requests : req[q].kind \in LoopKinds =>
    /\ loop = q
    /\ ~req[q].crossed => born[req[q].pipe] # 0 /\ steps[req[q].pipe] = req[q].steps

IInv == ReqOK /\ RestOK /\ FreshInv

-----------------------------------------------------------------------------
(* The shape of the state.                                                 *)

LEMMA InitHolds == Init => IInv
  <1> SUFFICES ASSUME Init PROVE IInv
    OBVIOUS
  <1>1. \A q \in Requests : req[q] = NoReq
    BY DEF Init
  <1>2. Shaped(NoReq) /\ NoReq.kind = "idle"
    BY DEF NoReq, Shaped
  <1>3. req = [q \in Requests |-> req[q]]
    BY DEF Init
  <1>4. ReqOK /\ RestOK
    BY <1>1, <1>2, <1>3 DEF ReqOK, RestOK, Idle, Init
  <1>5. FreshInv
    BY <1>1, <1>2 DEF FreshInv, LoopKinds
  <1>6. QED
    BY <1>4, <1>5 DEF IInv

LEMMA IdleShaped == Shaped(NoReq) /\ NoReq.kind = "idle" /\ ~NoReq.crossed
  BY DEF Shaped, NoReq

LEMMA LoadedShaped ==
  ASSUME NEW k, NEW i, NEW n
  PROVE  /\ Shaped(Loaded(k, i, n))
         /\ Loaded(k, i, n).kind = k /\ Loaded(k, i, n).pipe = i
         /\ k \in LoopKinds \union {"page"} => Loaded(k, i, n).steps = steps[i]
         /\ ~Loaded(k, i, n).crossed
  BY DEF Shaped, Loaded

\* The request that a page turns into.
LEMMA SavedShaped ==
  ASSUME NEW i, NEW n, NEW page
  PROVE  /\ Shaped(Saved(i, n, page))
         /\ Saved(i, n, page).kind = "update" /\ Saved(i, n, page).pipe = i
         /\ Saved(i, n, page).index = n /\ Saved(i, n, page).steps = steps[i]
         /\ Saved(i, n, page).shown = page.steps[n] /\ Saved(i, n, page).stale = page.crossed
         /\ Saved(i, n, page).pattern = Names
  <1> DEFINE l == Loaded("update", i, n)
  <1>1. l.kind = "update" /\ l.pipe = i /\ l.index = n /\ l.steps = steps[i] /\ l.pattern = Names
    BY DEF Loaded, LoopKinds, TokenKinds, HookKinds
  <1>2. Shaped(l) /\ Saved(i, n, page) = [l EXCEPT !.shown = page.steps[n], !.stale = page.crossed]
    BY LoadedShaped DEF Saved
  <1> HIDE DEF l
  <1>3. QED
    BY <1>1, <1>2 DEF Shaped

\* Taking on work, ending it, and ending it with a mark on the others.
LEMMA LoadShape ==
  ASSUME ReqOK, NEW q \in Requests, NEW r, Shaped(r), r.pipe \in PipeIds, Load(q, r)
  PROVE  ReqOK'
  BY DEF ReqOK, Load, Idle

LEMMA DoneShape ==
  ASSUME ReqOK, NEW q \in Requests, Done(q)
  PROVE  ReqOK'
  BY IdleShaped DEF ReqOK, Done, Idle

LEMMA CrossingShape ==
  ASSUME ReqOK, NEW q \in Requests, NEW i, DoneCrossing(q, i)
  PROVE  /\ ReqOK' /\ req'[q] = NoReq
         /\ \A p \in Requests : p # q =>
              /\ req'[p].kind = req[p].kind /\ req'[p].pipe = req[p].pipe /\ req'[p].steps = req[p].steps
              /\ req'[p].index = req[p].index /\ req'[p].runs = req[p].runs
              /\ req'[p].shown = req[p].shown /\ req'[p].stale = req[p].stale
              /\ req[p].kind \in LoopKinds \union {"page"} /\ ~req'[p].crossed =>
                   ~req[p].crossed /\ req[p].pipe # i
  <1>1. req' = [p \in Requests |-> req'[p]]
    BY DEF DoneCrossing
  <1>2. req'[q] = NoReq
    BY DEF DoneCrossing
  <1>3. ASSUME NEW p \in Requests, p # q
        PROVE  /\ Shaped(req'[p])
               /\ req'[p].kind = req[p].kind /\ req'[p].pipe = req[p].pipe /\ req'[p].steps = req[p].steps
               /\ req'[p].index = req[p].index /\ req'[p].runs = req[p].runs
               /\ req'[p].shown = req[p].shown /\ req'[p].stale = req[p].stale
               /\ req[p].kind \in LoopKinds \union {"page"} /\ ~req'[p].crossed =>
                    ~req[p].crossed /\ req[p].pipe # i
    <2>1. req'[p] = [req[p] EXCEPT !.crossed = @ \/ (req[p].kind \in LoopKinds \union {"page"} /\ req[p].pipe = i)]
      BY <1>3 DEF DoneCrossing
    <2>2. Shaped(req[p])
      BY DEF ReqOK
    <2>3. req'[p].crossed = (req[p].crossed \/ (req[p].kind \in LoopKinds \union {"page"} /\ req[p].pipe = i))
      BY <2>1, <2>2 DEF Shaped
    <2>4. QED
      BY <2>1, <2>2, <2>3 DEF Shaped
  <1>4. QED
    BY <1>1, <1>2, <1>3, IdleShaped DEF ReqOK, Idle

-----------------------------------------------------------------------------
(* Every step keeps the shape and what the coroutines have read.           *)

\* A step that leaves rows and loop alone, and that gives q something to do
\* which is not an edit by a coroutine, or nothing.
LEMMA OtherWork ==
  ASSUME ReqOK, FreshInv, NEW q \in Requests, UNCHANGED <<born, steps, loop>>,
         req' = [req EXCEPT ![q] = req'[q]], req'[q].kind \notin LoopKinds
  PROVE  FreshInv'
  <1> SUFFICES ASSUME NEW p \in Requests, req'[p].kind \in LoopKinds
      PROVE  /\ loop' = p
             /\ ~req'[p].crossed => born'[req'[p].pipe] # 0 /\ steps'[req'[p].pipe] = req'[p].steps
    BY DEF FreshInv
  <1>1. p # q
    OBVIOUS
  <1>2. req'[p] = req[p]
    BY <1>1 DEF ReqOK
  <1>3. QED
    BY <1>2 DEF FreshInv

LEMMA LoadKeeps ==
  ASSUME IInv, NEW q \in Requests, NEW i \in PipeIds, NEW k, NEW n, k \notin LoopKinds,
         Load(q, Loaded(k, i, n)), UNCHANGED <<rows, runs, loop, minted>>
  PROVE  IInv'
  <1>1. ReqOK /\ RestOK /\ FreshInv
    BY DEF IInv
  <1>2. ReqOK'
    BY <1>1, LoadShape, LoadedShaped
  <1>3. RestOK'
    BY <1>1 DEF RestOK, rows
  <1>4. req' = [req EXCEPT ![q] = Loaded(k, i, n)] /\ req'[q] = Loaded(k, i, n)
    BY <1>1 DEF Load, ReqOK
  <1>5. req' = [req EXCEPT ![q] = req'[q]] /\ req'[q].kind \notin LoopKinds
    <2>1. req'[q].kind = k
      BY <1>4, LoadedShaped
    <2>2. QED
      BY <1>4, <2>1
  <1>6. FreshInv'
    BY <1>1, <1>5, OtherWork DEF rows
  <1>7. QED
    BY <1>2, <1>3, <1>6 DEF IInv

\* A coroutine that has read row i takes the event loop.
LEMMA LoopTaken ==
  ASSUME IInv, NEW q \in Requests, NEW i \in PipeIds, NEW w, req' = [req EXCEPT ![q] = w],
         Shaped(w), w.kind \in LoopKinds, w.pipe = i, w.steps = steps[i], born[i] # 0,
         loop = NoRequest, loop' = q, UNCHANGED <<rows, runs, minted>>
  PROVE  IInv'
  <1>1. ReqOK /\ RestOK /\ FreshInv
    BY DEF IInv
  <1>2. req'[q] = w /\ \A p \in Requests : p # q => req'[p] = req[p] /\ req[p].kind \notin LoopKinds
    BY <1>1, RequestsAssumption DEF FreshInv, ReqOK
  <1>3. ReqOK'
    BY <1>1, <1>2 DEF ReqOK, Idle
  <1>4. RestOK'
    BY <1>1 DEF RestOK, rows
  <1>5. FreshInv'
    BY <1>2 DEF FreshInv, rows
  <1>6. QED
    BY <1>3, <1>4, <1>5 DEF IInv

LEMMA BeginAddKeeps ==
  ASSUME IInv, NEW q \in Requests, NEW i \in PipeIds, BeginAdd(q, i)
  PROVE  IInv'
  <1> DEFINE w == Loaded("add", i, 0)
  <1>1. Shaped(w) /\ w.kind \in LoopKinds /\ w.pipe = i /\ w.steps = steps[i]
    BY LoadedShaped DEF LoopKinds
  <1> HIDE DEF w
  <1>2. QED
    BY <1>1, LoopTaken DEF BeginAdd, Load, w

LEMMA SaveStepKeeps ==
  ASSUME IInv, NEW q \in Requests, NEW i \in PipeIds, NEW n, SaveStep(q, i, n)
  PROVE  IInv'
  <1> DEFINE w == Saved(i, n, req[q])
  <1>1. Shaped(w) /\ w.kind \in LoopKinds /\ w.pipe = i /\ w.steps = steps[i]
    BY SavedShaped DEF LoopKinds
  <1>2. req' = [req EXCEPT ![q] = w]
    BY DEF SaveStep
  <1> HIDE DEF w
  <1>3. QED
    BY <1>1, <1>2, LoopTaken DEF SaveStep

LEMMA CommitLoopEditKeeps ==
  ASSUME IInv, NEW q \in Requests, CommitLoopEdit(q)
  PROVE  IInv'
  <1>1. ReqOK /\ RestOK /\ FreshInv
    BY DEF IInv
  <1>4. ReqOK' /\ req'[q] = NoReq /\ \A p \in Requests : p # q => req'[p].kind = req[p].kind
    <2>1. ASSUME Done(q)
          PROVE  ReqOK' /\ req'[q] = NoReq /\ \A p \in Requests : p # q => req'[p].kind = req[p].kind
      BY <1>1, <2>1, DoneShape DEF Done, ReqOK
    <2>2. ASSUME DoneCrossing(q, req[q].pipe)
          PROVE  ReqOK' /\ req'[q] = NoReq /\ \A p \in Requests : p # q => req'[p].kind = req[p].kind
      BY <1>1, <2>2, CrossingShape
    <2>3. QED
      BY <2>1, <2>2 DEF CommitLoopEdit
  <1>5. RestOK'
    BY <1>1 DEF RestOK, CommitLoopEdit
  <1>6. \A p \in Requests : req'[p].kind \notin LoopKinds
    <2>1. \A p \in Requests : p # q => req[p].kind \notin LoopKinds
      BY <1>1 DEF FreshInv, CommitLoopEdit
    <2>2. QED
      BY <1>4, <2>1, IdleShaped DEF LoopKinds
  <1>7. QED
    BY <1>4, <1>5, <1>6 DEF IInv, FreshInv

\* A request of a thread that ends having written row i, and no other.
LEMMA CrossingKeeps ==
  ASSUME IInv, NEW q \in Requests, NEW i \in PipeIds, DoneCrossing(q, i), UNCHANGED loop,
         \A j \in PipeIds : j # i => born'[j] = born[j] /\ steps'[j] = steps[j]
  PROVE  ReqOK' /\ FreshInv'
  <1>1. ReqOK /\ FreshInv
    BY DEF IInv
  <1>2. ReqOK'
    BY <1>1, CrossingShape
  <1> SUFFICES ASSUME NEW p \in Requests, req'[p].kind \in LoopKinds
      PROVE  /\ loop' = p
             /\ ~req'[p].crossed => born'[req'[p].pipe] # 0 /\ steps'[req'[p].pipe] = req'[p].steps
    BY <1>2 DEF FreshInv
  <1>3. p # q
    BY <1>1, CrossingShape, IdleShaped DEF LoopKinds
  <1>4. req'[p].kind = req[p].kind /\ req'[p].pipe = req[p].pipe /\ req'[p].steps = req[p].steps
    BY <1>1, <1>3, CrossingShape
  <1>5. req[p].pipe \in PipeIds
    BY <1>1, <1>4 DEF ReqOK, Idle, LoopKinds
  <1>6. ~req'[p].crossed => ~req[p].crossed /\ req[p].pipe # i
    BY <1>1, <1>3, <1>4, CrossingShape
  <1>7. QED
    BY <1>1, <1>4, <1>5, <1>6 DEF FreshInv

\* A request that ends without having touched a row.
LEMMA DoneKeeps ==
  ASSUME IInv, NEW q \in Requests, Done(q), UNCHANGED <<born, steps, loop>>
  PROVE  ReqOK' /\ FreshInv'
  <1>1. ReqOK /\ FreshInv
    BY DEF IInv
  <1>2. ReqOK'
    BY <1>1, DoneShape
  <1>3. req'[q] = NoReq /\ req' = [req EXCEPT ![q] = req'[q]]
    BY <1>1 DEF Done, ReqOK
  <1>4. req'[q].kind \notin LoopKinds
    BY <1>3, IdleShaped DEF LoopKinds
  <1>5. QED
    BY <1>1, <1>2, <1>3, <1>4, OtherWork

\* A new row takes an id that has no row, so nobody has read it.
LEMMA InsertKeeps ==
  ASSUME IInv, NEW i \in PipeIds, NEW s, NEW pat, Insert(i, s, pat)
  PROVE  RestOK' /\ (UNCHANGED req => FreshInv')
  <1>1. RestOK'
    BY DEF IInv, RestOK, Insert
  <1>2. ASSUME UNCHANGED req, NEW p \in Requests, req[p].kind \in LoopKinds
        PROVE  /\ loop' = p
               /\ ~req[p].crossed => born'[req[p].pipe] # 0 /\ steps'[req[p].pipe] = req[p].steps
    <2>1. loop = p /\ (~req[p].crossed => born[req[p].pipe] # 0 /\ steps[req[p].pipe] = req[p].steps)
      BY <1>2 DEF IInv, FreshInv
    <2>2. \A j \in PipeIds : born[j] # 0 => born'[j] = born[j] /\ steps'[j] = steps[j]
      BY DEF Insert, IInv, RestOK
    <2>3. req[p].pipe \in PipeIds
      BY <1>2 DEF IInv, ReqOK, Idle, LoopKinds
    <2>4. QED
      BY <2>1, <2>2, <2>3 DEF Insert
  <1>3. QED
    BY <1>1, <1>2 DEF FreshInv

LEMMA DuplicateKeeps ==
  ASSUME IInv, NEW q \in Requests, CommitDuplicate(q)
  PROVE  IInv'
  <1>1. ReqOK /\ FreshInv
    BY DEF IInv
  <1>2. PICK i \in PipeIds : Insert(i, req[q].steps, req[q].pattern)
    BY DEF CommitDuplicate
  <1>3. RestOK'
    BY <1>2, InsertKeeps
  <1>4. ReqOK'
    BY <1>1, DoneShape DEF CommitDuplicate
  <1>5. \A j \in PipeIds : born[j] # 0 => born'[j] = born[j] /\ steps'[j] = steps[j]
    BY <1>2 DEF Insert, IInv, RestOK
  <1>6. ASSUME NEW p \in Requests, req'[p].kind \in LoopKinds
        PROVE  /\ loop' = p
               /\ ~req'[p].crossed => born'[req'[p].pipe] # 0 /\ steps'[req'[p].pipe] = req'[p].steps
    <2>1. p # q
      BY <1>1, <1>6, IdleShaped DEF CommitDuplicate, Done, ReqOK, LoopKinds
    <2>2. req'[p] = req[p]
      BY <1>1, <2>1 DEF CommitDuplicate, Done, ReqOK
    <2>3. req[p].pipe \in PipeIds
      BY <1>1, <1>6, <2>2 DEF ReqOK, Idle, LoopKinds
    <2>4. QED
      BY <1>1, <1>2, <1>5, <1>6, <2>2, <2>3 DEF FreshInv, Insert
  <1>7. QED
    BY <1>3, <1>4, <1>6 DEF IInv, FreshInv

LEMMA ThreadCommitsKeep ==
  ASSUME IInv, NEW q \in Requests, CommitThreadEdit(q) \/ CommitDelete(q)
  PROVE  IInv'
  <1>1. req[q].pipe \in PipeIds
    BY DEF IInv, ReqOK, Idle, CommitThreadEdit, CommitDelete, ThreadKinds
  <1>2. DoneCrossing(q, req[q].pipe) /\ UNCHANGED loop
    BY DEF CommitThreadEdit, CommitDelete
  <1>3. \A j \in PipeIds : j # req[q].pipe => born'[j] = born[j] /\ steps'[j] = steps[j]
    BY DEF CommitThreadEdit, CommitDelete, IInv, RestOK
  <1>4. RestOK'
    BY <1>1 DEF CommitThreadEdit, CommitDelete, IInv, RestOK
  <1>5. QED
    BY <1>1, <1>2, <1>3, <1>4, CrossingKeeps DEF IInv

\* What CommitSettings makes of the token.
LEMMA TokenFacts ==
  ASSUME minted \in Nat, NEW r, NEW now \in Nat
  PROVE  TokenAfter(r, now) \in Nat /\ (TokenAfter(r, now) \in {now, 0} \/ TokenAfter(r, now) > minted)
  BY DEF TokenAfter

LEMMA SettingsKeep ==
  ASSUME IInv, NEW q \in Requests, NEW pat, CommitSettings(q, pat)
  PROVE  IInv'
  <1>1. req[q].pipe \in PipeIds
    BY DEF IInv, ReqOK, Idle, CommitSettings, TokenKinds
  <1>2. token[req[q].pipe] \in Nat
    BY <1>1 DEF IInv, RestOK
  <1>3. TokenAfter(req[q], token[req[q].pipe]) \in Nat
    BY <1>2, TokenFacts DEF IInv, RestOK
  <1>4. RestOK'
    BY <1>1, <1>3 DEF CommitSettings, IInv, RestOK
  <1>5. ReqOK' /\ FreshInv'
    BY DoneKeeps DEF CommitSettings
  <1>6. QED
    BY <1>4, <1>5 DEF IInv

LEMMA RunsKeep ==
  ASSUME IInv, NEW q \in Requests, Launch(q) \/ LaunchHook(q)
  PROVE  IInv'
  <1>1. req[q].pipe \in PipeIds
    BY DEF IInv, ReqOK, Idle, Launch, LaunchHook, HookKinds
  <1>2. Run(req[q]).pipe = req[q].pipe
    BY DEF Run
  <1>3. Done(q) /\ UNCHANGED <<rows, loop, minted>>
    BY DEF Launch, LaunchHook
  <1>4. runs' \subseteq runs \union {Run(req[q])}
    BY DEF Launch, LaunchHook
  <1>5. RestOK'
    BY <1>1, <1>2, <1>3, <1>4 DEF rows, IInv, RestOK
  <1>6. ReqOK' /\ FreshInv'
    BY <1>3, DoneKeeps DEF rows
  <1>7. QED
    BY <1>5, <1>6 DEF IInv

LEMMA RerunShaped ==
  ASSUME NEW i, NEW b, NEW w, w = [NoReq EXCEPT !.kind = "form", !.pipe = i, !.born = b]
  PROVE  Shaped(w) /\ w.kind = "form" /\ w.pipe = i
  <1>1. w = [kind |-> "form", pipe |-> i, index |-> 0, born |-> b, shown |-> NoStep, stale |-> FALSE,
             steps |-> <<>>, token |-> 0, pattern |-> Names, runs |-> {}, crossed |-> FALSE]
    BY DEF NoReq
  <1>2. QED
    BY <1>1 DEF Shaped

LEMMA RerunKeeps ==
  ASSUME IInv, NEW q \in Requests, NEW r \in runs, BeginRerun(q, r)
  PROVE  IInv'
  <1> DEFINE new == [NoReq EXCEPT !.kind = "form", !.pipe = r.pipe, !.born = r.born]
  <1>1. ReqOK /\ FreshInv /\ Load(q, new)
    BY DEF IInv, BeginRerun
  <1>2. Shaped(new) /\ new.kind = "form" /\ new.pipe = r.pipe
    BY RerunShaped
  <1>3. r.pipe \in PipeIds
    BY DEF IInv, RestOK
  <1> HIDE DEF new
  <1>4. ReqOK'
    BY <1>1, <1>2, <1>3, LoadShape
  <1>5. RestOK'
    BY DEF IInv, RestOK, rows, BeginRerun
  <1>6. req'[q] = new /\ req' = [req EXCEPT ![q] = req'[q]]
    BY <1>1 DEF Load, ReqOK
  <1>7. req'[q].kind \notin LoopKinds
    BY <1>2, <1>6 DEF LoopKinds
  <1>8. FreshInv'
    BY <1>1, <1>6, <1>7, OtherWork DEF BeginRerun, rows
  <1>9. QED
    BY <1>4, <1>5, <1>8 DEF IInv

LEMMA NextKeeps == IInv /\ [Next]_vars => IInv'
  <1> SUFFICES ASSUME IInv, [Next]_vars PROVE IInv'
    OBVIOUS
  <1>1. CASE Create
    <2>1. PICK i \in PipeIds : Insert(i, <<>>, Names) /\ UNCHANGED req
      BY <1>1 DEF Create
    <2>2. ReqOK'
      BY <2>1 DEF IInv, ReqOK, Idle
    <2>3. QED
      BY <2>1, <2>2, InsertKeeps DEF IInv
  <1>2. ASSUME NEW q \in Requests, Commit(q)
        PROVE  IInv'
    <2>1. CASE ClosePage(q)
      <3>1. ReqOK' /\ FreshInv'
        BY <2>1, DoneKeeps DEF ClosePage, rows
      <3>2. RestOK'
        BY <2>1 DEF IInv, RestOK, ClosePage, rows
      <3>3. QED
        BY <3>1, <3>2 DEF IInv
    <2>2. QED
      BY <1>2, <2>1, CommitLoopEditKeeps, ThreadCommitsKeep, SettingsKeep, DuplicateKeeps, RunsKeep
      DEF Commit
  <1>3. ASSUME NEW q \in Requests, NEW i \in PipeIds, Begin(q, i)
        PROVE  IInv'
    <2>1. CASE BeginAdd(q, i) \/ \E n \in 0..MaxEdits : SaveStep(q, i, n)
      BY <2>1, BeginAddKeeps, SaveStepKeeps
    <2>2. CASE \E n \in 0..MaxEdits : \E k \in ThreadKinds : BeginThreadEdit(q, i, k, n)
      BY <2>2, LoadKeeps DEF BeginThreadEdit, ThreadKinds, LoopKinds
    <2>3. CASE \E k \in TokenKinds : BeginSettings(q, i, k)
      BY <2>3, LoadKeeps DEF BeginSettings, TokenKinds, LoopKinds
    <2>4. CASE OpenPage(q, i) \/ BeginDuplicate(q, i) \/ BeginDelete(q, i)
      BY <2>4, LoadKeeps DEF OpenPage, BeginDuplicate, BeginDelete, LoopKinds
    <2>5. CASE \E k \in RunKinds : BeginRun(q, i, k)
      BY <2>5, LoadKeeps DEF BeginRun, RunKinds, HookKinds, LoopKinds
    <2>6. QED
      BY <1>3, <2>1, <2>2, <2>3, <2>4, <2>5 DEF Begin
  <1>4. CASE UNCHANGED vars
    BY <1>4 DEF vars, IInv, ReqOK, RestOK, FreshInv, Idle
  <1>5. QED
    BY <1>1, <1>2, <1>3, <1>4, RerunKeeps DEF Next

LEMMA Invariant == Spec => []IInv
  <1>1. QED
    BY InitHolds, NextKeeps, PTL DEF Spec

-----------------------------------------------------------------------------
\* A webhook token that was replaced or disabled never comes back, whatever
\* forms were loaded while it was valid.
THEOREM OldUrlsStayDead == Spec => DeadTokensStayDead
  <1>1. ASSUME IInv, Next
        PROVE  \A i \in PipeIds : token'[i] \in {token[i], 0} \/ token'[i] > minted
    <2> SUFFICES ASSUME NEW i \in PipeIds PROVE token'[i] \in {token[i], 0} \/ token'[i] > minted
      OBVIOUS
    <2>1. token \in [PipeIds -> Nat] /\ minted \in Nat
      BY <1>1 DEF IInv, RestOK
    <2>2. ASSUME NEW j \in PipeIds, NEW s, NEW pat, Insert(j, s, pat)
          PROVE  token'[i] \in {token[i], 0} \/ token'[i] > minted
      BY <2>1, <2>2 DEF Insert
    <2>3. ASSUME NEW q \in Requests, NEW pat, CommitSettings(q, pat)
          PROVE  token'[i] \in {token[i], 0} \/ token'[i] > minted
      <3>1. req[q].pipe \in PipeIds
        BY <1>1, <2>3 DEF IInv, ReqOK, Idle, CommitSettings, TokenKinds
      <3>2. token[req[q].pipe] \in Nat
        BY <2>1, <3>1
      <3>3. \/ UNCHANGED token
            \/ token' = [token EXCEPT ![req[q].pipe] = TokenAfter(req[q], token[req[q].pipe])]
        BY <2>3 DEF CommitSettings
      <3>4. QED
        BY <2>1, <3>1, <3>2, <3>3, TokenFacts
    <2>4. ASSUME NEW q \in Requests, CommitDelete(q)
          PROVE  token'[i] \in {token[i], 0}
      BY <2>1, <2>4 DEF CommitDelete
    <2>5. ASSUME UNCHANGED token
          PROVE  token'[i] \in {token[i], 0}
      BY <2>5
    <2>6. CASE Create
      BY <2>2, <2>6 DEF Create
    <2>7. ASSUME NEW q \in Requests, Commit(q)
          PROVE  token'[i] \in {token[i], 0} \/ token'[i] > minted
      <3>1. CASE CommitDuplicate(q)
        BY <2>2, <3>1 DEF CommitDuplicate
      <3>2. CASE ClosePage(q) \/ CommitLoopEdit(q) \/ CommitThreadEdit(q) \/ Launch(q) \/ LaunchHook(q)
        BY <2>5, <3>2 DEF ClosePage, CommitLoopEdit, CommitThreadEdit, Launch, LaunchHook, rows
      <3>3. QED
        BY <2>3, <2>4, <2>7, <3>1, <3>2 DEF Commit
    <2>8. ASSUME NEW q \in Requests, NEW j \in PipeIds, Begin(q, j)
          PROVE  UNCHANGED token
      BY <2>8
      DEF Begin, OpenPage, BeginAdd, SaveStep, BeginThreadEdit, BeginSettings, BeginDuplicate, BeginDelete,
          BeginRun, rows
    <2>9. ASSUME NEW q \in Requests, NEW r \in runs, BeginRerun(q, r)
          PROVE  UNCHANGED token
      BY <2>9 DEF BeginRerun, rows
    <2>10. QED
      BY <1>1, <2>5, <2>6, <2>7, <2>8, <2>9 DEF Next
  <1>2. QED
    BY <1>1, Invariant, PTL DEF Spec, DeadTokensStayDead

-----------------------------------------------------------------------------
(* No step twice.  Every step that is added has a number of its own, so a  *)
(* list can only hold one twice if an edit copies it: none does, neither   *)
(* the lists in rows nor the ones that requests have read, but for a page  *)
(* that is out of date.                                                    *)

\* Steps that were written by the first n edits, and which of them is doubled.
StepsOf(n) == [id : 1..n, text : 1..n, astray : BOOLEAN]
OnceEach(s) ==
  \A m, k \in DOMAIN s : m # k /\ s[m].id = s[k].id => s[m].astray \/ s[k].astray
Sound(s, n) == s \in Seq(StepsOf(n)) /\ OnceEach(s)

\* A request works at a place of the list that it has read.
PlacesExist ==
  \A q \in Requests :
    /\ req[q].kind \in {"update", "remove", "move"} => req[q].index \in DOMAIN req[q].steps
    /\ req[q].kind = "move" => req[q].index + 1 \in DOMAIN req[q].steps

ListsSound ==
  /\ edits \in Nat
  /\ \A i \in PipeIds : Sound(steps[i], edits)
  /\ \A q \in Requests :
       Sound(req[q].steps, edits) /\ (req[q].kind = "update" => req[q].shown \in StepsOf(edits))

StepsInv == IInv /\ ListsSound /\ PlacesExist

LEMMA SoundEmpty == ASSUME NEW n \in Nat PROVE Sound(<<>>, n)
  BY DEF Sound, OnceEach

LEMMA StepsLater ==
  ASSUME NEW n \in Nat
  PROVE  StepsOf(n) \subseteq StepsOf(n + 1)
  BY DEF StepsOf

LEMMA SoundLater ==
  ASSUME NEW n \in Nat, NEW s, Sound(s, n)
  PROVE  Sound(s, n + 1)
  BY StepsLater DEF Sound

LEMMA SoundAppend ==
  ASSUME NEW n \in Nat, NEW s, Sound(s, n), NEW v \in StepsOf(n + 1), v.id = n + 1
  PROVE  Sound(Append(s, v), n + 1)
  <1>1. s \in Seq(StepsOf(n + 1)) /\ \A k \in 1..Len(s) : s[k] \in StepsOf(n)
    BY StepsLater DEF Sound
  <1>2. Append(s, v) \in Seq(StepsOf(n + 1)) /\ Len(Append(s, v)) = Len(s) + 1 /\ Len(s) \in Nat
    BY <1>1
  <1>3. /\ \A k \in 1..Len(s) : Append(s, v)[k] = s[k]
        /\ Append(s, v)[Len(s) + 1] = v
    BY <1>1
  <1>4. \A k \in 1..Len(s) : s[k].id # n + 1
    BY <1>1 DEF StepsOf
  <1>5. DOMAIN Append(s, v) = 1..(Len(s) + 1) /\ DOMAIN s = 1..Len(s)
    BY <1>1, <1>2
  <1>6. ASSUME NEW a \in 1..(Len(s) + 1), NEW b \in 1..(Len(s) + 1), a # b,
               Append(s, v)[a].id = Append(s, v)[b].id
        PROVE  Append(s, v)[a].astray \/ Append(s, v)[b].astray
    <2>1. CASE a \in 1..Len(s) /\ b \in 1..Len(s)
      BY <1>3, <1>5, <1>6, <2>1 DEF Sound, OnceEach
    <2>2. CASE a = Len(s) + 1 \/ b = Len(s) + 1
      BY <1>2, <1>3, <1>4, <1>6, <2>2
    <2> QED
      BY <1>2, <2>1, <2>2
  <1> QED
    BY <1>2, <1>5, <1>6 DEF Sound, OnceEach

\* A step is written over itself, or its copy is known to be one.
LEMMA SoundReplace ==
  ASSUME NEW n \in Nat, NEW s, Sound(s, n), NEW i \in DOMAIN s, NEW v \in StepsOf(n + 1),
         v.astray \/ (v.id = s[i].id /\ v.astray = s[i].astray)
  PROVE  Sound([s EXCEPT ![i] = v], n + 1)
  <1>1. s \in Seq(StepsOf(n + 1))
    BY StepsLater DEF Sound
  <1>2. [s EXCEPT ![i] = v] \in Seq(StepsOf(n + 1))
    BY <1>1, ExceptSeq
  <1>3. /\ DOMAIN [s EXCEPT ![i] = v] = DOMAIN s
        /\ \A k \in DOMAIN s : [s EXCEPT ![i] = v][k] = IF k = i THEN v ELSE s[k]
    OBVIOUS
  <1>4. OnceEach([s EXCEPT ![i] = v])
    <2> DEFINE t == [s EXCEPT ![i] = v]
    <2>1. OnceEach(s) /\ DOMAIN t = DOMAIN s /\ \A k \in DOMAIN s : t[k] = IF k = i THEN v ELSE s[k]
      BY <1>3 DEF Sound
    <2> HIDE DEF t
    <2>2. OnceEach(t)
      BY <2>1 DEF OnceEach
    <2> QED
      BY <2>2 DEF t
  <1> QED
    BY <1>2, <1>4 DEF Sound

LEMMA SoundRemoved ==
  ASSUME NEW n \in Nat, NEW s, Sound(s, n), NEW i \in DOMAIN s
  PROVE  Sound(RemoveAt(s, i), n)
  <1> DEFINE t == RemoveAt(s, i)
  <1>1. s \in Seq(StepsOf(n)) /\ i \in 1..Len(s) /\ Len(s) \in Nat
    BY DEF Sound
  <1> DEFINE front == SubSeq(s, 1, i - 1)
             back  == SubSeq(s, i + 1, Len(s))
  <1>2. /\ front \in Seq(StepsOf(n)) /\ Len(front) = i - 1
        /\ \A k \in 1..(i - 1) : front[k] = s[k]
    BY <1>1
  <1>3. /\ back \in Seq(StepsOf(n)) /\ Len(back) = Len(s) - i
        /\ \A k \in 1..(Len(s) - i) : back[k] = s[i + k]
    <2>1. i + 1 \in Int /\ Len(s) \in Int /\ \A k \in (i + 1)..Len(s) : s[k] \in StepsOf(n)
      BY <1>1
    <2>2. /\ back \in Seq(StepsOf(n)) /\ Len(back) = IF i + 1 <= Len(s) THEN Len(s) - (i + 1) + 1 ELSE 0
          /\ \A k \in 1..(Len(s) - (i + 1) + 1) : back[k] = s[(i + 1) + k - 1]
      BY <2>1, SubSeqProperties
    <2>3. Len(s) - (i + 1) + 1 = Len(s) - i /\ (~(i + 1 <= Len(s)) => Len(s) - i = 0)
      BY <1>1
    <2> HIDE DEF back
    <2>4. Len(back) = Len(s) - i
      BY <2>2, <2>3
    <2>5. ASSUME NEW k \in 1..(Len(s) - i) PROVE back[k] = s[i + k]
      <3>1. (i + 1) + k - 1 = i + k
        BY <1>1
      <3> QED
        BY <2>2, <2>3, <3>1
    <2> QED
      BY <2>2, <2>4, <2>5
  <1>4. t = front \o back
    BY DEF RemoveAt
  <1> HIDE DEF front, back, t
  <1>5. /\ t \in Seq(StepsOf(n)) /\ Len(t) = Len(s) - 1
        /\ \A k \in 1..(Len(s) - 1) : t[k] = s[IF k < i THEN k ELSE k + 1]
    <2>1. t \in Seq(StepsOf(n)) /\ Len(t) = Len(s) - 1
      BY <1>1, <1>2, <1>3, <1>4, ConcatProperties
    <2>2. ASSUME NEW k \in 1..(Len(s) - 1) PROVE t[k] = s[IF k < i THEN k ELSE k + 1]
      <3>1. Len(front) + Len(back) = Len(s) - 1
        BY <1>1, <1>2, <1>3
      <3>2. \A m \in 1..(Len(front) + Len(back)) :
              t[m] = IF m <= Len(front) THEN front[m] ELSE back[m - Len(front)]
        BY <1>2, <1>3, <1>4, ConcatProperties
      <3>3. t[k] = IF k <= Len(front) THEN front[k] ELSE back[k - Len(front)]
        BY <3>1, <3>2
      <3>4. CASE k < i
        BY <1>1, <1>2, <3>3, <3>4
      <3>5. CASE k >= i
        <4>1. t[k] = back[k - (i - 1)] /\ k - (i - 1) \in 1..(Len(s) - i)
          BY <1>1, <1>2, <3>3, <3>5
        <4>2. t[k] = s[i + (k - (i - 1))]
          BY <1>3, <4>1
        <4>3. i + (k - (i - 1)) = k + 1
          BY <1>1
        <4>4. ~(k < i)
          BY <1>1, <3>5
        <4> QED
          BY <4>2, <4>3, <4>4
      <3> QED
        BY <1>1, <3>4, <3>5
    <2> QED
      BY <2>1, <2>2
  <1>6. OnceEach(t)
    <2>1. DOMAIN t = 1..(Len(s) - 1) /\ DOMAIN s = 1..Len(s)
      BY <1>1, <1>5
    <2> SUFFICES ASSUME NEW a \in 1..(Len(s) - 1), NEW b \in 1..(Len(s) - 1), a # b, t[a].id = t[b].id
                 PROVE  t[a].astray \/ t[b].astray
      BY <2>1 DEF OnceEach
    <2> DEFINE at(k) == IF k < i THEN k ELSE k + 1
    <2>2. at(a) \in 1..Len(s) /\ at(b) \in 1..Len(s) /\ at(a) # at(b)
      BY <1>1
    <2>3. t[a] = s[at(a)] /\ t[b] = s[at(b)]
      BY <1>5
    <2> QED
      BY <2>1, <2>2, <2>3 DEF Sound, OnceEach
  <1> QED
    BY <1>5, <1>6 DEF Sound, t

LEMMA SoundMoved ==
  ASSUME NEW n \in Nat, NEW s, Sound(s, n), NEW i \in DOMAIN s, i + 1 \in DOMAIN s
  PROVE  Sound(Moved(s, i), n)
  <1>1. s \in Seq(StepsOf(n)) /\ DOMAIN s = 1..Len(s) /\ i # i + 1
    BY DEF Sound
  <1>2. Moved(s, i) \in Seq(StepsOf(n))
    BY <1>1, ExceptSeq DEF Moved
  <1>3. /\ DOMAIN Moved(s, i) = DOMAIN s
        /\ \A k \in DOMAIN s : Moved(s, i)[k] =
             s[IF k = i THEN i + 1 ELSE IF k = i + 1 THEN i ELSE k]
    BY <1>1 DEF Moved
  <1>4. OnceEach(Moved(s, i))
    <2> DEFINE t == Moved(s, i)
               at(k) == IF k = i THEN i + 1 ELSE IF k = i + 1 THEN i ELSE k
    <2> SUFFICES ASSUME NEW a \in DOMAIN s, NEW b \in DOMAIN s, a # b, t[a].id = t[b].id
                 PROVE  t[a].astray \/ t[b].astray
      BY <1>3 DEF OnceEach
    <2>1. at(a) \in DOMAIN s /\ at(b) \in DOMAIN s /\ at(a) # at(b)
      BY <1>1
    <2>2. t[a] = s[at(a)] /\ t[b] = s[at(b)]
      BY <1>3
    <2> HIDE DEF t, at
    <2> QED
      BY <2>1, <2>2 DEF Sound, OnceEach
  <1> QED
    BY <1>2, <1>4 DEF Sound

LEMMA ReadPlaces ==
  ASSUME NEW k, NEW i, NEW n
  PROVE  /\ Loaded(k, i, n).index = n
         /\ Loaded(k, i, n).steps \in {steps[i], <<>>}
         /\ k \in LoopKinds \union ThreadKinds \union {"page"} => Loaded(k, i, n).steps = steps[i]
  BY DEF Loaded

\* A request that takes on work, or ends, and whose list of steps is sound.
LEMMA ReaderKeeps ==
  ASSUME StepsInv, NEW q \in Requests, NEW r, req' = [req EXCEPT ![q] = r],
         UNCHANGED <<steps, edits>>, Sound(r.steps, edits),
         r.kind = "update" => r.shown \in StepsOf(edits),
         r.kind \in {"update", "remove", "move"} => r.index \in DOMAIN r.steps,
         r.kind = "move" => r.index + 1 \in DOMAIN r.steps
  PROVE  ListsSound' /\ PlacesExist'
  <1>1. req'[q] = r /\ \A p \in Requests : p # q => req'[p] = req[p]
    BY DEF StepsInv, IInv, ReqOK
  <1> QED
    BY <1>1 DEF StepsInv, ListsSound, PlacesExist

LEMMA IdlePlaces ==
  /\ NoReq.steps = <<>>
  /\ NoReq.kind \notin {"update", "remove", "move"} /\ NoReq.kind # "move"
  BY DEF NoReq

LEMMA EnderKeeps ==
  ASSUME StepsInv, NEW q \in Requests, Done(q), UNCHANGED <<steps, edits>>
  PROVE  ListsSound' /\ PlacesExist'
  BY IdlePlaces, SoundEmpty, ReaderKeeps DEF Done, StepsInv, ListsSound

LEMMA BeginnerKeeps ==
  ASSUME StepsInv, NEW q \in Requests, NEW i \in PipeIds, NEW k, NEW n,
         Load(q, Loaded(k, i, n)), UNCHANGED <<steps, edits>>, k # "update",
         k \in {"remove", "move"} => n \in DOMAIN steps[i],
         k = "move" => n + 1 \in DOMAIN steps[i]
  PROVE  ListsSound' /\ PlacesExist'
  <1> DEFINE r == Loaded(k, i, n)
  <1>1. r.kind = k /\ r.index = n /\ r.steps \in {steps[i], <<>>}
        /\ (k \in {"remove", "move"} => r.steps = steps[i])
    BY LoadedShaped, ReadPlaces DEF LoopKinds, ThreadKinds
  <1>2. req' = [req EXCEPT ![q] = r]
    BY DEF Load
  <1>3. Sound(r.steps, edits)
    BY <1>1, SoundEmpty DEF StepsInv, ListsSound
  <1> HIDE DEF r
  <1> QED
    BY <1>1, <1>2, <1>3, ReaderKeeps

\* The row of one pipeline gets a sound list, and the request ends.
LEMMA RowsKeepSound ==
  ASSUME StepsInv, NEW i, NEW s, steps' = steps \/ steps' = [steps EXCEPT ![i] = s],
         edits' \in {edits, edits + 1}, Sound(s, edits'),
         \A p \in Requests : \/ req'[p] = NoReq
                             \/ /\ req'[p].steps = req[p].steps /\ req'[p].kind = req[p].kind
                                /\ req'[p].index = req[p].index /\ req'[p].shown = req[p].shown
  PROVE  ListsSound' /\ PlacesExist'
  <1>1. edits \in Nat /\ edits' \in Nat
    BY DEF StepsInv, ListsSound
  <1>2. \A t : Sound(t, edits) => Sound(t, edits')
    BY <1>1, SoundLater
  <1>3. \A j \in PipeIds : Sound(steps'[j], edits')
    BY <1>2 DEF StepsInv, IInv, RestOK, ListsSound
  <1>4. \A p \in Requests :
          Sound(req'[p].steps, edits') /\ (req'[p].kind = "update" => req'[p].shown \in StepsOf(edits'))
    BY <1>1, <1>2, IdlePlaces, SoundEmpty, StepsLater DEF StepsInv, ListsSound
  <1>5. PlacesExist'
    BY IdlePlaces DEF StepsInv, PlacesExist
  <1> QED
    BY <1>1, <1>3, <1>4, <1>5 DEF ListsSound

LEMMA EndedAlone ==
  ASSUME ReqOK, NEW q \in Requests, Done(q)
  PROVE  \A p \in Requests : \/ req'[p] = NoReq
                             \/ /\ req'[p].steps = req[p].steps /\ req'[p].kind = req[p].kind
                                /\ req'[p].index = req[p].index /\ req'[p].shown = req[p].shown
  BY DEF Done, ReqOK

LEMMA EndedCrossing ==
  ASSUME ReqOK, NEW q \in Requests, NEW i, DoneCrossing(q, i)
  PROVE  \A p \in Requests : \/ req'[p] = NoReq
                             \/ /\ req'[p].steps = req[p].steps /\ req'[p].kind = req[p].kind
                                /\ req'[p].index = req[p].index /\ req'[p].shown = req[p].shown
                                /\ req'[p].runs = req[p].runs /\ req'[p].pipe = req[p].pipe
  BY CrossingShape

LEMMA LoopEditSound ==
  ASSUME StepsInv, NEW q \in Requests, CommitLoopEdit(q)
  PROVE  ListsSound' /\ PlacesExist'
  <1> DEFINE r == req[q]
             i == r.pipe
             v == Written(r, edits + 1)
             s == IF born[i] = 0 THEN steps[i]
                  ELSE IF r.kind = "add" THEN Append(r.steps, v)
                  ELSE [r.steps EXCEPT ![r.index] = v]
  <1>1. r.kind \in LoopKinds /\ i \in PipeIds /\ edits \in Nat /\ edits' = edits + 1
    BY DEF CommitLoopEdit, StepsInv, ListsSound, IInv, ReqOK, Idle, LoopKinds
  <1>2. Sound(steps[i], edits) /\ Sound(r.steps, edits)
    BY <1>1 DEF StepsInv, ListsSound
  <1>3. r.kind # "add" => r.kind = "update" /\ r.index \in DOMAIN r.steps /\ r.shown \in StepsOf(edits)
    BY <1>1 DEF StepsInv, PlacesExist, ListsSound, LoopKinds
  <1>4. r.kind = "add" => v \in StepsOf(edits + 1) /\ v.id = edits + 1
    BY <1>1 DEF Written, StepsOf
  <1>5. r.kind # "add" =>
          v \in StepsOf(edits + 1) /\ (v.astray \/ (v.id = r.steps[r.index].id /\ v.astray = r.steps[r.index].astray))
    <2> SUFFICES ASSUME r.kind # "add"
                 PROVE  /\ v \in StepsOf(edits + 1)
                        /\ v.astray \/ (v.id = r.steps[r.index].id /\ v.astray = r.steps[r.index].astray)
      OBVIOUS
    <2> DEFINE old == r.steps[r.index]
    <2>1. r.shown \in StepsOf(edits) /\ old \in StepsOf(edits) /\ r.kind = "update"
      BY <1>2, <1>3 DEF Sound
    <2>2. v = [id |-> r.shown.id, text |-> edits + 1, astray |-> old.id # r.shown.id \/ old.astray]
      BY <2>1 DEF Written, Misses
    <2> HIDE DEF v, old
    <2>3. /\ r.shown.id \in 1..edits /\ old.astray \in BOOLEAN
          /\ (old.id # r.shown.id \/ old.astray) \in BOOLEAN
      BY <2>1 DEF StepsOf
    <2>4. v \in StepsOf(edits + 1)
      BY <1>1, <2>2, <2>3 DEF StepsOf
    <2>5. v.astray \/ (v.id = old.id /\ v.astray = old.astray)
      BY <2>2, <2>3
    <2> QED
      BY <2>4, <2>5 DEF old
  <1>6. steps' = [steps EXCEPT ![i] = s]
    BY DEF CommitLoopEdit
  <1>7. ReqOK /\ (Done(q) \/ DoneCrossing(q, i))
    BY DEF CommitLoopEdit, StepsInv, IInv
  <1> HIDE DEF v
  <1>8. Sound(s, edits + 1)
    BY <1>1, <1>2, <1>3, <1>4, <1>5, SoundLater, SoundAppend, SoundReplace
  <1> HIDE DEF s
  <1> QED
    BY <1>1, <1>6, <1>7, <1>8, EndedAlone, EndedCrossing, RowsKeepSound

LEMMA ThreadEditSound ==
  ASSUME StepsInv, NEW q \in Requests, CommitThreadEdit(q)
  PROVE  ListsSound' /\ PlacesExist'
  <1> DEFINE r == req[q]
             i == r.pipe
             s == IF born[i] = 0 THEN steps[i]
                  ELSE IF r.kind = "remove" THEN RemoveAt(r.steps, r.index)
                  ELSE Moved(r.steps, r.index)
  <1>1. r.kind \in ThreadKinds /\ i \in PipeIds /\ edits \in Nat /\ edits' = edits + 1
    BY DEF CommitThreadEdit, StepsInv, ListsSound, IInv, ReqOK, Idle, ThreadKinds
  <1>2. Sound(steps[i], edits) /\ Sound(r.steps, edits)
    BY <1>1 DEF StepsInv, ListsSound
  <1>3. r.index \in DOMAIN r.steps /\ (r.kind = "move" => r.index + 1 \in DOMAIN r.steps)
    BY <1>1 DEF StepsInv, PlacesExist, ThreadKinds
  <1>4. Sound(s, edits + 1)
    BY <1>1, <1>2, <1>3, SoundRemoved, SoundMoved, SoundLater DEF ThreadKinds
  <1>5. steps' = [steps EXCEPT ![i] = s]
    BY DEF CommitThreadEdit
  <1>6. ReqOK /\ DoneCrossing(q, i)
    BY DEF CommitThreadEdit, StepsInv, IInv
  <1> HIDE DEF s
  <1> QED
    BY <1>1, <1>4, <1>5, <1>6, EndedCrossing, RowsKeepSound

LEMMA OthersSound ==
  ASSUME StepsInv, NEW q \in Requests,
         \/ ClosePage(q) \/ CommitDelete(q) \/ CommitDuplicate(q) \/ Launch(q) \/ LaunchHook(q)
         \/ \E pat \in Patterns : CommitSettings(q, pat)
  PROVE  ListsSound' /\ PlacesExist'
  <1>1. ReqOK /\ edits \in Nat
    BY DEF StepsInv, ListsSound, IInv
  <1>2. CASE CommitDelete(q)
    BY <1>1, <1>2, SoundEmpty, EndedCrossing, RowsKeepSound DEF CommitDelete
  <1>3. CASE CommitDuplicate(q)
    <2>1. PICK i \in PipeIds : Insert(i, req[q].steps, req[q].pattern)
      BY <1>3 DEF CommitDuplicate
    <2>2. Sound(req[q].steps, edits)
      BY DEF StepsInv, ListsSound
    <2> QED
      BY <1>1, <1>3, <2>1, <2>2, EndedAlone, RowsKeepSound DEF CommitDuplicate, Insert
  <1>4. CASE \E pat \in Patterns : CommitSettings(q, pat)
    <2>1. req[q].pipe \in PipeIds /\ Done(q) /\ steps' = steps /\ edits' = edits + 1
      BY <1>4 DEF StepsInv, IInv, ReqOK, Idle, CommitSettings, TokenKinds
    <2>2. Sound(<<>>, edits')
      BY <1>1, <2>1, SoundEmpty
    <2> QED
      BY <1>1, <2>1, <2>2, EndedAlone, RowsKeepSound
  <1>5. CASE ClosePage(q) \/ Launch(q) \/ LaunchHook(q)
    BY <1>5, EnderKeeps DEF ClosePage, Launch, LaunchHook, rows
  <1> QED
    BY <1>2, <1>3, <1>4, <1>5

LEMMA BeginSound ==
  ASSUME StepsInv, NEW q \in Requests, NEW i \in PipeIds, Begin(q, i)
  PROVE  ListsSound' /\ PlacesExist'
  <1> USE DEF rows
  <1>1. ASSUME NEW n, SaveStep(q, i, n)
        PROVE  ListsSound' /\ PlacesExist'
    <2> DEFINE w == Saved(i, n, req[q])
    <2>1. w.kind = "update" /\ w.index = n /\ w.steps = steps[i] /\ w.shown = req[q].steps[n]
      BY SavedShaped
    <2>2. req' = [req EXCEPT ![q] = w] /\ n \in DOMAIN req[q].steps /\ n \in DOMAIN steps[i]
      BY <1>1 DEF SaveStep
    <2>3. Sound(steps[i], edits) /\ req[q].steps[n] \in StepsOf(edits)
      BY <2>2 DEF StepsInv, ListsSound, Sound
    <2>4. UNCHANGED <<steps, edits>>
      BY <1>1 DEF SaveStep
    <2> HIDE DEF w
    <2> QED
      BY <2>1, <2>2, <2>3, <2>4, ReaderKeeps
  <1>2. ASSUME NEW n, NEW k \in ThreadKinds, BeginThreadEdit(q, i, k, n)
        PROVE  ListsSound' /\ PlacesExist'
    BY <1>2, BeginnerKeeps DEF BeginThreadEdit, ThreadKinds
  <1>3. ASSUME NEW k \in TokenKinds, BeginSettings(q, i, k)
        PROVE  ListsSound' /\ PlacesExist'
    BY <1>3, BeginnerKeeps DEF BeginSettings, TokenKinds
  <1>4. CASE OpenPage(q, i) \/ BeginAdd(q, i) \/ BeginDuplicate(q, i) \/ BeginDelete(q, i)
    BY <1>4, BeginnerKeeps DEF OpenPage, BeginAdd, BeginDuplicate, BeginDelete
  <1>5. ASSUME NEW k \in RunKinds, BeginRun(q, i, k)
        PROVE  ListsSound' /\ PlacesExist'
    BY <1>5, BeginnerKeeps DEF BeginRun, RunKinds, HookKinds
  <1> QED
    BY <1>1, <1>2, <1>3, <1>4, <1>5 DEF Begin

LEMMA StepsInvariant == Spec => []StepsInv
  <1>1. Init => StepsInv
    <2> SUFFICES ASSUME Init PROVE StepsInv
      OBVIOUS
    <2>1. \A q \in Requests : req[q] = NoReq
      BY DEF Init
    <2>2. ListsSound /\ PlacesExist
      BY <2>1, SoundEmpty, IdlePlaces DEF Init, ListsSound, PlacesExist
    <2> QED
      BY <2>2, InitHolds DEF StepsInv
  <1>2. StepsInv /\ [Next]_vars => StepsInv'
    <2> SUFFICES ASSUME StepsInv, [Next]_vars PROVE ListsSound' /\ PlacesExist'
      BY NextKeeps DEF StepsInv
    <2>1. CASE Create
      <3>1. PICK i \in PipeIds : Insert(i, <<>>, Names) /\ UNCHANGED req
        BY <2>1 DEF Create
      <3>2. edits \in Nat
        BY DEF StepsInv, ListsSound
      <3> QED
        BY <3>1, <3>2, SoundEmpty, RowsKeepSound DEF Insert
    <2>2. ASSUME NEW q \in Requests, Commit(q)
          PROVE  ListsSound' /\ PlacesExist'
      BY <2>2, LoopEditSound, ThreadEditSound, OthersSound DEF Commit
    <2>3. ASSUME NEW q \in Requests, NEW r \in runs, BeginRerun(q, r)
          PROVE  ListsSound' /\ PlacesExist'
      <3> DEFINE w == [NoReq EXCEPT !.kind = "form", !.pipe = r.pipe, !.born = r.born]
      <3>1. w.kind = "form" /\ w.steps = <<>>
        BY DEF NoReq
      <3>2. req' = [req EXCEPT ![q] = w] /\ UNCHANGED <<steps, edits>>
        BY <2>3 DEF BeginRerun, Load, rows
      <3>3. Sound(w.steps, edits)
        BY <3>1, SoundEmpty DEF StepsInv, ListsSound
      <3> HIDE DEF w
      <3> QED
        BY <3>1, <3>2, <3>3, ReaderKeeps
    <2>4. CASE UNCHANGED vars
      BY <2>4 DEF vars, StepsInv, ListsSound, PlacesExist
    <2> QED
      BY <2>1, <2>2, <2>3, <2>4, BeginSound DEF Next
  <1> QED
    BY <1>1, <1>2, PTL DEF Spec

\* However edits overlap, no pipeline contains a step twice, unless a page that
\* was out of date has saved its step over another one.
THEOREM NoStepIsDoubled == Spec => []NoStepTwice
  <1>1. StepsInv => NoStepTwice
    BY DEF StepsInv, ListsSound, Sound, OnceEach, NoStepTwice
  <1> QED
    BY <1>1, StepsInvariant, PTL

-----------------------------------------------------------------------------
(* Pages of the builder: one that nobody disturbed shows, at every place,  *)
(* the step that is there, so what is saved from it goes where it came     *)
(* from.                                                                   *)

SameSteps(s, t) == \A n \in DOMAIN s : n \in DOMAIN t /\ s[n].id = t[n].id

PagesFresh ==
  \A q \in Requests :
    /\ req[q].kind = "update" /\ ~req[q].stale => ~Misses(req[q])
    /\ req[q].kind = "page" /\ ~req[q].crossed =>
         born[req[q].pipe] # 0 /\ SameSteps(req[q].steps, steps[req[q].pipe])

PagesInv == StepsInv /\ PagesFresh

LEMMA SameTransitive ==
  ASSUME NEW s, NEW t, NEW u, SameSteps(s, t), SameSteps(t, u)
  PROVE  SameSteps(s, u)
  BY DEF SameSteps

LEMMA SameItself == ASSUME NEW s PROVE SameSteps(s, s)
  BY DEF SameSteps

\* What a step does to the others: it ends, or leaves their memory alone; and
\* whose page it does not mark, it does not move the steps of.
LEMMA PagesStay ==
  ASSUME PagesInv,
         \A p \in Requests :
           \/ req'[p].kind \notin {"page", "update"}
           \/ /\ req'[p].kind = req[p].kind /\ req'[p].pipe = req[p].pipe /\ req'[p].steps = req[p].steps
              /\ req'[p].index = req[p].index /\ req'[p].shown = req[p].shown /\ req'[p].stale = req[p].stale
              /\ req[p].kind = "page" /\ ~req'[p].crossed =>
                   /\ ~req[p].crossed
                   /\ born[req[p].pipe] # 0 =>
                        born'[req[p].pipe] # 0 /\ SameSteps(steps[req[p].pipe], steps'[req[p].pipe])
  PROVE  PagesFresh'
  <1> SUFFICES ASSUME NEW p \in Requests, req'[p].kind \in {"page", "update"}
               PROVE  /\ req'[p].kind = "update" /\ ~req'[p].stale => ~Misses(req'[p])
                      /\ req'[p].kind = "page" /\ ~req'[p].crossed =>
                           born'[req'[p].pipe] # 0 /\ SameSteps(req'[p].steps, steps'[req'[p].pipe])
    BY DEF PagesFresh, Misses
  <1>1. /\ req'[p].kind = req[p].kind /\ req'[p].pipe = req[p].pipe /\ req'[p].steps = req[p].steps
        /\ req'[p].index = req[p].index /\ req'[p].shown = req[p].shown /\ req'[p].stale = req[p].stale
    OBVIOUS
  <1>2. CASE req'[p].kind = "update"
    BY <1>1, <1>2 DEF PagesInv, PagesFresh, Misses
  <1>3. CASE req'[p].kind = "page"
    <2> SUFFICES ASSUME ~req'[p].crossed
                 PROVE  born'[req'[p].pipe] # 0 /\ SameSteps(req'[p].steps, steps'[req'[p].pipe])
      BY <1>3
    <2>1. /\ req[p].kind = "page"
          /\ ~req[p].crossed => born[req[p].pipe] # 0 /\ SameSteps(req[p].steps, steps[req[p].pipe])
      BY <1>1, <1>3 DEF PagesInv, PagesFresh
    <2>2. /\ ~req[p].crossed /\ born'[req[p].pipe] # 0
          /\ SameSteps(steps[req[p].pipe], steps'[req[p].pipe])
      BY <1>1, <1>3, <2>1
    <2>3. SameSteps(req[p].steps, steps'[req[p].pipe])
      BY <2>1, <2>2, SameTransitive
    <2>4. QED
      BY <1>1, <2>2, <2>3
  <1> QED
    BY <1>2, <1>3

\* Whoever takes on work other than a page or an update, or ends.
LEMMA PagesOthers ==
  ASSUME PagesInv, NEW q \in Requests, NEW w, req' = [req EXCEPT ![q] = w], w.kind \notin {"page", "update"},
         \A p \in Requests : p # q /\ req[p].kind = "page" /\ ~req[p].crossed /\ born[req[p].pipe] # 0 =>
           born'[req[p].pipe] # 0 /\ SameSteps(steps[req[p].pipe], steps'[req[p].pipe])
  PROVE  PagesFresh'
  <1>1. req'[q] = w /\ \A p \in Requests : p # q => req'[p] = req[p]
    BY DEF PagesInv, StepsInv, IInv, ReqOK
  <1> QED
    BY <1>1, PagesStay

\* Whoever ends with a mark on the readers of row i, having written that row.
LEMMA PagesMarked ==
  ASSUME PagesInv, NEW q \in Requests, NEW i, DoneCrossing(q, i),
         \A j \in PipeIds : j # i => born'[j] = born[j] /\ steps'[j] = steps[j]
  PROVE  PagesFresh'
  <1>1. ReqOK
    BY DEF PagesInv, StepsInv, IInv
  <1>2. req'[q].kind \notin {"page", "update"}
    BY <1>1, CrossingShape, IdleShaped
  <1>3. ASSUME NEW p \in Requests, p # q, req[p].kind = "page", ~req'[p].crossed
        PROVE  /\ ~req[p].crossed
               /\ born[req[p].pipe] # 0 =>
                    born'[req[p].pipe] # 0 /\ SameSteps(steps[req[p].pipe], steps'[req[p].pipe])
    <2>1. ~req[p].crossed /\ req[p].pipe # i
      BY <1>1, <1>3, CrossingShape
    <2>2. req[p].pipe \in PipeIds
      BY <1>1, <1>3 DEF ReqOK, Idle
    <2>3. born'[req[p].pipe] = born[req[p].pipe] /\ steps'[req[p].pipe] = steps[req[p].pipe]
      BY <2>1, <2>2
    <2> QED
      BY <2>1, <2>3, SameItself
  <1>4. \A p \in Requests : p # q =>
          /\ req'[p].kind = req[p].kind /\ req'[p].pipe = req[p].pipe /\ req'[p].steps = req[p].steps
          /\ req'[p].index = req[p].index /\ req'[p].shown = req[p].shown /\ req'[p].stale = req[p].stale
    BY <1>1, CrossingShape
  <1> QED
    BY <1>2, <1>3, <1>4, PagesStay

\* An edit that nobody disturbed keeps what the pages show, at its place.
LEMMA PagesOverLoopEdit ==
  ASSUME PagesInv, NEW q \in Requests, CommitLoopEdit(q)
  PROVE  PagesFresh'
  <1> DEFINE r == req[q]
             v == Written(r, edits + 1)
  <1>1. CASE r.crossed \/ Misses(r)
    <2>1. DoneCrossing(q, r.pipe) /\ born' = born /\ \A j \in PipeIds : j # r.pipe => steps'[j] = steps[j]
      BY <1>1 DEF CommitLoopEdit
    <2> QED
      BY <2>1, PagesMarked
  <1>2. CASE ~(r.crossed \/ Misses(r))
    <2>1. /\ r.kind \in LoopKinds /\ Done(q) /\ born' = born
          /\ r.pipe \in PipeIds /\ born[r.pipe] # 0 /\ steps[r.pipe] = r.steps
      BY <1>2 DEF CommitLoopEdit, PagesInv, StepsInv, IInv, FreshInv, ReqOK, Idle, LoopKinds
    <2>2. Sound(r.steps, edits) /\ (r.kind = "update" => r.index \in DOMAIN r.steps)
      BY DEF PagesInv, StepsInv, ListsSound, PlacesExist
    <2>3. SameSteps(r.steps, steps'[r.pipe])
      <3>1. CASE r.kind = "add"
        <4>1. steps'[r.pipe] = Append(r.steps, v)
          BY <2>1, <3>1 DEF CommitLoopEdit, PagesInv, StepsInv, IInv, RestOK
        <4>2. r.steps \in Seq(StepsOf(edits))
          BY <2>2 DEF Sound
        <4> HIDE DEF v
        <4>3. \A n \in DOMAIN r.steps : n \in DOMAIN Append(r.steps, v) /\ Append(r.steps, v)[n] = r.steps[n]
          BY <4>2
        <4> QED
          BY <4>1, <4>3 DEF SameSteps
      <3>2. CASE r.kind = "update"
        <4>1. steps'[r.pipe] = [r.steps EXCEPT ![r.index] = v]
          BY <2>1, <3>2 DEF CommitLoopEdit, PagesInv, StepsInv, IInv, RestOK
        <4>2. v.id = r.steps[r.index].id
          BY <1>2, <3>2 DEF Written, Misses
        <4> HIDE DEF v
        <4> QED
          BY <4>1, <4>2 DEF SameSteps
      <3> QED
        BY <2>1, <3>1, <3>2 DEF LoopKinds
    <2>4. \A j \in PipeIds : SameSteps(steps[j], steps'[j])
      <3>1. \A j \in PipeIds : j # r.pipe => steps'[j] = steps[j]
        BY DEF CommitLoopEdit
      <3> QED
        BY <2>1, <2>3, <3>1, SameItself
    <2>5. \A p \in Requests : req[p].kind = "page" => req[p].pipe \in PipeIds
      BY DEF PagesInv, StepsInv, IInv, ReqOK, Idle
    <2>6. req' = [req EXCEPT ![q] = NoReq] /\ NoReq.kind \notin {"page", "update"}
      BY <2>1, IdleShaped DEF Done
    <2> QED
      BY <2>1, <2>4, <2>5, <2>6, PagesOthers
  <1> QED
    BY <1>1, <1>2

LEMMA PagesOverCommit ==
  ASSUME PagesInv, NEW q \in Requests, Commit(q)
  PROVE  PagesFresh'
  <1>0. NoReq.kind \notin {"page", "update"}
    BY IdleShaped
  <1>1. CASE \/ ClosePage(q) \/ Launch(q) \/ LaunchHook(q) \/ \E pat \in Patterns : CommitSettings(q, pat)
    <2>1. Done(q) /\ born' = born /\ steps' = steps
      BY <1>1 DEF ClosePage, Launch, LaunchHook, CommitSettings, rows
    <2> QED
      BY <1>0, <2>1, SameItself, PagesOthers DEF Done
  <1>2. CASE CommitThreadEdit(q)
    BY <1>2, PagesMarked DEF CommitThreadEdit
  <1>3. CASE CommitDelete(q)
    BY <1>3, PagesMarked DEF CommitDelete
  <1>4. CASE CommitDuplicate(q)
    <2>1. PICK i \in PipeIds : Insert(i, req[q].steps, req[q].pattern)
      BY <1>4 DEF CommitDuplicate
    <2>2. \A j \in PipeIds : born[j] # 0 => born'[j] = born[j] /\ steps'[j] = steps[j]
      BY <2>1 DEF Insert, PagesInv, StepsInv, IInv, RestOK
    <2>3. \A p \in Requests : req[p].kind = "page" => req[p].pipe \in PipeIds
      BY DEF PagesInv, StepsInv, IInv, ReqOK, Idle
    <2> QED
      BY <1>0, <1>4, <2>2, <2>3, SameItself, PagesOthers DEF CommitDuplicate, Done
  <1> QED
    BY <1>1, <1>2, <1>3, <1>4, PagesOverLoopEdit DEF Commit

\* A page is opened; and a step is saved from it.
LEMMA PagesOpened ==
  ASSUME PagesInv, NEW q \in Requests, NEW i \in PipeIds, NEW n, OpenPage(q, i) \/ SaveStep(q, i, n)
  PROVE  PagesFresh'
  <1> DEFINE page == Loaded("page", i, 0)
             w == Saved(i, n, req[q])
  <1>1. /\ page.kind = "page" /\ page.pipe = i /\ page.steps = steps[i]
        /\ w.kind = "update" /\ w.index = n /\ w.steps = steps[i]
        /\ w.shown = req[q].steps[n] /\ w.stale = req[q].crossed
    BY LoadedShaped, SavedShaped
  <1>2. OpenPage(q, i) => req' = [req EXCEPT ![q] = page] /\ UNCHANGED <<born, steps>> /\ born[i] # 0
    BY DEF OpenPage, Load, rows
  <1>3. SaveStep(q, i, n) => /\ req' = [req EXCEPT ![q] = w] /\ UNCHANGED <<born, steps>>
                             /\ req[q].kind = "page" /\ req[q].pipe = i /\ n \in DOMAIN req[q].steps
    BY DEF SaveStep, rows
  <1> HIDE DEF page, w
  <1>4. req'[q] \in {page, w} /\ UNCHANGED <<born, steps>> /\ \A p \in Requests : p # q => req'[p] = req[p]
    BY <1>2, <1>3 DEF PagesInv, StepsInv, IInv, ReqOK
  <1>5. /\ req'[q].kind = "update" /\ ~req'[q].stale => ~Misses(req'[q])
        /\ req'[q].kind = "page" /\ ~req'[q].crossed =>
             born'[req'[q].pipe] # 0 /\ SameSteps(req'[q].steps, steps'[req'[q].pipe])
    <2>1. CASE OpenPage(q, i)
      BY <1>1, <1>2, <2>1, SameItself DEF PagesInv, StepsInv, IInv, ReqOK
    <2>2. CASE SaveStep(q, i, n)
      <3>1. ~req[q].crossed => steps[i][n].id = req[q].steps[n].id
        BY <1>3, <2>2 DEF PagesInv, PagesFresh, SameSteps
      <3>2. req'[q] = w
        BY <1>3, <2>2 DEF PagesInv, StepsInv, IInv, ReqOK
      <3> QED
        BY <1>1, <3>1, <3>2 DEF Misses
    <2> QED
      BY <2>1, <2>2
  <1> QED
    BY <1>4, <1>5 DEF PagesInv, PagesFresh, Misses

LEMMA PagesOverBegin ==
  ASSUME PagesInv, NEW q \in Requests, NEW i \in PipeIds, Begin(q, i)
  PROVE  PagesFresh'
  <1> USE DEF rows
  <1>1. ASSUME NEW k, NEW n, k \notin {"page", "update"}, Load(q, Loaded(k, i, n)), UNCHANGED <<born, steps>>
        PROVE  PagesFresh'
    <2>1. req' = [req EXCEPT ![q] = Loaded(k, i, n)] /\ Loaded(k, i, n).kind \notin {"page", "update"}
      BY <1>1, LoadedShaped DEF Load
    <2> QED
      BY <1>1, <2>1, SameItself, PagesOthers
  <1>2. ASSUME NEW n, NEW k \in ThreadKinds, BeginThreadEdit(q, i, k, n)
        PROVE  PagesFresh'
    BY <1>1, <1>2 DEF BeginThreadEdit, ThreadKinds
  <1>3. ASSUME NEW k \in TokenKinds, BeginSettings(q, i, k)
        PROVE  PagesFresh'
    BY <1>1, <1>3 DEF BeginSettings, TokenKinds
  <1>4. CASE BeginAdd(q, i) \/ BeginDuplicate(q, i) \/ BeginDelete(q, i)
    BY <1>1, <1>4 DEF BeginAdd, BeginDuplicate, BeginDelete
  <1>5. ASSUME NEW k \in RunKinds, BeginRun(q, i, k)
        PROVE  PagesFresh'
    BY <1>1, <1>5 DEF BeginRun, RunKinds, HookKinds
  <1> QED
    BY <1>2, <1>3, <1>4, <1>5, PagesOpened DEF Begin

LEMMA PagesInvariant == Spec => []PagesInv
  <1>1. Init => PagesFresh
    BY IdleShaped DEF Init, PagesFresh
  <1>2. PagesInv /\ StepsInv' /\ [Next]_vars => PagesInv'
    <2> SUFFICES ASSUME PagesInv, [Next]_vars PROVE PagesFresh'
      BY DEF PagesInv
    <2>1. CASE Create
      <3>1. PICK i \in PipeIds : Insert(i, <<>>, Names) /\ UNCHANGED req
        BY <2>1 DEF Create
      <3>2. \A j \in PipeIds : born[j] # 0 => born'[j] = born[j] /\ steps'[j] = steps[j]
        BY <3>1 DEF Insert, PagesInv, StepsInv, IInv, RestOK
      <3>3. \A p \in Requests : req[p].kind = "page" => req[p].pipe \in PipeIds
        BY DEF PagesInv, StepsInv, IInv, ReqOK, Idle
      <3> QED
        BY <3>1, <3>2, <3>3, SameItself, PagesStay
    <2>2. ASSUME NEW q \in Requests, NEW r \in runs, BeginRerun(q, r)
          PROVE  PagesFresh'
      <3> DEFINE w == [NoReq EXCEPT !.kind = "form", !.pipe = r.pipe, !.born = r.born]
      <3>1. w.kind = "form"
        BY DEF NoReq
      <3>2. req' = [req EXCEPT ![q] = w] /\ UNCHANGED <<born, steps>>
        BY <2>2 DEF BeginRerun, Load, rows
      <3> HIDE DEF w
      <3> QED
        BY <3>1, <3>2, SameItself, PagesOthers
    <2>3. CASE UNCHANGED vars
      BY <2>3, SameItself, PagesStay DEF vars
    <2> QED
      BY <2>1, <2>2, <2>3, PagesOverCommit, PagesOverBegin DEF Next
  <1> QED
    BY <1>1, <1>2, StepsInvariant, PTL DEF Spec, PagesInv

\* However many requests overlap, a step that is added or updated in the
\* builder is written to the list of steps that is there, unless a thread
\* removed or moved a step or deleted the pipeline in between; and a step that
\* is saved from a page goes where the page shows it, unless one of these, or
\* an edit they had disturbed, came after the page.
THEOREM CoroutinesLoseNothing == Spec => LoopEditsLoseNothing
  <1>1. PagesInv /\ [Next]_vars =>
          [\A q \in Requests : CommitLoopEdit(q) =>
             /\ ~req[q].crossed => req[q].steps = steps[req[q].pipe]
             /\ ~req[q].stale => ~Misses(req[q])]_vars
    BY DEF PagesInv, PagesFresh, StepsInv, IInv, FreshInv, CommitLoopEdit, Misses
  <1>2. QED
    BY <1>1, PagesInvariant, PTL DEF Spec, LoopEditsLoseNothing

-----------------------------------------------------------------------------
(* Runs and their pipelines.  The cascade of a deletion takes the runs     *)
(* that it has read; those launched later have their pipeline no more, or  *)
(* will not have it, so they never count as runs of the row's successor.   *)

\* What a deletion has not read was launched too late to belong.
DeletesTakeAll ==
  \A q \in Requests : req[q].kind = "delete" =>
    \A r \in runs : r.pipe = req[q].pipe /\ r.born # 0 => r \in req[q].runs

BelongInv == IInv /\ DeletesTakeAll /\ RunsBelong

\* Requests that go on, or begin to do something other than to delete.
LEMMA SameRuns ==
  ASSUME BelongInv, UNCHANGED <<born, runs>>,
         \A q \in Requests : \/ req'[q].kind # "delete"
                             \/ /\ req'[q].kind = req[q].kind /\ req'[q].pipe = req[q].pipe
                                /\ req'[q].runs = req[q].runs
  PROVE  DeletesTakeAll' /\ RunsBelong'
  BY DEF BelongInv, DeletesTakeAll, RunsBelong

LEMMA TakenOn ==
  ASSUME ReqOK, NEW q \in Requests, NEW r, req' = [req EXCEPT ![q] = r], r.kind # "delete"
  PROVE  \A p \in Requests : req'[p].kind # "delete" \/ req'[p] = req[p]
  BY DEF ReqOK

LEMMA IdleIsNoDelete == NoReq.kind # "delete"
  BY DEF NoReq

LEMMA BeginDeleteBelongs ==
  ASSUME BelongInv, NEW q \in Requests, NEW i \in PipeIds, BeginDelete(q, i)
  PROVE  DeletesTakeAll' /\ RunsBelong'
  <1> DEFINE d == Loaded("delete", i, 0)
  <1>1. d.kind = "delete" /\ d.pipe = i /\ d.runs = {r \in runs : r.pipe = i}
    BY DEF Loaded
  <1>2. req' = [req EXCEPT ![q] = d] /\ UNCHANGED <<born, runs>>
    BY DEF BeginDelete, Load, rows
  <1> HIDE DEF d
  <1>3. req'[q] = d /\ \A p \in Requests : p # q => req'[p] = req[p]
    BY <1>2 DEF BelongInv, IInv, ReqOK
  <1>4. DeletesTakeAll'
    BY <1>1, <1>2, <1>3 DEF BelongInv, DeletesTakeAll
  <1> QED
    BY <1>2, <1>4 DEF BelongInv, RunsBelong

LEMMA BeginBelongs ==
  ASSUME BelongInv, NEW q \in Requests, NEW i \in PipeIds, Begin(q, i)
  PROVE  DeletesTakeAll' /\ RunsBelong'
  <1> USE DEF rows
  <1>1. ASSUME NEW k, NEW n, k # "delete", Load(q, Loaded(k, i, n)), UNCHANGED <<born, runs>>
        PROVE  DeletesTakeAll' /\ RunsBelong'
    <2>1. req' = [req EXCEPT ![q] = Loaded(k, i, n)] /\ Loaded(k, i, n).kind # "delete"
      BY <1>1, LoadedShaped DEF Load
    <2> QED
      BY <1>1, <2>1, TakenOn, SameRuns DEF BelongInv, IInv
  <1>2. ASSUME NEW n, SaveStep(q, i, n)
        PROVE  DeletesTakeAll' /\ RunsBelong'
    <2> DEFINE w == Saved(i, n, req[q])
    <2>1. req' = [req EXCEPT ![q] = w] /\ w.kind # "delete" /\ UNCHANGED <<born, runs>>
      BY <1>2, SavedShaped DEF SaveStep
    <2> HIDE DEF w
    <2> QED
      BY <2>1, TakenOn, SameRuns DEF BelongInv, IInv
  <1>3. ASSUME NEW n, NEW k \in ThreadKinds, BeginThreadEdit(q, i, k, n)
        PROVE  DeletesTakeAll' /\ RunsBelong'
    BY <1>1, <1>3 DEF BeginThreadEdit, ThreadKinds
  <1>4. ASSUME NEW k \in TokenKinds, BeginSettings(q, i, k)
        PROVE  DeletesTakeAll' /\ RunsBelong'
    BY <1>1, <1>4 DEF BeginSettings, TokenKinds
  <1>5. CASE OpenPage(q, i) \/ BeginAdd(q, i) \/ BeginDuplicate(q, i)
    BY <1>1, <1>5 DEF OpenPage, BeginAdd, BeginDuplicate
  <1>6. ASSUME NEW k \in RunKinds, BeginRun(q, i, k)
        PROVE  DeletesTakeAll' /\ RunsBelong'
    BY <1>1, <1>6 DEF BeginRun, RunKinds, HookKinds
  <1> QED
    BY <1>2, <1>3, <1>4, <1>5, <1>6, BeginDeleteBelongs DEF Begin

\* An id that is given away anew has runs only of pipelines that are gone.
LEMMA InsertBelongs ==
  ASSUME BelongInv, NEW i \in PipeIds, NEW s, NEW pat, Insert(i, s, pat),
         \A p \in Requests : req'[p].kind # "delete" \/ req'[p] = req[p]
  PROVE  DeletesTakeAll' /\ RunsBelong'
  <1>1. born[i] = 0 /\ born' = [born EXCEPT ![i] = births + 1] /\ runs' = runs
    BY DEF Insert
  <1>2. RunsBelong'
    BY <1>1 DEF BelongInv, RunsBelong, IInv, RestOK
  <1>3. DeletesTakeAll'
    BY <1>1 DEF BelongInv, DeletesTakeAll
  <1> QED
    BY <1>2, <1>3

LEMMA DeleteBelongs ==
  ASSUME BelongInv, NEW q \in Requests, CommitDelete(q)
  PROVE  DeletesTakeAll' /\ RunsBelong'
  <1> DEFINE i == req[q].pipe
  <1>1. /\ req[q].kind = "delete" /\ runs' = runs \ req[q].runs
        /\ born' = [born EXCEPT ![i] = 0] /\ DoneCrossing(q, i)
    BY DEF CommitDelete
  <1>2. \A r \in runs' : r.pipe = i => r.born = 0
    BY <1>1 DEF BelongInv, DeletesTakeAll
  <1>3. RunsBelong'
    BY <1>1, <1>2 DEF BelongInv, RunsBelong, IInv, RestOK
  <1>4. DeletesTakeAll'
    BY <1>1, EndedCrossing, IdleIsNoDelete DEF BelongInv, DeletesTakeAll, IInv
  <1> QED
    BY <1>3, <1>4

\* A run that is launched during a deletion, or after it, belongs to nothing.
LEMMA LaunchBelongs ==
  ASSUME BelongInv, NEW q \in Requests, Launch(q) \/ LaunchHook(q)
  PROVE  DeletesTakeAll' /\ RunsBelong'
  <1> DEFINE new == Run(req[q])
  <1>1. /\ Done(q) /\ UNCHANGED born /\ req[q].kind # "delete"
        /\ runs' \in {runs, runs \union {new}}
    BY DEF Launch, LaunchHook, HookKinds, rows
  <1>2. /\ new.pipe = req[q].pipe /\ new.born \in {0, born[new.pipe]}
        /\ new.born # 0 => \A p \in Requests : req[p].kind = "delete" => req[p].pipe # new.pipe
    BY DEF Run
  <1> HIDE DEF new
  <1>3. \A p \in Requests : req'[p].kind # "delete" \/ req'[p] = req[p]
    BY <1>1, TakenOn, IdleIsNoDelete DEF Done, BelongInv, IInv
  <1>4. RunsBelong'
    BY <1>1, <1>2 DEF BelongInv, RunsBelong
  <1>5. DeletesTakeAll'
    BY <1>1, <1>2, <1>3 DEF BelongInv, DeletesTakeAll
  <1> QED
    BY <1>4, <1>5

LEMMA CommitBelongs ==
  ASSUME BelongInv, NEW q \in Requests, Commit(q)
  PROVE  DeletesTakeAll' /\ RunsBelong'
  <1>0. ReqOK
    BY DEF BelongInv, IInv
  <1>1. CASE ClosePage(q) \/ (CommitLoopEdit(q) /\ Done(q)) \/ \E pat \in Patterns : CommitSettings(q, pat)
    <2>1. Done(q) /\ UNCHANGED <<born, runs>>
      BY <1>1 DEF ClosePage, CommitLoopEdit, CommitSettings, rows
    <2>2. \A p \in Requests : req'[p].kind # "delete" \/ req'[p] = req[p]
      BY <1>0, <2>1, TakenOn, IdleIsNoDelete DEF Done
    <2> QED
      BY <2>1, <2>2, SameRuns
  <1>2. CASE CommitThreadEdit(q) \/ (CommitLoopEdit(q) /\ DoneCrossing(q, req[q].pipe))
    <2>1. UNCHANGED <<born, runs>> /\ DoneCrossing(q, req[q].pipe)
      BY <1>2 DEF CommitThreadEdit, CommitLoopEdit
    <2> QED
      BY <1>0, <2>1, EndedCrossing, IdleIsNoDelete, SameRuns
  <1>3. CASE CommitDuplicate(q)
    <2>1. \A p \in Requests : req'[p].kind # "delete" \/ req'[p] = req[p]
      BY <1>0, <1>3, TakenOn, IdleIsNoDelete DEF CommitDuplicate, Done
    <2> QED
      BY <1>3, <2>1, InsertBelongs DEF CommitDuplicate
  <1> QED
    BY <1>1, <1>2, <1>3, DeleteBelongs, LaunchBelongs DEF Commit, CommitLoopEdit

\* Every run belongs to the pipeline it was launched for, unless its launch
\* fell into a deletion: ids that return never inherit runs.
THEOREM RunsAlwaysBelong == Spec => []RunsBelong
  <1>1. Init => BelongInv
    BY InitHolds, IdleIsNoDelete DEF Init, BelongInv, DeletesTakeAll, RunsBelong
  <1>2. BelongInv /\ [Next]_vars => BelongInv'
    <2> SUFFICES ASSUME BelongInv, [Next]_vars PROVE DeletesTakeAll' /\ RunsBelong'
      BY NextKeeps DEF BelongInv
    <2>1. CASE Create
      BY <2>1, InsertBelongs DEF Create
    <2>2. ASSUME NEW q \in Requests, NEW r \in runs, BeginRerun(q, r)
          PROVE  DeletesTakeAll' /\ RunsBelong'
      <3> DEFINE w == [NoReq EXCEPT !.kind = "form", !.pipe = r.pipe, !.born = r.born]
      <3>1. w.kind = "form"
        BY DEF NoReq
      <3>2. req' = [req EXCEPT ![q] = w] /\ UNCHANGED <<born, runs>>
        BY <2>2 DEF BeginRerun, Load, rows
      <3> HIDE DEF w
      <3> QED
        BY <3>1, <3>2, TakenOn, SameRuns DEF BelongInv, IInv
    <2>3. CASE UNCHANGED vars
      BY <2>3 DEF vars, BelongInv, DeletesTakeAll, RunsBelong
    <2> QED
      BY <2>1, <2>2, <2>3, CommitBelongs, BeginBelongs DEF Next
  <1>3. BelongInv => RunsBelong
    BY DEF BelongInv
  <1> QED
    BY <1>1, <1>2, <1>3, PTL DEF Spec

-----------------------------------------------------------------------------
(* Webhooks, for every sender, kind of event, name and filter.             *)

\* What the pushes look like, one change or the first of several.
LEMMA PushShape ==
  ASSUME NEW p \in Pushes
  PROVE  /\ p.push \in BOOLEAN /\ p.forge \in {"github", "gitea", "gitlab", "bitbucket", "curl"}
         /\ p.changes = <<>> \/ (p.changes # <<>> /\ Head(p.changes) \in Changes)
         /\ p.changes = <<>> => p.push /\ p.forge = "curl"
         /\ p.forge = "curl" => p.changes = <<>> \/ ~Head(p.changes).gone
         /\ p.encoding = "form" => p.forge \in {"github", "gitea"}
  <1>1. \A w \in One : w # <<>> /\ Head(w) \in Changes
    BY DEF One
  <1>2. \A w \in Changes \X Changes : w # <<>> /\ Head(w) \in Changes
    <2> SUFFICES ASSUME NEW w \in Changes \X Changes
                 PROVE  w # <<>> /\ Head(w) \in Changes
      OBVIOUS
    <2>1. w = <<w[1], w[2]>> /\ w[1] \in Changes
      OBVIOUS
    <2> QED
      BY <2>1
  <1>3. CASE p \in [forge : {"github", "gitea"}, encoding : {"json", "form"}, push : BOOLEAN, changes : One]
    BY <1>1, <1>3
  <1>4. CASE p \in [forge : {"gitlab"}, encoding : {"json"}, push : BOOLEAN, changes : One]
    BY <1>1, <1>4
  <1>5. CASE p \in [forge : {"bitbucket"}, encoding : {"json"}, push : BOOLEAN,
                    changes : One \union (Changes \X Changes)]
    BY <1>1, <1>2, <1>5
  <1>6. CASE p \in [forge : {"curl"}, encoding : {"json"}, push : {TRUE},
                    changes : {<<>>} \union {<<c>> : c \in {c \in Changes : ~c.gone}}]
    <2>1. p.push = TRUE /\ p.forge = "curl" /\ p.encoding = "json"
      BY <1>6
    <2>2. p.changes = <<>> \/ \E c \in Changes : ~c.gone /\ p.changes = <<c>>
      BY <1>6
    <2>3. p.changes = <<>> \/ (p.changes # <<>> /\ Head(p.changes) \in Changes /\ ~Head(p.changes).gone)
      BY <2>2
    <2> QED
      BY <2>1, <2>3
  <1> QED
    BY <1>3, <1>4, <1>5, <1>6 DEF Pushes

LEMMA EventKinds ==
  ASSUME NEW p \in Pushes
  PROVE  EventOf(p) \in PushEvents <=> p.push
  <1>1. p.push \in BOOLEAN /\ p.forge \in {"github", "gitea", "gitlab", "bitbucket", "curl"}
    BY PushShape
  <1>2. CASE ~p.push
    BY <1>2 DEF EventOf, PushEvents
  <1>3. CASE p.push /\ p.forge = "gitlab"
    <2>1. EventOf(p) = IF Head(p.changes).kind = "tag" THEN "tag push hook" ELSE "push hook"
      BY <1>3 DEF EventOf
    <2> QED
      BY <1>3, <2>1 DEF PushEvents
  <1>4. CASE p.push /\ p.forge = "bitbucket"
    BY <1>4 DEF EventOf, PushEvents
  <1>5. CASE p.push /\ p.forge = "curl"
    BY <1>5 DEF EventOf, PushEvents
  <1>6. CASE p.push /\ p.forge \in {"github", "gitea"}
    BY <1>6 DEF EventOf, PushEvents
  <1> QED
    BY <1>1, <1>2, <1>3, <1>4, <1>5, <1>6

LEMMA NamedRefs ==
  ASSUME NEW c \in Changes
  PROVE  RefOf(c) # NoRef /\ RefOf(c).name = c.name /\ c.gone \in BOOLEAN
  BY DEF Changes, RefOf, NoRef

\* The payload that a route has understood tells the push.
LEMMA Parsed ==
  ASSUME NEW p \in Pushes
  PROVE  LET w == ParseWebhook(Delivery(p)) IN
         /\ w.skip <=> ~p.push \/ (p.changes # <<>> /\ Head(p.changes).gone)
         /\ ~w.skip => w.ref = IF p.changes = <<>> THEN NoRef ELSE RefOf(Head(p.changes))
  <1> DEFINE d == Delivery(p)
             c == Head(p.changes)
  <1>1. d.event \in PushEvents <=> p.push
    BY EventKinds DEF Delivery
  <1>2. CASE p.forge = "bitbucket"
    <2>1. p.changes # <<>> /\ c \in Changes
      BY <1>2, PushShape
    <2>2. d.ref = NoRef /\ d.zero = FALSE /\ d.deleted = FALSE /\ d.changes = p.changes
      BY <1>2 DEF Delivery
    <2> HIDE DEF d
    <2>3. /\ ParseWebhook(d).skip <=> ~p.push \/ c.gone
          /\ ParseWebhook(d).ref = IF c.gone THEN NoRef ELSE RefOf(c)
      BY <1>1, <2>1, <2>2 DEF ParseWebhook
    <2> QED
      BY <2>1, <2>3 DEF d
  <1>3. CASE p.forge # "bitbucket"
    <2>1. /\ d.ref = (IF p.changes = <<>> THEN NoRef ELSE RefOf(c)) /\ d.changes = <<>>
          /\ d.zero <=> p.changes # <<>> /\ c.gone
          /\ d.deleted => d.zero
      BY <1>3 DEF Delivery
    <2> HIDE DEF d
    <2>2. /\ ParseWebhook(d).skip <=> ~p.push \/ d.zero \/ d.deleted
          /\ ParseWebhook(d).ref = d.ref
      BY <1>1, <2>1 DEF ParseWebhook
    <2> QED
      BY <2>1, <2>2 DEF d
  <1> QED
    BY <1>2, <1>3

\* Of a form-encoded delivery the signed route knows the event alone.
LEMMA NotLookedInto ==
  ASSUME NEW p \in Pushes, p.encoding = "form"
  PROVE  LET w == ParseWebhook(Payload("hmac", Delivery(p))) IN
         w.ref = NoRef /\ (w.skip <=> ~p.push)
  <1> DEFINE d == Payload("hmac", Delivery(p))
  <1>1. Delivery(p).encoding = "form" /\ Delivery(p).event = EventOf(p)
    BY DEF Delivery
  <1>2. d.event = EventOf(p) /\ d.ref = NoRef /\ d.zero = FALSE /\ d.deleted = FALSE /\ d.changes = <<>>
    <2>1. d = [Delivery(p) EXCEPT !.ref = NoRef, !.zero = FALSE, !.deleted = FALSE, !.changes = <<>>]
      BY <1>1 DEF Payload
    <2> QED
      BY <2>1 DEF Delivery
  <1> HIDE DEF d
  <1> QED
    BY <1>2, EventKinds DEF ParseWebhook, d

\* The filters in rows and in requests are filters.
PatternsOK == pattern \in [PipeIds -> Patterns] /\ \A q \in Requests : req[q].pattern \in Patterns

LEMMA PatternsRead ==
  ASSUME PatternsOK, NEW i \in PipeIds
  PROVE  /\ \A k, n : Loaded(k, i, n).pattern \in Patterns
         /\ \A n, page : Saved(i, n, page).pattern \in Patterns
         /\ NoReq.pattern \in Patterns
         /\ \A b : [NoReq EXCEPT !.kind = "form", !.pipe = i, !.born = b].pattern \in Patterns
  BY SavedShaped DEF PatternsOK, Loaded, NoReq, Patterns

\* A request gets a record with a filter, and the rows keep theirs.
LEMMA PatternsKept ==
  ASSUME IInv, PatternsOK, NEW q \in Requests, NEW w, w.pattern \in Patterns,
         req' = [req EXCEPT ![q] = w], pattern' \in [PipeIds -> Patterns]
  PROVE  PatternsOK'
  BY DEF PatternsOK, IInv, ReqOK

LEMMA PatternsInvariant == Spec => []PatternsOK
  <1>1. Init => PatternsOK
    BY DEF Init, PatternsOK, Patterns, NoReq
  <1>2. IInv /\ PatternsOK /\ [Next]_vars => PatternsOK'
    <2> SUFFICES ASSUME IInv, PatternsOK, [Next]_vars PROVE PatternsOK'
      OBVIOUS
    <2> USE DEF rows
    <2>0. pattern \in [PipeIds -> Patterns] /\ \A q \in Requests : req[q].pattern \in Patterns
      BY DEF PatternsOK
    <2>1. CASE Create
      BY <2>0, <2>1 DEF Create, Insert, PatternsOK, Patterns
    <2>2. ASSUME NEW q \in Requests, Commit(q)
          PROVE  PatternsOK'
      <3>0. NoReq.pattern \in Patterns
        BY DEF NoReq, Patterns
      <3>1. ASSUME Done(q), pattern' \in [PipeIds -> Patterns]
            PROVE  PatternsOK'
        BY <3>0, <3>1, PatternsKept DEF Done
      <3>2. ASSUME NEW i, DoneCrossing(q, i), pattern' \in [PipeIds -> Patterns]
            PROVE  PatternsOK'
        <4>1. ASSUME NEW p \in Requests, p # q
              PROVE  req'[p].pattern = req[p].pattern
          <5>1. PICK c : req'[p] = [req[p] EXCEPT !.crossed = c]
            BY <3>2, <4>1 DEF DoneCrossing
          <5>2. Shaped(req[p])
            BY DEF IInv, ReqOK
          <5> QED
            BY <5>1, <5>2 DEF Shaped
        <4>2. req'[q] = NoReq
          BY <3>2 DEF DoneCrossing
        <4> QED
          BY <2>0, <3>0, <3>2, <4>1, <4>2 DEF PatternsOK
      <3>3. CASE ClosePage(q) \/ CommitLoopEdit(q) \/ CommitThreadEdit(q) \/ Launch(q) \/ LaunchHook(q)
        BY <2>0, <3>1, <3>2, <3>3 DEF ClosePage, CommitLoopEdit, CommitThreadEdit, Launch, LaunchHook
      <3>4. CASE CommitDelete(q)
        BY <2>0, <3>2, <3>4 DEF CommitDelete, Patterns
      <3>5. ASSUME NEW pat \in Patterns, CommitSettings(q, pat)
            PROVE  PatternsOK'
        <4>1. pattern' \in [PipeIds -> Patterns]
          BY <2>0, <3>5 DEF CommitSettings
        <4> QED
          BY <3>1, <3>5, <4>1 DEF CommitSettings
      <3>6. CASE CommitDuplicate(q)
        BY <2>0, <3>1, <3>6 DEF CommitDuplicate, Insert
      <3> QED
        BY <2>2, <3>3, <3>4, <3>5, <3>6 DEF Commit
    <2>3. ASSUME NEW q \in Requests, NEW i \in PipeIds, Begin(q, i)
          PROVE  PatternsOK'
      <3>1. \E w : w.pattern \in Patterns /\ req' = [req EXCEPT ![q] = w]
        BY <2>3, PatternsRead
        DEF Begin, OpenPage, BeginAdd, SaveStep, BeginThreadEdit, BeginSettings, BeginDuplicate, BeginDelete,
            BeginRun, Load
      <3>2. pattern' = pattern
        BY <2>3
        DEF Begin, OpenPage, BeginAdd, SaveStep, BeginThreadEdit, BeginSettings, BeginDuplicate, BeginDelete,
            BeginRun
      <3> QED
        BY <2>0, <3>1, <3>2, PatternsKept
    <2>4. ASSUME NEW q \in Requests, NEW r \in runs, BeginRerun(q, r)
          PROVE  PatternsOK'
      <3>1. r.pipe \in PipeIds
        BY DEF IInv, RestOK
      <3>2. \E w : w.pattern \in Patterns /\ req' = [req EXCEPT ![q] = w]
        BY <2>4, <3>1, PatternsRead DEF BeginRerun, Load
      <3> QED
        BY <2>0, <2>4, <3>2, PatternsKept DEF BeginRerun
    <2>5. CASE UNCHANGED vars
      BY <2>5 DEF vars, PatternsOK
    <2> QED
      BY <2>1, <2>2, <2>3, <2>4, <2>5 DEF Next
  <1> QED
    BY <1>1, <1>2, Invariant, PTL DEF Spec

\* Whatever the names, the filters and the sender, exactly the pushes that the
\* settings ask for start a run, except for a form-encoded delivery to the
\* signed route, which starts one for any push.
THEOREM PushesAlwaysUnderstood == Spec => []PushesAreUnderstood
  <1>1. ASSUME NEW p \in Pushes, NEW pat, NEW route, ~(route = "hmac" /\ p.encoding = "form")
        PROVE  Starts(route, Delivery(p), pat) <=> Wanted(p, pat)
    <2>1. Payload(route, Delivery(p)) = Delivery(p)
      BY <1>1 DEF Payload, Delivery
    <2> DEFINE w == ParseWebhook(Delivery(p))
    <2>2. /\ w.skip <=> ~p.push \/ (p.changes # <<>> /\ Head(p.changes).gone)
          /\ ~w.skip => w.ref = IF p.changes = <<>> THEN NoRef ELSE RefOf(Head(p.changes))
      BY Parsed
    <2>3. Starts(route, Delivery(p), pat) <=> ~w.skip /\ BranchMatches(pat, w.ref)
      BY <2>1 DEF Starts
    <2> HIDE DEF w
    <2> QED
      BY <2>2, <2>3, PushShape, NamedRefs DEF BranchMatches, Wanted
  <1>2. ASSUME NEW p \in Pushes, NEW pat, p.encoding = "form"
        PROVE  Starts("hmac", Delivery(p), pat) <=> p.push
    BY <1>2, NotLookedInto DEF Starts, BranchMatches
  <1>3. \A route \in HookKinds : Understood[route] = Patterns
    BY <1>1, <1>2 DEF Understood
  <1>4. PatternsOK => PushesAreUnderstood
    BY <1>3 DEF PushesAreUnderstood, PatternsOK
  <1> QED
    BY <1>4, PatternsInvariant, PTL

=============================================================================
