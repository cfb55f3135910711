---------------------------- MODULE PipelineEdits ----------------------------
(***************************************************************************)
(* The pipelines table under the requests that edit it: the builder's      *)
(* steps, settings and webhook tokens, duplication and deletion, and the   *)
(* routes that launch a run, by a form or by a webhook (CRUD and webhook   *)
(* part of src/app/modules/pipeline_engine.py, src/app/routes/             *)
(* pipeline_routes.py).                                                    *)
(*                                                                         *)
(* A request reads the pipeline in one action and commits in another.  The *)
(* handlers that add and update steps are coroutines without an await in   *)
(* between, so they exclude each other on the event loop; all others run   *)
(* in the thread pool.  A page of the builder is open from the request     *)
(* that rendered it to the one that saves a step from it, and may be out   *)
(* of date by then.  What a run does is in PipelineRuns.                   *)
(***************************************************************************)
EXTENDS Naturals, Sequences, SequencesExt, FiniteSets

CONSTANTS
  Requests,    \* requests under way, and open pages, at the same time
  NoRequest,   \* the event loop is free
  Names,       \* names of branches and tags
  MaxPipes,    \* bound: ids of pipelines are 1..MaxPipes
  MaxBirths,   \* bound: pipelines ever created
  MaxRuns,     \* bound: rows of pipeline_runs
  MaxTokens,   \* bound: webhook tokens ever generated
  MaxEdits     \* bound: changes of steps and settings ever committed

ASSUME RequestsAssumption == NoRequest \notin Requests
ASSUME BoundsAssumption ==
  MaxPipes \in Nat \ {0} /\ MaxBirths \in Nat /\ MaxRuns \in Nat /\ MaxTokens \in Nat /\ MaxEdits \in Nat

PipeIds == 1..MaxPipes

\* webhook_branch: the names its globs match, all of them for None.
Patterns == SUBSET Names

VARIABLES
  born,     \* the row of an id: 0 if there is none, or which pipeline it is
  steps,    \* steps_json: the steps of the pipeline
  token,    \* webhook_token, 0 for None
  pattern,  \* webhook_branch
  runs,     \* rows of pipeline_runs, as [pipe, born]
  loop,     \* the request that occupies the event loop
  req,      \* the requests
  births, minted, edits

rows == <<born, steps, token, pattern>>
vars == <<born, steps, token, pattern, runs, loop, req, births, minted, edits>>

LoopKinds == {"add", "update"}
ThreadKinds == {"remove", "move"}
TokenKinds == {"regenerate", "enable", "disable"}
HookKinds == {"hook", "hmac"}
RunKinds == HookKinds \union {"form"}

\* A step: which one it is since it was added, and the edit that wrote it.
\* astray is history: a page that was out of date saved its step over another.
NoStep == [id |-> 0, text |-> 0, astray |-> FALSE]

NoReq == [kind |-> "idle", pipe |-> 0, born |-> 0, index |-> 0, shown |-> NoStep, stale |-> FALSE,
          steps |-> <<>>, token |-> 0, pattern |-> Names, runs |-> {}, crossed |-> FALSE]

Idle(q) == req[q].kind = "idle"

\* A request loads row i and keeps what its handler uses; crossed is history:
\* did somebody else than an undisturbed coroutine write that row since?
Loaded(k, i, n) ==
  [kind |-> k, pipe |-> i, index |-> n, shown |-> NoStep, stale |-> FALSE,
   born    |-> IF k \in RunKinds THEN born[i] ELSE 0,
   steps   |-> IF k \in LoopKinds \union ThreadKinds \union {"duplicate", "page"} THEN steps[i] ELSE <<>>,
   token   |-> IF k \in TokenKinds THEN token[i] ELSE 0,
   pattern |-> IF k \in TokenKinds \union HookKinds \union {"duplicate"} THEN pattern[i] ELSE Names,
   runs    |-> IF k = "delete" THEN {r \in runs : r.pipe = i} ELSE {},
   crossed |-> FALSE]

Load(q, r) == Idle(q) /\ req' = [req EXCEPT ![q] = r]
Done(q) == req' = [req EXCEPT ![q] = NoReq]

\* The request is over, having written row i under whoever has read it.
DoneCrossing(q, i) ==
  req' = [p \in Requests |->
            IF p = q THEN NoReq
            ELSE [req[p] EXCEPT !.crossed = @ \/ (req[p].kind \in LoopKinds \union {"page"} /\ req[p].pipe = i)]]

-----------------------------------------------------------------------------
(* The builder: steps by index.                                            *)

\* The page of the builder, with the steps it shows.
OpenPage(q, i) ==
  /\ born[i] # 0 /\ steps[i] # <<>> /\ edits < MaxEdits
  /\ Load(q, Loaded("page", i, 0))
  /\ UNCHANGED <<rows, runs, loop, births, minted, edits>>

ClosePage(q) ==
  /\ req[q].kind = "page"
  /\ Done(q)
  /\ UNCHANGED <<rows, runs, loop, births, minted, edits>>

\* Fault: the handler is an ordinary function, served by a thread.
BeginAddOnThread(q, i) ==
  /\ born[i] # 0 /\ edits < MaxEdits
  /\ Load(q, Loaded("add", i, 0))
  /\ UNCHANGED <<rows, runs, loop, births, minted, edits>>

\* pipeline_add_step up to get_steps.
BeginAdd(q, i) ==
  /\ born[i] # 0 /\ loop = NoRequest /\ edits < MaxEdits
  /\ Load(q, Loaded("add", i, 0))
  /\ loop' = q
  /\ UNCHANGED <<rows, runs, births, minted, edits>>

Saved(i, n, page) ==
  [Loaded("update", i, n) EXCEPT !.shown = page.steps[n], !.stale = page.crossed]

\* editStep(n) has put the page's step into the form; pipeline_update_step up
\* to get_steps, from a page of row i.  The index is all that says which step
\* is meant.
SaveStep(q, i, n) ==
  /\ req[q].kind = "page" /\ req[q].pipe = i /\ n \in DOMAIN req[q].steps
  /\ born[i] # 0 /\ n \in DOMAIN steps[i]
  /\ loop = NoRequest /\ edits < MaxEdits
  /\ loop' = q
  /\ req' = [req EXCEPT ![q] = Saved(i, n, req[q])]
  /\ UNCHANGED <<rows, runs, births, minted, edits>>

\* A form is saved over another step than the one it was filled from.
Misses(r) == r.kind = "update" /\ r.steps[r.index].id # r.shown.id

Written(r, new) ==
  IF r.kind = "add" THEN [id |-> new, text |-> new, astray |-> FALSE]
  ELSE [id |-> r.shown.id, text |-> new, astray |-> Misses(r) \/ r.steps[r.index].astray]

\* set_steps.  The UPDATE goes to the id: it misses a deleted pipeline, and
\* hits a new one that has the id.
CommitLoopEdit(q) ==
  LET r == req[q]  new == Written(r, edits + 1) IN
  /\ r.kind \in LoopKinds /\ edits < MaxEdits
  /\ edits' = edits + 1
  /\ steps' = [steps EXCEPT ![r.pipe] =
       IF born[r.pipe] = 0 THEN @
       ELSE IF r.kind = "add" THEN Append(r.steps, new) ELSE [r.steps EXCEPT ![r.index] = new]]
  /\ loop' = NoRequest
  /\ IF r.crossed \/ Misses(r) THEN DoneCrossing(q, r.pipe) ELSE Done(q)
  /\ UNCHANGED <<born, token, pattern, runs, births, minted>>

\* pipeline_remove_step, and pipeline_move_step from n to n + 1 or back.
BeginThreadEdit(q, i, k, n) ==
  /\ born[i] # 0 /\ edits < MaxEdits
  /\ n \in DOMAIN steps[i] /\ (k = "move" => n + 1 \in DOMAIN steps[i])
  /\ Load(q, Loaded(k, i, n))
  /\ UNCHANGED <<rows, runs, loop, births, minted, edits>>

\* Fault: the moved step is copied over its neighbour.
MovedOver(s, n) == [s EXCEPT ![n + 1] = s[n]]

Moved(s, n) == [s EXCEPT ![n] = s[n + 1], ![n + 1] = s[n]]

CommitThreadEdit(q) ==
  LET r == req[q] IN
  /\ r.kind \in ThreadKinds /\ edits < MaxEdits
  /\ edits' = edits + 1
  /\ steps' = [steps EXCEPT ![r.pipe] =
       IF born[r.pipe] = 0 THEN @
       ELSE IF r.kind = "remove" THEN RemoveAt(r.steps, r.index) ELSE Moved(r.steps, r.index)]
  /\ DoneCrossing(q, r.pipe)
  /\ UNCHANGED <<born, token, pattern, runs, loop, births, minted>>

-----------------------------------------------------------------------------
(* Settings and tokens.                                                    *)

BeginSettings(q, i, k) ==
  /\ born[i] # 0 /\ edits < MaxEdits /\ (k = "regenerate" => minted < MaxTokens)
  /\ Load(q, Loaded(k, i, 0))
  /\ UNCHANGED <<rows, runs, loop, births, minted, edits>>

\* Fault: the token that was loaded is written back.
TokenWrittenBack(r, now) ==
  IF r.kind = "regenerate" \/ (r.kind = "enable" /\ r.token = 0) THEN minted + 1
  ELSE IF r.kind = "disable" THEN 0 ELSE r.token

\* The token after the commit; a column is written only where it differs from
\* what was loaded.
TokenAfter(r, now) ==
  IF r.kind = "regenerate" \/ (r.kind = "enable" /\ r.token = 0) THEN minted + 1
  ELSE IF r.kind = "disable" /\ r.token # 0 THEN 0 ELSE now

\* update_settings with its form, or regenerate_webhook_token.
CommitSettings(q, pat) ==
  LET r == req[q]  after == TokenAfter(r, token[r.pipe]) IN
  /\ r.kind \in TokenKinds /\ edits < MaxEdits
  /\ edits' = edits + 1
  /\ after <= MaxTokens
  /\ IF born[r.pipe] = 0 THEN UNCHANGED <<token, pattern, minted>>
     ELSE /\ token' = [token EXCEPT ![r.pipe] = after]
          /\ pattern' = [pattern EXCEPT ![r.pipe] = IF pat = r.pattern THEN @ ELSE pat]
          /\ minted' = IF after > minted THEN after ELSE minted
  /\ r.kind = "regenerate" => pat = r.pattern
  /\ Done(q)
  /\ UNCHANGED <<born, steps, runs, loop, births>>

-----------------------------------------------------------------------------
(* Rows: create, duplicate, delete.                                        *)

\* SQLite gives a new row the largest id in use plus one; webhook_token has a
\* default that generates one.
Insert(i, s, pat) ==
  /\ births < MaxBirths /\ minted < MaxTokens
  /\ born[i] = 0 /\ \A j \in PipeIds : born[j] # 0 <=> j < i
  /\ births' = births + 1
  /\ minted' = minted + 1
  /\ born' = [born EXCEPT ![i] = births + 1]
  /\ steps' = [steps EXCEPT ![i] = s]
  /\ token' = [token EXCEPT ![i] = minted + 1]
  /\ pattern' = [pattern EXCEPT ![i] = pat]
  /\ UNCHANGED <<runs, loop, edits>>

Create == \E i \in PipeIds : Insert(i, <<>>, Names) /\ UNCHANGED req

BeginDuplicate(q, i) ==
  /\ born[i] # 0 /\ births < MaxBirths /\ minted < MaxTokens
  /\ Load(q, Loaded("duplicate", i, 0))
  /\ UNCHANGED <<rows, runs, loop, births, minted, edits>>

CommitDuplicate(q) ==
  /\ req[q].kind = "duplicate"
  /\ \E i \in PipeIds : Insert(i, req[q].steps, req[q].pattern)
  /\ Done(q)

\* delete_pipeline reads the runs it will cancel and delete.
BeginDelete(q, i) ==
  /\ born[i] # 0
  /\ Load(q, Loaded("delete", i, 0))
  /\ UNCHANGED <<rows, runs, loop, births, minted, edits>>

\* Fault: the runs stay behind.
CommitDeleteKeepingRuns(q) ==
  LET i == req[q].pipe IN
  /\ req[q].kind = "delete"
  /\ born' = [born EXCEPT ![i] = 0]
  /\ steps' = [steps EXCEPT ![i] = <<>>]
  /\ token' = [token EXCEPT ![i] = 0]
  /\ pattern' = [pattern EXCEPT ![i] = Names]
  /\ DoneCrossing(q, i)
  /\ UNCHANGED <<runs, loop, births, minted, edits>>

\* db.delete with the cascade to those runs, whatever row has the id by now.
CommitDelete(q) ==
  LET i == req[q].pipe IN
  /\ req[q].kind = "delete"
  /\ born' = [born EXCEPT ![i] = 0]
  /\ steps' = [steps EXCEPT ![i] = <<>>]
  /\ token' = [token EXCEPT ![i] = 0]
  /\ pattern' = [pattern EXCEPT ![i] = Names]
  /\ runs' = runs \ req[q].runs
  /\ DoneCrossing(q, i)
  /\ UNCHANGED <<loop, births, minted, edits>>

-----------------------------------------------------------------------------
(* Webhooks: what the forges send, and what parse_webhook makes of it.     *)

\* What happened at a forge: a push of branches or tags, or of their deletion;
\* a plain call, with or without a ref; an event of another kind.  Only
\* Bitbucket tells of several changes at once.
Changes == [kind : {"branch", "tag"}, name : Names, gone : BOOLEAN]
One == {<<c>> : c \in Changes}

Pushes ==
  [forge : {"github", "gitea"}, encoding : {"json", "form"}, push : BOOLEAN, changes : One]
  \union [forge : {"gitlab"}, encoding : {"json"}, push : BOOLEAN, changes : One]
  \union [forge : {"bitbucket"}, encoding : {"json"}, push : BOOLEAN,
          changes : One \union (Changes \X Changes)]
  \union [forge : {"curl"}, encoding : {"json"}, push : {TRUE},
          changes : {<<>>} \union {<<c>> : c \in {c \in Changes : ~c.gone}}]

NoRef == [kind |-> "none", name |-> "none"]
RefOf(c) == [kind |-> c.kind, name |-> c.name]

EventOf(p) ==
  CASE ~p.push                          -> "other"
    [] p.push /\ p.forge = "gitlab"    -> IF Head(p.changes).kind = "tag" THEN "tag push hook" ELSE "push hook"
    [] p.push /\ p.forge = "bitbucket" -> "repo:push"
    [] p.push /\ p.forge = "curl"      -> "generic"
    [] OTHER                            -> "push"

\* The delivery: headers and payload, in the form of each forge.  A deletion
\* is a commit of zeros, for GitHub a flag as well.
Delivery(p) ==
  LET bitbucket == p.forge = "bitbucket"
      gone == ~bitbucket /\ p.changes # <<>> /\ Head(p.changes).gone
  IN [event    |-> EventOf(p),
      encoding |-> p.encoding,
      ref      |-> IF bitbucket \/ p.changes = <<>> THEN NoRef ELSE RefOf(Head(p.changes)),
      zero     |-> gone,
      deleted  |-> gone /\ p.forge = "github",
      changes  |-> IF bitbucket THEN p.changes ELSE <<>>]

PushEvents == {"push", "push hook", "tag push hook", "repo:push", "generic"}

\* The route with a token in its URL decodes form-encoded bodies as well.  The
\* route with a signature does not: it goes on as if there were no payload.
Payload(route, d) ==
  IF route = "hmac" /\ d.encoding = "form"
    THEN [d EXCEPT !.ref = NoRef, !.zero = FALSE, !.deleted = FALSE, !.changes = <<>>]
    ELSE d

\* Fault: Bitbucket's way of saying that a branch is gone is not known.
ParseKeepingDeleted(d) ==
  [ref  |-> IF d.ref = NoRef /\ d.changes # <<>> THEN RefOf(Head(d.changes)) ELSE d.ref,
   skip |-> d.event \notin PushEvents \/ d.deleted \/ d.zero]

\* parse_webhook: the ref that was pushed, and whether to skip the delivery.
\* Of several changes it looks at the first one.
ParseWebhook(d) ==
  LET gone == d.changes # <<>> /\ Head(d.changes).gone
  IN [ref  |-> IF d.ref = NoRef /\ d.changes # <<>> /\ ~gone THEN RefOf(Head(d.changes)) ELSE d.ref,
      skip |-> d.event \notin PushEvents \/ d.deleted \/ d.zero \/ gone]

BranchMatches(pat, ref) == ref = NoRef \/ ref.name \in pat

Starts(route, d, pat) ==
  LET parsed == ParseWebhook(Payload(route, d))
  IN ~parsed.skip /\ BranchMatches(pat, parsed.ref)

\* GitLab and Bitbucket do not sign the way the second route asks for: 403.
Accepted(route, p) == route = "hmac" => p.forge \notin {"gitlab", "bitbucket"}

\* What a route can make of the pushes there are.
Verdicts ==
  [route \in HookKinds |->
     [pat \in Patterns |-> {Accepted(route, p) /\ Starts(route, Delivery(p), pat) : p \in Pushes}]]

-----------------------------------------------------------------------------
(* Launching runs.                                                         *)

\* The two hook routes find the pipeline of their URL and wait for the body;
\* "form" is the trigger route with its token, and the forms, without one.
BeginRun(q, i, k) ==
  /\ Cardinality(runs) < MaxRuns
  /\ born[i] # 0 /\ (k # "form" => token[i] # 0) /\ (k \in HookKinds => loop = NoRequest)
  /\ Load(q, Loaded(k, i, 0))
  /\ UNCHANGED <<rows, runs, loop, births, minted, edits>>

\* pipeline_run_rerun: the pipeline of an old run, which need not exist.
BeginRerun(q, r) ==
  /\ r \in runs
  /\ Load(q, [NoReq EXCEPT !.kind = "form", !.pipe = r.pipe, !.born = r.born])
  /\ UNCHANGED <<rows, runs, loop, births, minted, edits>>

\* launch_run does not look at the pipeline.  born is history: 0 if the
\* pipeline is gone, or a deletion has read its runs already.
Run(r) ==
  LET late == born[r.pipe] # r.born \/ \E q \in Requests : req[q].kind = "delete" /\ req[q].pipe = r.pipe
  IN [pipe |-> r.pipe, born |-> IF late THEN 0 ELSE r.born]

Launch(q) ==
  /\ req[q].kind \in {"form"}
  /\ runs' = runs \union {Run(req[q])}
  /\ Cardinality(runs') <= MaxRuns
  /\ Done(q)
  /\ UNCHANGED <<rows, loop, births, minted, edits>>

\* The body has arrived, of whatever push it tells.
LaunchHook(q) ==
  LET r == req[q] IN
  /\ r.kind \in HookKinds /\ loop = NoRequest
  /\ \E starts \in Verdicts[r.kind][r.pattern] :
       runs' = IF starts THEN runs \union {Run(r)} ELSE runs
  /\ Cardinality(runs') <= MaxRuns
  /\ Done(q)
  /\ UNCHANGED <<rows, loop, births, minted, edits>>

-----------------------------------------------------------------------------
Init ==
  /\ born = [i \in PipeIds |-> 0]
  /\ steps = [i \in PipeIds |-> <<>>]
  /\ token = [i \in PipeIds |-> 0]
  /\ pattern = [i \in PipeIds |-> Names]
  /\ runs = {}
  /\ loop = NoRequest
  /\ req = [q \in Requests |-> NoReq]
  /\ births = 0 /\ minted = 0 /\ edits = 0

Begin(q, i) ==
  \/ \E n \in 0..MaxEdits :
       \/ SaveStep(q, i, n)
       \/ \E k \in ThreadKinds : BeginThreadEdit(q, i, k, n)
  \/ \E k \in TokenKinds : BeginSettings(q, i, k)
  \/ OpenPage(q, i) \/ BeginAdd(q, i) \/ BeginDuplicate(q, i) \/ BeginDelete(q, i)
  \/ \E k \in RunKinds : BeginRun(q, i, k)

Commit(q) ==
  \/ ClosePage(q) \/ CommitLoopEdit(q) \/ CommitThreadEdit(q)
  \/ \E pat \in Patterns : CommitSettings(q, pat)
  \/ CommitDuplicate(q) \/ CommitDelete(q) \/ Launch(q) \/ LaunchHook(q)

Next ==
  \/ Create
  \/ \E q \in Requests : Commit(q) \/ (\E i \in PipeIds : Begin(q, i)) \/ (\E r \in runs : BeginRerun(q, r))

Spec == Init /\ [][Next]_vars

-----------------------------------------------------------------------------
\* However edits overlap, a pipeline contains a step twice only if a page that
\* was out of date has saved its step over another one: the form names a step
\* by its index alone (builder.html:389-405, pipeline_engine.py:549-556).
NoStepTwice ==
  \A i \in PipeIds : \A m, n \in DOMAIN steps[i] :
    m # n /\ steps[i][m].id = steps[i][n].id => steps[i][m].astray \/ steps[i][n].astray

\* Steps are added and updated by coroutines: what such an edit overwrites is
\* what it has read, unless a removal, a move or a deletion came between; and
\* the step it replaces is the one the page showed, unless one of these, or an
\* edit they had disturbed, came after the page.
LoopEditsLoseNothing ==
  [][\A q \in Requests : CommitLoopEdit(q) =>
       /\ ~req[q].crossed => req[q].steps = steps[req[q].pipe]
       /\ ~req[q].stale => ~Misses(req[q])]_vars

\* "New webhook URL generated - the old one no longer works."
\* (pipeline_routes.py:240): a token that was replaced or disabled never comes
\* back, whatever forms were loaded while it was valid.
DeadTokensStayDead ==
  [][\A i \in PipeIds : token'[i] \in {token[i], 0} \/ token'[i] > minted]_vars

\* Every run is a run of the pipeline it was launched for, unless its launch
\* fell into a deletion (delete_pipeline's cascade takes all others).
RunsBelong == \A r \in runs : r.born \in {0, born[r.pipe]}

\* A push starts a run exactly when the settings ask for it: it is not one of a
\* deletion and its branch or tag matches; a plain call always.  Of a push of
\* several branches the first one decides (pipeline_engine.py:644-652), and a
\* form-encoded delivery to the signed route is not looked into: it starts a
\* run whatever was pushed or deleted (pipeline_routes.py:469-474).
Wanted(p, pat) ==
  p.push /\ (p.changes = <<>> \/ (~Head(p.changes).gone /\ Head(p.changes).name \in pat))

Understood ==
  [route \in HookKinds |->
     {pat \in Patterns :
        \A p \in Pushes : Accepted(route, p) =>
          (Starts(route, Delivery(p), pat) <=>
             IF route = "hmac" /\ p.encoding = "form" THEN p.push ELSE Wanted(p, pat))}]

PushesAreUnderstood ==
  \A q \in Requests : req[q].kind \in HookKinds => req[q].pattern \in Understood[req[q].kind]

=============================================================================
