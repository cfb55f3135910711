------------------------------- MODULE GitRepos -------------------------------
(***************************************************************************)
(* Git repositories: the rows of git_repos, the checkouts on the cockpit's *)
(* disk and on a server, and the requests and pipeline runs that work on   *)
(* both without a lock per repository (src/app/modules/git_mgr.py,         *)
(* src/app/routes/git_routes.py, src/app/modules/ssh_mgr.py).              *)
(*                                                                         *)
(* A repository is its name: the name is unique in the table, and is the   *)
(* directory of a local checkout.  A name is always registered for the     *)
(* same place and with the same kind of authentication.  One action is one *)
(* database commit, one git or rm command, or one write of .git/config.    *)
(***************************************************************************)
EXTENDS Naturals, FiniteSets

CONSTANTS
  Actors,       \* request threads and pipeline workers
  NoActor,      \* a free lock, a directory nobody is cloning into
  Pipelines,    \* pipelines that pull a repository and run its scripts
  NoPipe,       \* the pipeline of an actor that is a page's request
  Repos,        \* names of repositories
  NoRepo,       \* the repository of an idle actor
  MaxCrashes,   \* bound: crashes of the cockpit process
  MaxOrphans    \* bound: commands that go on with nobody waiting, at a time

ASSUME ActorsAssumption == NoActor \notin Actors
ASSUME PipelinesAssumption == NoPipe \notin Pipelines
ASSUME ReposAssumption == NoRepo \notin Repos
ASSUME CrashesAssumption == MaxCrashes \in Nat
ASSUME OrphansAssumption == MaxOrphans \in Nat

VARIABLES
  place,    \* where a name is registered for: "local" or "server"; never changes
  auth,     \* how it authenticates: "https" or "ssh_key"; never changes
  \* the database
  row,      \* git_repos by name: "none", or where the row says the checkout is
  scripts,  \* is there a repo_scripts row of this repository?
  server,   \* is there a row of the SSH server?
  \* the disks
  disk,     \* the directory: absent, half a clone, a clone
  cloner,   \* whose git clone is filling the directory
  origin,   \* the URL in .git/config: clean, or with the credential in it
  \* the process
  lock,     \* the pipeline locks
  pc, on, pipe, \* an actor: where it is, its repository, its pipeline
  gone,     \* the row this deletion has read was deleted by another one
  pulled,   \* did the run's pull succeed?
  touched,  \* history: who moved the checkout since this actor's pull
  fault,    \* history: something has come between row and checkout
  leak,     \* history: an operation ended with the credential in the URL
  orphans,  \* git and rm commands that go on while nobody waits for them
  crashes

rows == <<row, scripts, server>>
names == <<place, auth>>
files == <<disk, cloner, origin>>
history == <<fault, leak>>
vars == <<place, auth, row, scripts, server, disk, cloner, origin, lock, pc, on, pipe,
          gone, pulled, touched, fault, leak, orphans, crashes>>

Labels == {"idle", "check", "clone", "cloning", "cleanup", "insert", "remove", "unrow",
           "wait", "set", "fetch", "reset", "build", "unlock", "pushset", "push", "pushreset"}
RunLabels == {"set", "fetch", "reset", "build", "unlock"}

Https(n) == auth[n] = "https"
Local(n) == place[n] = "local"
Placed(n) == row[n] \in {"local", "server"}
Goto(a, l) == pc' = [pc EXCEPT ![a] = l]

\* The actor is through; its thread may serve another request.
Leave(a) ==
  /\ Goto(a, "idle")
  /\ pipe' = [pipe EXCEPT ![a] = NoPipe]
  /\ gone' = [gone EXCEPT ![a] = FALSE]
  /\ pulled' = [pulled EXCEPT ![a] = FALSE]
  /\ touched' = [touched EXCEPT ![a] = {}]
  /\ on' = [on EXCEPT ![a] = NoRepo]

Busy(a, n) == on[a] = n

\* What actor a is running for its repository goes on without it: its clone if
\* the directory is still that one, its pull, or the `rm` of the whole.
Orphan(a, kind) ==
  {c \in [repo : {on[a]}, kind : {kind}] :
     /\ disk[on[a]] # "none" /\ (kind = "clone" => cloner[on[a]] = a)
     /\ Cardinality(orphans) < MaxOrphans}

\* The directory is removed: nothing goes on in it.
OrphansNotIn(n) == {c \in orphans : c.repo # n}

\* The directory of n and all that is in it is gone.
Removed(n) ==
  /\ disk' = [disk EXCEPT ![n] = "none"]
  /\ cloner' = [cloner EXCEPT ![n] = NoActor]
  /\ origin' = [origin EXCEPT ![n] = "plain"]
  /\ leak' = [leak EXCEPT ![n] = FALSE]
  /\ orphans' = OrphansNotIn(n)

\* `rm -rf` or rmtree ended before it was done, and nobody looks at how.
HalfRemoved(n) ==
  /\ disk' = [disk EXCEPT ![n] = IF @ = "none" THEN "none" ELSE "half"]
  /\ UNCHANGED <<cloner, origin, orphans>>

Fault(n) == fault' = [fault EXCEPT ![n] = TRUE]

-----------------------------------------------------------------------------
(* Requests of the git pages, and runs of pipelines.                       *)

Begin(a, n, l, p) ==
  /\ pc[a] = "idle"
  /\ Goto(a, l)
  /\ on' = [on EXCEPT ![a] = n]
  /\ pipe' = [pipe EXCEPT ![a] = p]
  /\ UNCHANGED <<rows, files, lock, gone, pulled, touched, leak, orphans, names, crashes>>

\* A deploy server must be a row; a name with nothing left of it starts anew.
BeginRegister(a, n) ==
  /\ ~Local(n) => server
  /\ Begin(a, n, "check", NoPipe)
  /\ fault' = [fault EXCEPT ![n] = @ /\ (row[n] # "none" \/ disk[n] # "none" \/ \E b \in Actors : Busy(b, n))]

BeginDelete(a, n) == row[n] # "none" /\ Begin(a, n, "remove", NoPipe) /\ UNCHANGED fault
BeginPull(a, n) == Placed(n) /\ Begin(a, n, "set", NoPipe) /\ UNCHANGED fault

\* Not for a repository on a server; a tree without changes ends at once.
BeginPush(a, n) == row[n] = "local" /\ Begin(a, n, "pushset", NoPipe) /\ UNCHANGED fault
BeginRun(a, n, p) == Begin(a, n, "wait", p) /\ UNCHANGED fault

-----------------------------------------------------------------------------
(* register_and_clone.                                                     *)

\* local_path_obj.exists(), or `test -e` on the server.
CheckPath(a) ==
  /\ pc[a] = "check"
  /\ \/ disk[on[a]] = "none" /\ Goto(a, "clone") /\ UNCHANGED <<on, pipe, gone, pulled, touched>>
     \/ disk[on[a]] # "none" /\ Leave(a)
  /\ UNCHANGED <<rows, files, lock, history, orphans, names, crashes>>

\* git creates the directory and writes the URL it was given into its config.
CloneStarts(a) ==
  /\ pc[a] = "clone" /\ disk[on[a]] = "none"
  /\ disk' = [disk EXCEPT ![on[a]] = "half"]
  /\ cloner' = [cloner EXCEPT ![on[a]] = a]
  /\ origin' = [origin EXCEPT ![on[a]] = IF Https(on[a]) THEN "authed" ELSE "plain"]
  /\ Goto(a, "cloning")
  /\ UNCHANGED <<rows, lock, on, pipe, gone, pulled, touched, history, orphans, names, crashes>>

\* git refuses a directory that is there by now.
CloneRefused(a) ==
  /\ pc[a] = "clone" /\ disk[on[a]] # "none"
  /\ Goto(a, "cleanup")
  /\ UNCHANGED <<rows, files, lock, on, pipe, gone, pulled, touched, history, orphans, names, crashes>>

\* The credential stays in the new clone's config.
CloneEnds(a) ==
  /\ pc[a] = "cloning" /\ cloner[on[a]] = a
  /\ disk' = [disk EXCEPT ![on[a]] = "cloned"]
  /\ cloner' = [cloner EXCEPT ![on[a]] = NoActor]
  /\ leak' = [leak EXCEPT ![on[a]] = origin[on[a]] = "authed"]
  /\ Goto(a, "insert")
  /\ UNCHANGED <<rows, origin, lock, on, pipe, gone, pulled, touched, fault, orphans, names, crashes>>

\* GitCommandError, or an exit code on the server: part of it may be there.
CloneFails(a) ==
  /\ pc[a] = "cloning"
  /\ cloner' = [n \in Repos |-> IF cloner[n] = a THEN NoActor ELSE cloner[n]]
  /\ Goto(a, "cleanup")
  /\ UNCHANGED <<rows, disk, origin, lock, on, pipe, gone, pulled, touched, history, orphans, names, crashes>>

\* Fault: a failed clone is left as it is.
CleanUpNothing(a) ==
  /\ pc[a] = "cleanup"
  /\ Leave(a)
  /\ UNCHANGED <<rows, files, lock, history, orphans, names, crashes>>

\* rmtree or rm -rf of the path, whoever filled it.  Removing what another
\* registration has cloned, or is cloning, is a fault.  On the server the rm
\* goes over a connection of its own, which may fail, and its exit code is
\* ignored; if its answer is late, it goes on.
CleanUp(a) ==
  /\ pc[a] = "cleanup"
  /\ Leave(a)
  /\ \/ /\ Removed(on[a])
        /\ fault' = [fault EXCEPT ![on[a]] = @ \/ disk[on[a]] = "cloned" \/ cloner[on[a]] # NoActor]
     \/ /\ ~Local(on[a]) /\ Fault(on[a])
        /\ leak' = [leak EXCEPT ![on[a]] = origin[on[a]] = "authed"]
        /\ \/ HalfRemoved(on[a])
           \/ orphans' = orphans \union Orphan(a, "rm") /\ UNCHANGED files
           \/ UNCHANGED <<files, orphans>>
  /\ UNCHANGED <<rows, lock, names, crashes>>

\* db.add(repo); db.commit(): a second row of that name is an IntegrityError,
\* and the server the row names may have been deleted meanwhile.
Insert(a) ==
  /\ pc[a] = "insert"
  /\ IF row[on[a]] = "none"
       THEN /\ row' = [row EXCEPT ![on[a]] = IF Local(on[a]) THEN "local"
                                             ELSE IF server THEN "server" ELSE "nowhere"]
            /\ fault' = [fault EXCEPT ![on[a]] = @ \/ (~Local(on[a]) /\ ~server)]
       ELSE Fault(on[a]) /\ UNCHANGED row
  /\ Leave(a)
  /\ UNCHANGED <<scripts, server, files, lock, leak, orphans, names, crashes>>

-----------------------------------------------------------------------------
(* delete_repo.                                                            *)

\* Local files are removed, files on a server if it answers, and no files if
\* the server is no longer known: local_path is empty then.  Errors of rmtree
\* and the exit code of rm are ignored.
Remove(a) ==
  /\ pc[a] = "remove"
  /\ \/ /\ Local(on[a]) \/ row[on[a]] = "server"
        /\ Removed(on[a])
        /\ fault' = [fault EXCEPT ![on[a]] =
             @ \/ gone[a] \/ \E b \in Actors : Busy(b, on[a]) /\ pc[b] \in {"cloning", "insert"}]
     \/ Fault(on[a]) /\ HalfRemoved(on[a]) /\ UNCHANGED leak
     \/ ~Local(on[a]) /\ Fault(on[a]) /\ UNCHANGED <<files, leak, orphans>>
  /\ Goto(a, "unrow")
  /\ UNCHANGED <<rows, lock, on, pipe, gone, pulled, touched, names, crashes>>

\* A time-out is not the SSHError that is ignored: the row stays, the rm goes on.
RemoveTimesOut(a) ==
  /\ pc[a] = "remove" /\ row[on[a]] = "server"
  /\ orphans' = orphans \union Orphan(a, "rm")
  /\ Fault(on[a])
  /\ Leave(a)
  /\ UNCHANGED <<rows, files, lock, leak, names, crashes>>

\* db.delete(repo); db.commit(): its scripts' repo_id cannot become NULL.  A
\* row that another deletion took is no longer there to delete, unless a new
\* row has its id.
RemoveRow(a) ==
  /\ pc[a] = "unrow"
  /\ \/ /\ ~scripts[on[a]]
        /\ row' = [row EXCEPT ![on[a]] = "none"]
        /\ gone' = [b \in Actors |-> b # a /\ (gone[b] \/ (Busy(b, on[a]) /\ pc[b] \in {"remove", "unrow"}))]
        /\ fault' = [fault EXCEPT ![on[a]] = @ \/ (gone[a] /\ row[on[a]] # "none")]
     \/ /\ scripts[on[a]] \/ gone[a]
        /\ Fault(on[a])
        /\ gone' = [gone EXCEPT ![a] = FALSE]
        /\ UNCHANGED row
  /\ Goto(a, "idle")
  /\ on' = [on EXCEPT ![a] = NoRepo]
  /\ UNCHANGED <<scripts, server, files, lock, pipe, pulled, touched, leak, orphans, names, crashes>>

-----------------------------------------------------------------------------
(* pull, from the page and from a run's git_pull step.                     *)

\* Where an actor goes when its pull is over: a run goes on to its build when
\* the pull succeeded or the step may fail, and to its end otherwise.
AfterPull(a) ==
  IF pipe[a] = NoPipe THEN Leave(a)
  ELSE /\ \/ Goto(a, "build")
          \/ ~pulled[a] /\ Goto(a, "unlock")
       /\ UNCHANGED <<on, pipe, gone, pulled, touched>>

\* open_repo; then config_writer puts the credential into the URL.  With an
\* SSH key the URL stays and the key is a temporary file.
SetUrl(a) ==
  /\ pc[a] = "set"
  /\ \/ /\ disk[on[a]] # "none"
        /\ origin' = [origin EXCEPT ![on[a]] = IF Https(on[a]) THEN "authed" ELSE @]
        /\ Goto(a, "fetch")
        /\ UNCHANGED <<on, pipe, gone, pulled, touched>>
     \/ disk[on[a]] = "none" /\ AfterPull(a) /\ UNCHANGED origin
  /\ UNCHANGED <<rows, disk, cloner, lock, history, orphans, names, crashes>>

\* Every run that has pulled repository n sees it moved by p.
Moved(n, p) ==
  [b \in Actors |-> IF Busy(b, n) /\ pulled[b] /\ pipe[b] # NoPipe
                      THEN touched[b] \union {p} ELSE touched[b]]

\* fetch, checkout of the wanted branch, pull.  Each may fail, the last one
\* after the branch was switched.
Fetch(a) ==
  /\ pc[a] = "fetch"
  /\ \E ok \in BOOLEAN :
       /\ ok => disk[on[a]] = "cloned"
       /\ pulled' = [pulled EXCEPT ![a] = ok]
  /\ touched' = Moved(on[a], pipe[a])
  /\ Goto(a, "reset")
  /\ UNCHANGED <<rows, files, lock, on, pipe, gone, history, orphans, names, crashes>>

\* Fault: the clean URL is written only after a pull that succeeded.
ResetAfterSuccess(a) ==
  /\ pc[a] = "reset"
  /\ origin' = [origin EXCEPT ![on[a]] = IF Https(on[a]) /\ pulled[a] THEN "plain" ELSE @]
  /\ leak' = [leak EXCEPT ![on[a]] = @ /\ ~Https(on[a])]
  /\ AfterPull(a)
  /\ UNCHANGED <<rows, disk, cloner, lock, fault, orphans, names, crashes>>

\* The finally block, or what follows the `;` in the server's command.
ResetUrl(a) ==
  /\ pc[a] = "reset"
  /\ origin' = [origin EXCEPT ![on[a]] = IF Https(on[a]) THEN "plain" ELSE @]
  /\ leak' = [leak EXCEPT ![on[a]] = @ /\ ~Https(on[a])]
  /\ AfterPull(a)
  /\ UNCHANGED <<rows, disk, cloner, lock, fault, orphans, names, crashes>>

\* The answer of the server does not come in time: the caller goes on, with
\* nothing cleaned up, and so does the command at the server.
AnswerLost(a) ==
  /\ pc[a] \in {"cloning", "fetch", "reset"} /\ ~Local(on[a])
  /\ cloner' = [n \in Repos |-> IF cloner[n] = a THEN NoActor ELSE cloner[n]]
  /\ leak' = [leak EXCEPT ![on[a]] = origin[on[a]] = "authed"]
  /\ IF pc[a] = "cloning"
       THEN Fault(on[a]) /\ Leave(a) /\ orphans' = orphans \union Orphan(a, "clone")
       ELSE AfterPull(a) /\ orphans' = orphans \union Orphan(a, "pull") /\ UNCHANGED fault
  /\ UNCHANGED <<rows, disk, origin, lock, names, crashes>>

\* The server cannot be reached at all.
Unreached(a) ==
  /\ pc[a] \in {"check", "clone", "set"} /\ ~Local(on[a])
  /\ IF pc[a] = "set" THEN AfterPull(a) ELSE Leave(a)
  /\ UNCHANGED <<rows, files, lock, history, orphans, names, crashes>>

-----------------------------------------------------------------------------
(* Commands nobody waits for, after a lost answer or a crash.              *)

OrphanEnds(c) ==
  /\ orphans' = orphans \ {c}
  /\ UNCHANGED <<rows, lock, pc, on, pipe, gone, pulled, fault, names, crashes>>

OrphanClones(c) ==
  /\ c.kind = "clone"
  /\ OrphanEnds(c)
  /\ disk' = [disk EXCEPT ![c.repo] = "cloned"]
  /\ UNCHANGED <<cloner, origin, touched, leak>>

\* A pull that holds no lock any more.  At the server it puts the clean URL
\* back; the same is a finally block of the process for a local checkout.
OrphanPulls(c) ==
  /\ c.kind = "pull"
  /\ OrphanEnds(c)
  /\ touched' = Moved(c.repo, NoPipe)
  /\ LET clean == Https(c.repo) /\ ~Local(c.repo)
     IN  /\ origin' = [origin EXCEPT ![c.repo] = IF clean THEN "plain" ELSE @]
         /\ leak' = [leak EXCEPT ![c.repo] = @ /\ ~clean]
  /\ UNCHANGED <<disk, cloner>>

OrphanRemoves(c) ==
  /\ c.kind = "rm"
  /\ Removed(c.repo)
  /\ UNCHANGED <<rows, lock, pc, on, pipe, gone, pulled, touched, fault, names, crashes>>

OrphanDies(c) == OrphanEnds(c) /\ UNCHANGED <<files, touched, leak>>

OrphanStep(c) == OrphanClones(c) \/ OrphanPulls(c) \/ OrphanRemoves(c) \/ OrphanDies(c)

-----------------------------------------------------------------------------
(* commit_and_push, checkout, scripts.                                     *)

\* The commit; with a change to push the credential goes into the URL.
PushSet(a) ==
  /\ pc[a] = "pushset"
  /\ \/ /\ disk[on[a]] = "cloned"
        /\ origin' = [origin EXCEPT ![on[a]] = IF Https(on[a]) THEN "authed" ELSE @]
        /\ Goto(a, "push")
        /\ UNCHANGED <<on, pipe, gone, pulled, touched>>
     \/ Leave(a) /\ UNCHANGED origin
  /\ UNCHANGED <<rows, disk, cloner, lock, history, orphans, names, crashes>>

\* There is no finally here: a push that fails leaves the URL as it is.
Push(a) ==
  /\ pc[a] = "push"
  /\ \/ Goto(a, "pushreset") /\ UNCHANGED <<on, pipe, gone, pulled, touched, leak>>
     \/ Leave(a) /\ leak' = [leak EXCEPT ![on[a]] = origin[on[a]] = "authed"]
  /\ UNCHANGED <<rows, files, lock, fault, orphans, names, crashes>>

PushReset(a) ==
  /\ pc[a] = "pushreset"
  /\ origin' = [origin EXCEPT ![on[a]] = IF Https(on[a]) THEN "plain" ELSE @]
  /\ leak' = [leak EXCEPT ![on[a]] = @ /\ ~Https(on[a])]
  /\ Leave(a)
  /\ UNCHANGED <<rows, disk, cloner, lock, fault, orphans, names, crashes>>

\* git checkout from the page.
Checkout(n) ==
  /\ Placed(n) /\ disk[n] = "cloned"
  /\ touched' = Moved(n, NoPipe)
  /\ UNCHANGED <<rows, files, lock, pc, on, pipe, gone, pulled, history, orphans, names, crashes>>

CreateScript(n) ==
  /\ row[n] # "none" /\ ~scripts[n]
  /\ scripts' = [scripts EXCEPT ![n] = TRUE]
  /\ UNCHANGED <<row, server, files, lock, pc, on, pipe, gone, pulled, touched, history, orphans, names, crashes>>

DeleteScript(n) ==
  /\ scripts[n]
  /\ scripts' = [scripts EXCEPT ![n] = FALSE]
  /\ UNCHANGED <<row, server, files, lock, pc, on, pipe, gone, pulled, touched, history, orphans, names, crashes>>

-----------------------------------------------------------------------------
(* A pipeline run: under its pipeline's lock it pulls and runs a script.   *)

\* Fault: the lock is ignored.
EnterAnyway(a) ==
  /\ pc[a] = "wait"
  /\ lock' = [lock EXCEPT ![pipe[a]] = a]
  /\ Goto(a, IF Placed(on[a]) THEN "set" ELSE "unlock")
  /\ UNCHANGED <<rows, files, on, pipe, gone, pulled, touched, history, orphans, names, crashes>>

Enter(a) ==
  /\ pc[a] = "wait" /\ lock[pipe[a]] = NoActor
  /\ lock' = [lock EXCEPT ![pipe[a]] = a]
  /\ Goto(a, IF Placed(on[a]) THEN "set" ELSE "unlock")
  /\ UNCHANGED <<rows, files, on, pipe, gone, pulled, touched, history, orphans, names, crashes>>

\* repo_run_script, with the checkout as its working directory.
Build(a) ==
  /\ pc[a] = "build"
  /\ Goto(a, "unlock")
  /\ UNCHANGED <<rows, files, lock, on, pipe, gone, pulled, touched, history, orphans, names, crashes>>

Unlock(a) ==
  /\ pc[a] = "unlock"
  /\ lock' = [lock EXCEPT ![pipe[a]] = NoActor]
  /\ Leave(a)
  /\ UNCHANGED <<rows, files, history, orphans, names, crashes>>

-----------------------------------------------------------------------------
(* The SSH server's row, and crashes of the cockpit.                       *)

\* The row matters only to repositories on the server.
CreateServer ==
  /\ ~server /\ \E n \in Repos : ~Local(n)
  /\ server' = TRUE
  /\ UNCHANGED <<row, scripts, files, lock, pc, on, pipe, gone, pulled, touched, history, orphans, names, crashes>>

\* db.delete(server) sets deploy_server_id to NULL in the repositories on it,
\* which makes them local ones with an empty path.
DeleteServer ==
  /\ server
  /\ server' = FALSE
  /\ row' = [n \in Repos |-> IF row[n] = "server" THEN "nowhere" ELSE row[n]]
  /\ fault' = [n \in Repos |-> fault[n] \/ row[n] = "server"]
  /\ UNCHANGED <<scripts, files, lock, pc, on, pipe, gone, pulled, touched, leak, orphans, names, crashes>>

\* A git command outlives the cockpit; the finally blocks do not.
Outlived(a) ==
  IF pc[a] = "cloning" THEN Orphan(a, "clone")
  ELSE IF pc[a] = "fetch" \/ (pc[a] = "reset" /\ ~Local(on[a])) THEN Orphan(a, "pull")
  ELSE {}

Crash ==
  /\ crashes < MaxCrashes
  /\ crashes' = crashes + 1
  /\ fault' = [n \in Repos |-> fault[n] \/ \E a \in Actors : Busy(a, n)]
  /\ leak' = [n \in Repos |-> leak[n] \/ ((\E a \in Actors : Busy(a, n)) /\ origin[n] = "authed")]
  /\ orphans' = orphans \union UNION {Outlived(a) : a \in Actors}
  /\ cloner' = [n \in Repos |-> NoActor]
  /\ lock' = [p \in Pipelines |-> NoActor]
  /\ pc' = [a \in Actors |-> "idle"]
  /\ on' = [a \in Actors |-> NoRepo]
  /\ pipe' = [a \in Actors |-> NoPipe]
  /\ gone' = [a \in Actors |-> FALSE]
  /\ pulled' = [a \in Actors |-> FALSE]
  /\ touched' = [a \in Actors |-> {}]
  /\ UNCHANGED <<rows, disk, origin, names>>

-----------------------------------------------------------------------------
Init ==
  /\ place \in [Repos -> {"local", "server"}]
  /\ auth \in [Repos -> {"https", "ssh_key"}]
  /\ row = [n \in Repos |-> "none"]
  /\ scripts = [n \in Repos |-> FALSE]
  /\ server = FALSE
  /\ disk = [n \in Repos |-> "none"]
  /\ cloner = [n \in Repos |-> NoActor]
  /\ origin = [n \in Repos |-> "plain"]
  /\ lock = [p \in Pipelines |-> NoActor]
  /\ pc = [a \in Actors |-> "idle"]
  /\ on = [a \in Actors |-> NoRepo]
  /\ pipe = [a \in Actors |-> NoPipe]
  /\ gone = [a \in Actors |-> FALSE]
  /\ pulled = [a \in Actors |-> FALSE]
  /\ touched = [a \in Actors |-> {}]
  /\ fault = [n \in Repos |-> FALSE]
  /\ leak = [n \in Repos |-> FALSE]
  /\ orphans = {}
  /\ crashes = 0

BeginAny(a, n) ==
  \/ BeginRegister(a, n) \/ BeginDelete(a, n) \/ BeginPull(a, n) \/ BeginPush(a, n)
  \/ \E p \in Pipelines : BeginRun(a, n, p)

Step(a) ==
  \/ CheckPath(a) \/ CloneStarts(a) \/ CloneRefused(a) \/ CloneEnds(a) \/ CloneFails(a)
  \/ CleanUp(a) \/ Insert(a) \/ Remove(a) \/ RemoveTimesOut(a) \/ RemoveRow(a)
  \/ SetUrl(a) \/ Fetch(a) \/ ResetUrl(a) \/ AnswerLost(a) \/ Unreached(a)
  \/ PushSet(a) \/ Push(a) \/ PushReset(a) \/ Enter(a) \/ Build(a) \/ Unlock(a)

Next ==
  \/ \E a \in Actors : Step(a) \/ \E n \in Repos : BeginAny(a, n)
  \/ \E n \in Repos : Checkout(n) \/ CreateScript(n) \/ DeleteScript(n)
  \/ \E c \in orphans : OrphanStep(c)
  \/ CreateServer \/ DeleteServer \/ Crash

Spec == Init /\ [][Next]_vars

-----------------------------------------------------------------------------
TypeOK ==
  /\ place \in [Repos -> {"local", "server"}]
  /\ auth \in [Repos -> {"https", "ssh_key"}]
  /\ row \in [Repos -> {"none", "local", "server", "nowhere"}]
  /\ scripts \in [Repos -> BOOLEAN]
  /\ server \in BOOLEAN
  /\ disk \in [Repos -> {"none", "half", "cloned"}]
  /\ cloner \in [Repos -> Actors \union {NoActor}]
  /\ origin \in [Repos -> {"plain", "authed"}]
  /\ lock \in [Pipelines -> Actors \union {NoActor}]
  /\ pc \in [Actors -> Labels]
  /\ on \in [Actors -> Repos \union {NoRepo}]
  /\ pipe \in [Actors -> Pipelines \union {NoPipe}]
  /\ gone \in [Actors -> BOOLEAN]
  /\ pulled \in [Actors -> BOOLEAN]
  /\ touched \in [Actors -> SUBSET (Pipelines \union {NoPipe})]
  /\ fault \in [Repos -> BOOLEAN]
  /\ leak \in [Repos -> BOOLEAN]
  /\ orphans \subseteq [repo : Repos, kind : {"clone", "pull", "rm"}]
  /\ crashes \in 0..MaxCrashes

\* Once a run has pulled, what it builds has been moved since by a page, by
\* another pipeline or by a pull that goes on at the server after its answer was
\* lost (git_mgr.py:474), never by a run of its own pipeline that is being
\* worked on: the pipeline lock is the only protection a checkout has.
BuildsOwnPull ==
  \A a \in Actors : pulled[a] /\ pipe[a] # NoPipe => pipe[a] \notin touched[a]

\* The credential is in .git/config only while somebody is cloning, pulling or
\* pushing there, or because the operation before ended with it there: a clone,
\* a push that failed, a lost answer, a crash; and that is so only until the
\* next pull.  However pulls and pushes of one checkout interleave, each pull
\* that ends clears it (git_mgr.py:508-512).  The module's docstring (20-22)
\* says that the credential is never written there.
CredentialIsExplained ==
  \A n \in Repos : origin[n] = "authed" =>
     \/ leak[n]
     \/ \E a \in Actors : Busy(a, n) /\ pc[a] \in {"cloning", "cleanup", "fetch", "reset", "push", "pushreset"}

\* Row and checkout agree whenever nobody is at work on the repository, unless
\* one of the faults named in the actions has come between them: two
\* registrations at once, a deletion that the scripts refuse, a removal that
\* does not end well and is not looked at, a server that does not answer or was
\* deleted, a crash.
RowMatchesCheckout ==
  \A n \in Repos : ~fault[n] /\ (\A a \in Actors : ~Busy(a, n)) =>
     (Placed(n) <=> disk[n] = "cloned") /\ disk[n] # "half"

=============================================================================
