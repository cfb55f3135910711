------------------------------- MODULE Transfer -------------------------------
(***************************************************************************)
(* Configuration export and import (src/app/modules/config_io.py), with    *)
(* the requests that edit the same rows in between: SSH servers and their  *)
(* scripts, Docker hosts, clusters, Jenkins instances, repositories.       *)
(*                                                                         *)
(* There is one item of each section, one pipeline with one ssh_run_script *)
(* step, and a file that was exported here or brought to a new cockpit.    *)
(* An import is a coroutine that commits item by item; threads come in     *)
(* between, other coroutines (the pipeline builder) do not.                *)
(***************************************************************************)
EXTENDS Naturals, FiniteSets

CONSTANTS
  ScriptNames,  \* names of saved scripts
  NoName,       \* a step without a script
  MaxEdits      \* bound: requests other than exports and imports

ASSUME NamesAssumption == NoName \notin ScriptNames /\ IsFiniteSet(ScriptNames) /\ MaxEdits \in Nat

Sections == {"hosts", "clusters", "jenkins", "servers", "repos"}

\* Fault: scripts come before their servers.
FollowingScriptsFirst ==
  [hosts |-> "clusters", clusters |-> "jenkins", jenkins |-> "scripts",
   scripts |-> "servers", servers |-> "repos", repos |-> "lookup"]

\* The order of the import.  The scripts of a server follow it.
Following == [hosts |-> "clusters", clusters |-> "jenkins", jenkins |-> "servers",
              servers |-> "scripts", scripts |-> "repos", repos |-> "lookup"]

\* An item is what it was set to, and its credential: 0 is none, 1 the first
\* value, 2 an edited one.  The credential of a cluster is its kubeconfig file.
NoItem == [set |-> 0, secret |-> 0]
Edited == 2

\* A repository whose user name is not the one that it was given.
Misplaced == 3

NoScript == [id |-> 0, text |-> 0]
NoPipe == [set |-> 0, id |-> 0]

VARIABLES
  items,      \* section -> item
  scripts,    \* the server's scripts: name -> id and text
  pipeline,   \* the pipeline and the script_id of its step
  doc,        \* the exported file
  exp,        \* the export that is going on
  imp,        \* the import that is going on, or the last one
  edits, moved,
  before      \* history: items and scripts when the import began

vars == <<items, scripts, pipeline, doc, exp, imp, edits, moved, before>>
rows == <<items, scripts, pipeline>>

NoDoc == [sealed |-> FALSE, items |-> [s \in Sections |-> NoItem], scripts |-> [n \in ScriptNames |-> 0],
          pipeline |-> 0, ref |-> NoName, torn |-> FALSE]
NoExport == [on |-> FALSE, doc |-> NoDoc, ids |-> [n \in ScriptNames |-> 0]]
\* calm is history: no other request has changed anything since it began.
NoImport == [at |-> "none", overwrite |-> FALSE, bad |-> "none", ids |-> [n \in ScriptNames |-> 0], calm |-> FALSE]

NoBefore == [items |-> [s \in Sections |-> NoItem], scripts |-> [n \in ScriptNames |-> NoScript]]

Importing == imp.at \notin {"none", "done", "failed"}
Ids == [n \in ScriptNames |-> scripts[n].id]

\* The name of the script that has this id.
NameOf(ids, id) == IF \E n \in ScriptNames : id # 0 /\ ids[n] = id
                   THEN CHOOSE n \in ScriptNames : ids[n] = id ELSE NoName

-----------------------------------------------------------------------------
(* Export.                                                                 *)

\* Sections are read one after the other, the pipelines last.
BeginExport(sealed) ==
  /\ ~exp.on /\ ~Importing
  /\ exp' = [on |-> TRUE, ids |-> Ids,
             doc |-> [NoDoc EXCEPT !.sealed = sealed,
                                   !.items = [s \in Sections |-> IF sealed THEN items[s] ELSE [items[s] EXCEPT !.secret = 0]],
                                   !.scripts = [n \in ScriptNames |-> scripts[n].text]]]
  /\ imp' = NoImport /\ before' = NoBefore
  /\ UNCHANGED <<rows, doc, edits, moved>>

\* Ids are local to this database: the step refers to its script by name.
EndExport ==
  /\ exp.on
  /\ doc' = [exp.doc EXCEPT !.pipeline = pipeline.set, !.ref = NameOf(exp.ids, pipeline.id)]
  /\ exp' = NoExport
  /\ UNCHANGED <<rows, imp, edits, moved, before>>

-----------------------------------------------------------------------------
(* Import.                                                                 *)

\* overwrite is a choice of the user.  bad is the section of a file edited by
\* hand in which a malformed entry follows the first one (a malformed server
\* would follow the first one's scripts, and is like a malformed repository).
BeginImport(overwrite, bad) ==
  /\ doc # NoDoc /\ ~exp.on /\ ~Importing
  /\ imp' = [NoImport EXCEPT !.at = "hosts", !.overwrite = overwrite, !.bad = bad, !.calm = TRUE]
  /\ before' = [items |-> items, scripts |-> scripts]
  /\ UNCHANGED <<rows, doc, exp, edits, moved>>

\* Fault: existing rows are not skipped.
DecideAll(row) == TRUE

Decide(row) == row = NoItem \/ imp.overwrite

\* Fault: an entry without a credential clears the one in the row.
KeptNot(row, e) == e

\* A credential that the file does not have is left alone.
Kept(row, e) == [set |-> e.set, secret |-> IF e.secret = 0 THEN row.secret ELSE e.secret]

\* What an entry makes of the row.  A cluster needs a kubeconfig, a new Jenkins
\* instance a token.  A new repository is cloned, by a call that passes the
\* user name as the type of authentication and the credential as the user name.
Written(s, row, e) ==
  CASE s \in {"hosts", "servers"} -> Kept(row, e)
    [] s = "clusters" -> IF e.secret = 0 THEN row ELSE e
    [] s = "jenkins" -> IF row = NoItem /\ e.secret = 0 THEN NoItem ELSE Kept(row, e)
    [] s = "repos" -> IF row = NoItem THEN [set |-> Misplaced, secret |-> 0] ELSE Kept(row, e)

\* What is left of it when the next entry raises: hosts, clusters and Jenkins
\* instances are committed at the end of their section, a new cluster and the
\* kubeconfig of an old one at once.
Survives(s, row, e) ==
  CASE s \in {"hosts", "jenkins"} -> row
    [] s = "clusters" -> IF row = NoItem THEN Written(s, row, e) ELSE [row EXCEPT !.secret = Written(s, row, e).secret]
    [] s \in {"servers", "repos"} -> Written(s, row, e)

\* One section up to its commit, or up to the exception.  A clone may fail.
ImportSection(s) ==
  /\ imp.at = s
  /\ LET e == doc.items[s]
         new == IF e = NoItem \/ ~Decide(items[s]) THEN items[s]
                ELSE IF imp.bad = s THEN Survives(s, items[s], e) ELSE Written(s, items[s], e)
     IN \/ items' = [items EXCEPT ![s] = new]
        \/ s = "repos" /\ items[s] = NoItem /\ UNCHANGED items
  /\ imp' = [imp EXCEPT !.at = IF imp.bad = s THEN "failed" ELSE Following[s]]
  /\ UNCHANGED <<scripts, pipeline, doc, exp, edits, moved, before>>

HighestId == CHOOSE m \in {0} \union {scripts[n].id : n \in ScriptNames} : \A n \in ScriptNames : scripts[n].id <= m

\* The scripts of the server, in one commit of their own.
ImportScripts ==
  /\ imp.at = "scripts"
  /\ LET listed == {n \in ScriptNames : doc.scripts[n] # 0 /\ items["servers"] # NoItem}
         new == {n \in listed : scripts[n] = NoScript}
     IN IF imp.bad = "scripts" THEN UNCHANGED scripts
        ELSE \E id \in [new -> (HighestId + 1)..(HighestId + Cardinality(new))] :
               /\ \A m, n \in new : id[m] = id[n] => m = n
               /\ scripts' = [n \in ScriptNames |->
                    IF n \in new THEN [id |-> id[n], text |-> doc.scripts[n]]
                    ELSE IF n \in listed /\ imp.overwrite THEN [scripts[n] EXCEPT !.text = doc.scripts[n]]
                    ELSE scripts[n]]
  /\ imp' = [imp EXCEPT !.at = IF imp.bad = "scripts" THEN "failed" ELSE "repos"]
  /\ UNCHANGED <<items, pipeline, doc, exp, edits, moved, before>>

\* script_ids.
LookUpScripts ==
  /\ imp.at = "lookup"
  /\ imp' = [imp EXCEPT !.at = "pipelines", !.ids = Ids]
  /\ UNCHANGED <<rows, doc, exp, edits, moved, before>>

\* Fault: the ids that the scripts had when the import began.
StepIdBefore == IF doc.ref = NoName THEN 0 ELSE before.scripts[doc.ref].id

\* A script that is not here leaves the step without one, and a warning.
StepId == IF doc.ref = NoName THEN 0 ELSE imp.ids[doc.ref]

ImportPipeline ==
  /\ imp.at = "pipelines"
  /\ pipeline' = IF doc.pipeline # 0 /\ (pipeline = NoPipe \/ imp.overwrite)
                 THEN [set |-> doc.pipeline, id |-> StepId] ELSE pipeline
  /\ imp' = [imp EXCEPT !.at = IF imp.bad = "pipelines" THEN "failed" ELSE "done"]
  /\ UNCHANGED <<items, scripts, doc, exp, edits, moved, before>>

ImportStep == (\E s \in Sections : ImportSection(s)) \/ ImportScripts \/ LookUpScripts \/ ImportPipeline

-----------------------------------------------------------------------------
(* Other requests.                                                         *)

Edit ==
  /\ edits < MaxEdits /\ edits' = edits + 1
  /\ imp' = IF Importing THEN [imp EXCEPT !.calm = FALSE] ELSE NoImport
  /\ before' = NoBefore
  /\ exp' = [exp EXCEPT !.doc.torn = exp.on]
  /\ UNCHANGED <<doc, moved>>

\* The forms that add an item.  The kubeconfig is written before the row, also
\* when the name is taken and the row is refused.
AddItem(s) ==
  /\ Edit
  /\ items' = [items EXCEPT ![s] = IF items[s] = NoItem THEN [set |-> Edited, secret |-> IF s = "hosts" THEN 0 ELSE Edited]
                                   ELSE IF s = "clusters" THEN [items[s] EXCEPT !.secret = Edited]
                                   ELSE items[s]]
  /\ UNCHANGED <<scripts, pipeline>>

\* update_server: a blank secret keeps the old one.
UpdateServer(secret) ==
  /\ Edit /\ items["servers"] # NoItem
  /\ items' = [items EXCEPT !["servers"] = Kept(items["servers"], [set |-> Edited, secret |-> secret])]
  /\ UNCHANGED <<scripts, pipeline>>

\* A server that has scripts cannot be deleted: their server_id is NOT NULL.
DeleteItem(s) ==
  /\ Edit /\ items[s] # NoItem
  /\ s = "servers" => \A n \in ScriptNames : scripts[n] = NoScript
  /\ items' = [items EXCEPT ![s] = NoItem]
  /\ UNCHANGED <<scripts, pipeline>>

CreateScript(n) ==
  /\ Edit /\ items["servers"] # NoItem /\ scripts[n] = NoScript
  /\ scripts' = [scripts EXCEPT ![n] = [id |-> HighestId + 1, text |-> Edited]]
  /\ UNCHANGED <<items, pipeline>>

DeleteScript(n) ==
  /\ Edit /\ scripts[n] # NoScript
  /\ scripts' = [scripts EXCEPT ![n] = NoScript]
  /\ UNCHANGED <<items, pipeline>>

\* The pipeline builder, a coroutine.
EditPipeline(n) ==
  /\ Edit /\ ~Importing /\ scripts[n] # NoScript
  /\ pipeline' = [set |-> Edited, id |-> scripts[n].id]
  /\ UNCHANGED <<items, scripts>>

\* The file is taken to a new cockpit.
Move ==
  /\ ~moved /\ doc # NoDoc /\ ~exp.on /\ ~Importing
  /\ moved' = TRUE /\ imp' = NoImport /\ before' = NoBefore
  /\ items' = [s \in Sections |-> NoItem]
  /\ scripts' = [n \in ScriptNames |-> NoScript]
  /\ pipeline' = NoPipe
  /\ UNCHANGED <<doc, exp, edits>>

-----------------------------------------------------------------------------
\* A cockpit that has one of everything, with a first script.
Init ==
  /\ items = [s \in Sections |-> [set |-> 1, secret |-> IF s = "hosts" THEN 0 ELSE 1]]
  /\ \E n \in ScriptNames :
       /\ scripts = [m \in ScriptNames |-> IF m = n THEN [id |-> 1, text |-> 1] ELSE NoScript]
       /\ pipeline = [set |-> 1, id |-> 1]
  /\ doc = NoDoc /\ exp = NoExport /\ imp = NoImport
  /\ edits = 0 /\ moved = FALSE /\ before = NoBefore

BadSections == {"none", "hosts", "clusters", "jenkins", "scripts", "repos", "pipelines"}

Next ==
  \/ \E sealed \in BOOLEAN : BeginExport(sealed)
  \/ EndExport
  \/ \E o \in BOOLEAN, b \in BadSections : BeginImport(o, b)
  \/ \E s \in Sections : ImportSection(s)
  \/ ImportScripts \/ LookUpScripts \/ ImportPipeline
  \/ \E s \in Sections : AddItem(s) \/ DeleteItem(s)
  \/ \E secret \in {0, Edited} : UpdateServer(secret)
  \/ \E n \in ScriptNames : CreateScript(n) \/ DeleteScript(n) \/ EditPipeline(n)
  \/ Move

Spec == Init /\ [][Next]_vars

-----------------------------------------------------------------------------
\* Wherever an import stops, an item is as it was or as the file says, with
\* the credential that it had if the file has none; without overwrite, an
\* existing item is as it was.  Two exceptions: the kubeconfig of an existing
\* cluster outlives the rollback of its row, and a repository that was cloned
\* is not as the file says (see CredentialIsRestored).
ItemsStayWhole ==
  imp.at # "none" /\ imp.calm =>
    \A s \in Sections :
      \/ items[s] = before.items[s]
      \/ (before.items[s] = NoItem \/ imp.overwrite) /\ items[s] = Kept(before.items[s], doc.items[s])
      \/ s = "clusters" /\ imp.bad = s /\ imp.at = "failed" /\ imp.overwrite
      \/ s = "repos" /\ before.items[s] = NoItem

\* README.md:181-185: what was exported with a passphrase and imported by a new
\* cockpit is there as it was (repositories apart, see CredentialIsRestored),
\* unless something was edited during the export or since the import began.
RoundTrip ==
  /\ imp.at = "done" /\ imp.calm /\ doc.sealed /\ ~doc.torn
  /\ \A s \in Sections : before.items[s] = NoItem
  => /\ \A s \in Sections \ {"repos"} : items[s] = doc.items[s]
     /\ \A n \in ScriptNames : scripts[n].text = doc.scripts[n]

\* "Script ids are local to this database" (config_io.py:121): the step of an
\* imported pipeline runs the script of the same name, whatever ids scripts
\* have here, or none when there is no such script; never another one.
StepsKeepTheirScript ==
  imp.at = "done" /\ imp.calm /\ pipeline.set # 0 /\ imp.overwrite /\ doc.pipeline # 0 =>
    NameOf(Ids, pipeline.id) =
      IF doc.ref # NoName /\ scripts[doc.ref] # NoScript THEN doc.ref ELSE NoName

\* No step of an import takes a credential away, and one of a file without
\* credentials leaves each as it is, whatever other requests do in between.
CredentialsSurvive ==
  [][ImportStep => \A s \in Sections :
       /\ items[s].secret # 0 => items'[s].secret # 0
       /\ items[s].secret # 0 /\ ~doc.sealed => items'[s].secret = items[s].secret]_vars

-----------------------------------------------------------------------------
(* What the code says of itself, and a run refutes.                        *)

\* "Credentials (..., Git PATs, ...) ... are then re-encrypted with a key
\* derived from that passphrase ..., so the file can be imported into a
\* different cockpit instance" (config_io.py:7-10).
CredentialIsRestored ==
  imp.at = "done" /\ imp.calm /\ doc.sealed /\ items["repos"] # NoItem =>
    items["repos"].secret # 0 \/ doc.items["repos"].secret = 0

=============================================================================
