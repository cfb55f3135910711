---------------------------- MODULE TransferProofs ----------------------------
(***************************************************************************)
(* Proofs about Transfer, for every set of names of scripts: no step of an *)
(* import takes a credential away; while nothing else changes the cockpit, *)
(* an item is as it was or as the file says, what is sealed and imported   *)
(* by an empty cockpit is there as it was, and the step of an imported     *)
(* pipeline runs the script of the name it ran before.                     *)
(***************************************************************************)
EXTENDS Transfer, FiniteSetTheorems, WellFoundedInduction, TLAPS

Items == [set : Nat, secret : Nat]

\* A file whose items are items, without credentials unless it is sealed.
FileInv(d) ==
  /\ d = [sealed |-> d.sealed, items |-> d.items, scripts |-> d.scripts,
          pipeline |-> d.pipeline, ref |-> d.ref, torn |-> d.torn]
  /\ d.items \in [Sections -> Items]
  /\ ~d.sealed => \A s \in Sections : d.items[s].secret = 0

IInv ==
  /\ items \in [Sections -> Items]
  /\ FileInv(doc)
  /\ exp = [on |-> exp.on, doc |-> exp.doc, ids |-> exp.ids]
  /\ FileInv(exp.doc)

-----------------------------------------------------------------------------
LEMMA NoItemIsItem == NoItem \in Items
  BY DEF NoItem, Items

LEMMA NoFile == FileInv(NoDoc)
<1>1. NoDoc.items = [s \in Sections |-> NoItem]
  BY DEF NoDoc
<1>2. NoDoc.items \in [Sections -> Items]
  BY <1>1, NoItemIsItem
<1>3. \A s \in Sections : NoDoc.items[s].secret = 0
  BY <1>1 DEF NoItem
<1>. QED
  BY <1>2, <1>3 DEF FileInv, NoDoc

LEMMA InitHolds == Init => IInv
<1>. SUFFICES ASSUME Init PROVE IInv
  OBVIOUS
<1>1. items \in [Sections -> Items]
  BY DEF Init, Items
<1>. QED
  BY <1>1, NoFile DEF Init, IInv, NoExport

\* What an import makes of an item is an item.
LEMMA WrittenIsItem ==
  ASSUME NEW s \in Sections, NEW r \in Items, NEW e \in Items
  PROVE  Written(s, r, e) \in Items /\ Survives(s, r, e) \in Items
<1>1. Kept(r, e) \in Items
  BY DEF Kept, Items
<1>2. [set |-> Misplaced, secret |-> 0] \in Items
  BY DEF Items, Misplaced
<1>3. Written(s, r, e) \in Items
  BY <1>1, <1>2, NoItemIsItem DEF Written, Sections
<1>4. [r EXCEPT !.secret = Written(s, r, e).secret] \in Items
  BY <1>3 DEF Items
<1>. QED
  BY <1>3, <1>4 DEF Survives, Sections

\* It has the credential that the item had, or one that the entry has.
LEMMA WrittenKeeps ==
  ASSUME NEW s \in Sections, NEW r \in Items, NEW e \in Items, r.secret # 0
  PROVE  /\ Written(s, r, e).secret \in ({r.secret, e.secret} \ {0})
         /\ Survives(s, r, e).secret \in ({r.secret, e.secret} \ {0})
<1>1. r # NoItem
  BY DEF NoItem
<1>2. Kept(r, e).secret = IF e.secret = 0 THEN r.secret ELSE e.secret
  BY DEF Kept
<1>3. Written(s, r, e).secret \in ({r.secret, e.secret} \ {0})
  BY <1>1, <1>2 DEF Written, Sections
<1>4. [r EXCEPT !.secret = Written(s, r, e).secret].secret = Written(s, r, e).secret
  BY DEF Items
<1>. QED
  BY <1>3, <1>4 DEF Survives, Sections

\* One section of an import changes its item only, to what the file makes of it.
LEMMA SectionItems ==
  ASSUME IInv, NEW s \in Sections, ImportSection(s)
  PROVE  /\ doc.items[s] \in Items /\ items[s] \in Items
         /\ \E v \in {items[s], Written(s, items[s], doc.items[s]), Survives(s, items[s], doc.items[s])} :
              items' = [items EXCEPT ![s] = v]
<1>1. doc.items[s] \in Items /\ items[s] \in Items
  BY DEF IInv, FileInv
<1>2. items = [items EXCEPT ![s] = items[s]]
  BY DEF IInv
<1>. QED
  BY <1>1, <1>2 DEF ImportSection

-----------------------------------------------------------------------------
LEMMA StepKeeps == IInv /\ [Next]_vars => IInv'
<1>. SUFFICES ASSUME IInv, [Next]_vars PROVE IInv'
  OBVIOUS
<1>1. ASSUME NEW sealed \in BOOLEAN, BeginExport(sealed) PROVE IInv'
  <2>. DEFINE its == [s \in Sections |-> IF sealed THEN items[s] ELSE [items[s] EXCEPT !.secret = 0]]
              d == exp'.doc
  <2>1. its \in [Sections -> Items] /\ (~sealed => \A s \in Sections : its[s].secret = 0)
    BY DEF IInv, Items
  <2>2. /\ d = [NoDoc EXCEPT !.sealed = sealed, !.items = its, !.scripts = [n \in ScriptNames |-> scripts[n].text]]
        /\ exp' = [on |-> exp'.on, doc |-> exp'.doc, ids |-> exp'.ids]
        /\ UNCHANGED <<items, doc>>
    BY <1>1 DEF BeginExport, rows
  <2>. HIDE DEF its
  <2>3. d.sealed = sealed /\ d.items = its
    BY <2>2 DEF NoDoc
  <2>4. d = [sealed |-> d.sealed, items |-> d.items, scripts |-> d.scripts,
             pipeline |-> d.pipeline, ref |-> d.ref, torn |-> d.torn]
    BY <2>2 DEF NoDoc
  <2>5. FileInv(d)
    BY <2>1, <2>3, <2>4 DEF FileInv
  <2>. QED
    BY <2>2, <2>5 DEF IInv
<1>2. CASE EndExport
  <2>1. \E i, r : doc' = [exp.doc EXCEPT !.pipeline = i, !.ref = r]
    BY <1>2 DEF EndExport
  <2>2. FileInv(doc')
    BY <2>1 DEF IInv, FileInv
  <2>. QED
    BY <1>2, <2>2, NoFile DEF EndExport, NoExport, IInv, rows
<1>3. ASSUME NEW o \in BOOLEAN, NEW b \in BadSections, BeginImport(o, b) PROVE IInv'
  BY <1>3 DEF BeginImport, IInv, rows
<1>4. ASSUME NEW s \in Sections, ImportSection(s) PROVE IInv'
  <2>1. items' \in [Sections -> Items]
    BY <1>4, SectionItems, WrittenIsItem DEF IInv
  <2>. QED
    BY <1>4, <2>1 DEF ImportSection, IInv
<1>5. CASE ImportScripts \/ LookUpScripts \/ ImportPipeline
  BY <1>5 DEF ImportScripts, LookUpScripts, ImportPipeline, IInv, rows
<1>6. ASSUME Edit, items' \in [Sections -> Items] PROVE IInv'
  <2>1. doc' = doc /\ exp' = [exp EXCEPT !.doc.torn = exp.on]
    BY <1>6 DEF Edit
  <2>2. exp'.doc = [exp.doc EXCEPT !.torn = exp.on] /\ exp' = [on |-> exp'.on, doc |-> exp'.doc, ids |-> exp'.ids]
    BY <2>1 DEF IInv
  <2>3. FileInv(exp'.doc)
    BY <2>2 DEF IInv, FileInv
  <2>. QED
    BY <1>6, <2>1, <2>2, <2>3 DEF IInv
<1>7. ASSUME NEW s \in Sections, AddItem(s) \/ DeleteItem(s) PROVE IInv'
  <2>1. items' \in [Sections -> Items]
    BY <1>7, NoItemIsItem DEF AddItem, DeleteItem, IInv, Items, Edited
  <2>. QED
    BY <1>6, <1>7, <2>1 DEF AddItem, DeleteItem
<1>8. ASSUME NEW secret \in {0, Edited}, UpdateServer(secret) PROVE IInv'
  <2>1. items["servers"] \in Items /\ [set |-> Edited, secret |-> secret] \in Items
    BY DEF IInv, Items, Sections, Edited
  <2>2. Kept(items["servers"], [set |-> Edited, secret |-> secret]) \in Items
    BY <2>1 DEF Kept, Items
  <2>3. items' \in [Sections -> Items]
    BY <1>8, <2>2 DEF UpdateServer, IInv
  <2>. QED
    BY <1>6, <1>8, <2>3 DEF UpdateServer
<1>9. ASSUME NEW n \in ScriptNames, CreateScript(n) \/ DeleteScript(n) \/ EditPipeline(n) PROVE IInv'
  BY <1>6, <1>9 DEF CreateScript, DeleteScript, EditPipeline, IInv
<1>10. CASE Move
  <2>1. items' \in [Sections -> Items]
    BY <1>10, NoItemIsItem DEF Move
  <2>. QED
    BY <1>10, <2>1 DEF Move, IInv
<1>11. CASE UNCHANGED vars
  BY <1>11 DEF vars, IInv
<1>. QED
  BY <1>1, <1>2, <1>3, <1>4, <1>5, <1>7, <1>8, <1>9, <1>10, <1>11 DEF Next

\* No step of an import takes a credential away, and one of a file without
\* credentials changes none, whatever threads edit between its commits.
THEOREM ImportsKeepCredentials == Spec => CredentialsSurvive
<1>. DEFINE Kept1(s) == /\ items[s].secret # 0 => items'[s].secret # 0
                        /\ items[s].secret # 0 /\ ~doc.sealed => items'[s].secret = items[s].secret
<1>1. ASSUME IInv, NEW t \in Sections, ImportSection(t), NEW s \in Sections PROVE Kept1(s)
  <2>1. CASE s # t
    BY <1>1, <2>1, SectionItems DEF IInv
  <2>2. CASE s = t
    <3>. SUFFICES ASSUME items[t].secret # 0
                  PROVE items'[t].secret # 0 /\ (~doc.sealed => items'[t].secret = items[t].secret)
      BY <2>2
    <3>1. PICK v \in {items[t], Written(t, items[t], doc.items[t]), Survives(t, items[t], doc.items[t])} :
            items' = [items EXCEPT ![t] = v]
      BY <1>1, SectionItems
    <3>2. v.secret \in ({items[t].secret, doc.items[t].secret} \ {0})
      BY <1>1, SectionItems, WrittenKeeps
    <3>3. items'[t] = v
      BY <1>1, <3>1 DEF IInv
    <3>4. ~doc.sealed => doc.items[t].secret = 0
      BY <1>1 DEF IInv, FileInv
    <3>. QED
      BY <3>2, <3>3, <3>4
  <2>. QED
    BY <2>1, <2>2
<1>2. IInv => [ImportStep => \A s \in Sections : Kept1(s)]_vars
  <2>1. ASSUME ImportScripts \/ LookUpScripts \/ ImportPipeline PROVE \A s \in Sections : Kept1(s)
    BY <2>1 DEF ImportScripts, LookUpScripts, ImportPipeline, rows
  <2>. QED
    BY <1>1, <2>1 DEF ImportStep
<1>. QED
  BY <1>2, InitHolds, StepKeeps, PTL DEF Spec, CredentialsSurvive

-----------------------------------------------------------------------------
(* What an import leaves behind.  The rows and files the import relies on  *)
(* are well formed; while no other request comes in, what the import has   *)
(* not come to is as it was, and what it has passed is as the file says.   *)

\* The sections that an import at this point has not come to.
ToCome(at) ==
  IF at = "hosts" THEN Sections
  ELSE IF at = "clusters" THEN {"clusters", "jenkins", "servers", "repos"}
  ELSE IF at = "jenkins" THEN {"jenkins", "servers", "repos"}
  ELSE IF at = "servers" THEN {"servers", "repos"}
  ELSE IF at \in {"scripts", "repos"} THEN {"repos"}
  ELSE {}

NeedSecret == {"clusters", "jenkins"}

\* Clusters and Jenkins instances have credentials, scripts have a server, an
\* id of their own and a text, and ids are bounded.
RowsFit ==
  /\ \A s \in NeedSecret : items[s] = NoItem \/ items[s].secret # 0
  /\ scripts \in [ScriptNames -> [id : Nat, text : Nat]]
  /\ \A n \in ScriptNames : scripts[n] # NoScript => scripts[n].id # 0 /\ scripts[n].text # 0
  /\ \A m, n \in ScriptNames : scripts[m].id = scripts[n].id /\ scripts[m].id # 0 => m = n
  /\ items["servers"] = NoItem => \A n \in ScriptNames : scripts[n] = NoScript
  /\ \E m \in Nat : \A n \in ScriptNames : scripts[n].id <= m

\* What a sealed file has is what the rows were.
FileFits(d) ==
  /\ d.scripts \in [ScriptNames -> Nat]
  /\ d.ref \in ScriptNames \union {NoName}
  /\ d.sealed => /\ \A s \in NeedSecret : d.items[s] = NoItem \/ d.items[s].secret # 0
                 /\ d.items["servers"] = NoItem => \A n \in ScriptNames : d.scripts[n] = 0

ImportPoints == {"none", "hosts", "clusters", "jenkins", "servers", "scripts", "repos", "lookup",
                 "pipelines", "done", "failed"}

ImportOK ==
  /\ imp = [at |-> imp.at, overwrite |-> imp.overwrite, bad |-> imp.bad, ids |-> imp.ids, calm |-> imp.calm]
  /\ imp.at \in ImportPoints
  /\ imp.at # "none" => ~exp.on

\* While nothing else happens, what is to come is as it was when it began.
Untouched ==
  /\ before.items \in [Sections -> Items]
  /\ before.items["servers"] = NoItem => \A n \in ScriptNames : before.scripts[n] = NoScript
  /\ \A s \in ToCome(imp.at) : items[s] = before.items[s]
  /\ imp.at \in {"hosts", "clusters", "jenkins", "servers", "scripts"} => scripts = before.scripts

\* And what it has passed is as in the file, if the cockpit was empty.
Restored ==
  imp.at # "failed" /\ doc.sealed /\ (\A s \in Sections : before.items[s] = NoItem) =>
    /\ \A s \in Sections \ ({"repos"} \union ToCome(imp.at)) : items[s] = doc.items[s]
    /\ imp.at \in {"repos", "lookup", "pipelines", "done"} =>
         \A n \in ScriptNames : scripts[n].text = doc.scripts[n]

LookedUp == imp.at = "pipelines" => imp.ids = Ids

CalmInv ==
  /\ imp.at # "none" /\ imp.calm => Untouched /\ Restored /\ LookedUp
  /\ ItemsStayWhole
  /\ StepsKeepTheirScript

TransferInv ==
  IInv /\ RowsFit /\ FileFits(doc) /\ FileFits(exp.doc) /\ ImportOK /\ CalmInv

-----------------------------------------------------------------------------
(* Ids.  SQLite's rowid is the largest one plus one.                       *)

\* A set of numbers has a least one, since their order is well-founded.
LEMMA Least ==
  ASSUME NEW S \in SUBSET Nat, S # {}
  PROVE  \E m \in S : \A n \in S : m <= n
<1>. DEFINE R == {p \in Nat \X Nat : p[1] < p[2]}
<1>1. R = OpToRel(<, Nat)
  BY DEF OpToRel
<1>2. IsWellFoundedOn(R, Nat)
  BY <1>1, NatLessThanWellFounded
<1>3. \A x \in Nat : \A y \in Nat : <<y, x>> \in R <=> y < x
  OBVIOUS
<1>. HIDE DEF R
<1>4. PICK m \in S : \A n \in S : ~ (<<n, m>> \in R)
  BY <1>2, WFMin
<1>5. m \in Nat /\ \A n \in S : n \in Nat
  OBVIOUS
<1>6. ASSUME NEW n \in S PROVE m <= n
  <2>1. ~ (n < m)
    BY <1>3, <1>4, <1>5
  <2>. QED
    BY <1>5, <2>1
<1>. QED
  BY <1>6

\* The least bound of the ids is one of them.
LEMMA HighestIsHighest ==
  ASSUME RowsFit
  PROVE  HighestId \in Nat /\ \A n \in ScriptNames : scripts[n].id <= HighestId
<1>. DEFINE bounds == {m \in Nat : \A n \in ScriptNames : scripts[n].id <= m}
            taken == {0} \union {scripts[n].id : n \in ScriptNames}
<1>1. /\ bounds \in SUBSET Nat /\ bounds # {}
      /\ \A n \in ScriptNames : scripts[n].id \in Nat
  BY DEF RowsFit
<1>2. PICK m \in bounds : \A k \in bounds : m <= k
  BY <1>1, Least
<1>3. m \in Nat /\ \A n \in ScriptNames : scripts[n].id <= m
  OBVIOUS
<1>4. m \in taken
  <2>. SUFFICES ASSUME m # 0, \A n \in ScriptNames : scripts[n].id # m PROVE FALSE
    OBVIOUS
  <2>1. m - 1 \in Nat /\ \A n \in ScriptNames : scripts[n].id <= m - 1
    BY <1>1, <1>3
  <2>2. m - 1 \in bounds
    BY <2>1
  <2>3. m <= m - 1
    BY <1>2, <2>2
  <2>. QED
    BY <1>3, <2>3
<1>5. \E k \in taken : \A n \in ScriptNames : scripts[n].id <= k
  BY <1>3, <1>4
<1>6. taken \subseteq Nat
  BY <1>1
<1>7. HighestId = CHOOSE k \in taken : \A n \in ScriptNames : scripts[n].id <= k
  BY DEF HighestId
<1>. HIDE DEF taken
<1>8. HighestId \in taken /\ \A n \in ScriptNames : scripts[n].id <= HighestId
  BY <1>5, <1>7
<1>. QED
  BY <1>6, <1>8

\* Ids are unique, so the name that belongs to one can be looked up.
LEMMA NameOfId ==
  ASSUME RowsFit, NEW n \in ScriptNames, scripts[n] # NoScript
  PROVE  NameOf(Ids, scripts[n].id) = n
<1>1. scripts[n].id # 0 /\ \A m \in ScriptNames : scripts[m].id = scripts[n].id <=> m = n
  BY DEF RowsFit
<1>2. \A m \in ScriptNames : Ids[m] = scripts[m].id
  BY DEF Ids
<1>3. (CHOOSE m \in ScriptNames : Ids[m] = scripts[n].id) = n
  BY <1>1, <1>2
<1>. QED
  BY <1>1, <1>2, <1>3 DEF NameOf

LEMMA NameOfNothing == NameOf(Ids, 0) = NoName
  BY DEF NameOf

LEMMA NameIsName == ASSUME NEW f, NEW i PROVE NameOf(f, i) \in ScriptNames \union {NoName}
<1>1. CASE \E n \in ScriptNames : i # 0 /\ f[n] = i
  <2>1. (CHOOSE n \in ScriptNames : f[n] = i) \in ScriptNames
    BY <1>1
  <2>. QED
    BY <1>1, <2>1 DEF NameOf
<1>. QED
  BY <1>1 DEF NameOf

-----------------------------------------------------------------------------
(* Items.                                                                  *)

LEMMA KeptIsThere ==
  ASSUME NEW r \in Items, NEW e \in Items, e # NoItem
  PROVE  /\ Kept(r, e) # NoItem
         /\ e.secret # 0 => Kept(r, e) = e
         /\ r = NoItem => Kept(r, e) = e
  BY DEF Kept, Items, NoItem

\* Clusters and Jenkins instances are written with a credential or not at all.
LEMMA WrittenHasSecret ==
  ASSUME NEW s \in NeedSecret, NEW r \in Items, NEW e \in Items, r = NoItem \/ r.secret # 0
  PROVE  /\ Written(s, r, e) = NoItem \/ Written(s, r, e).secret # 0
         /\ Survives(s, r, e) = NoItem \/ Survives(s, r, e).secret # 0
<1>1. Kept(r, e).secret = IF e.secret = 0 THEN r.secret ELSE e.secret
  BY DEF Kept
<1>2. r = NoItem => r.secret = 0
  BY DEF NoItem
<1>3. Written(s, r, e) = NoItem \/ Written(s, r, e).secret # 0
  BY <1>1, <1>2 DEF Written, NeedSecret
<1>4. s = "clusters" /\ r # NoItem => Written(s, r, e).secret # 0
  BY <1>1 DEF Written
<1>5. [r EXCEPT !.secret = Written(s, r, e).secret].secret = Written(s, r, e).secret
  BY DEF Items
<1>. QED
  BY <1>3, <1>4, <1>5 DEF Survives, NeedSecret

\* The row, or what the entry says with the credential of the row if it has
\* none: but for the two exceptions that ItemsStayWhole names.
LEMMA WrittenWhole ==
  ASSUME NEW s \in Sections, NEW r \in Items, NEW e \in Items, e # NoItem
  PROVE  /\ Written(s, r, e) \in {r, Kept(r, e)} \/ (s = "repos" /\ r = NoItem)
         /\ \/ Survives(s, r, e) \in {r, Kept(r, e)}
            \/ s = "clusters" /\ r # NoItem
            \/ s = "repos" /\ r = NoItem
<1>1. Written(s, r, e) \in {r, Kept(r, e)} \/ (s = "repos" /\ r = NoItem)
  BY KeptIsThere DEF Written, Sections
<1>. QED
  BY <1>1 DEF Survives, Sections

LEMMA WrittenAnew ==
  ASSUME NEW s \in Sections \ {"repos"}, NEW e \in Items, e # NoItem,
         s \in NeedSecret => e.secret # 0
  PROVE  Written(s, NoItem, e) = e
<1>1. Kept(NoItem, e) = e
  BY NoItemIsItem, KeptIsThere
<1>. QED
  BY <1>1 DEF Written, Sections, NeedSecret

\* What one section of an import does to its row.
LEMMA SectionResult ==
  ASSUME IInv, NEW s \in Sections, ImportSection(s)
  PROVE  /\ items' = [items EXCEPT ![s] = items'[s]]
         /\ \/ items'[s] = items[s] /\ (doc.items[s] = NoItem \/ ~Decide(items[s]) \/ s = "repos")
            \/ /\ doc.items[s] # NoItem /\ Decide(items[s])
               /\ items'[s] = IF imp.bad = s THEN Survives(s, items[s], doc.items[s])
                              ELSE Written(s, items[s], doc.items[s])
<1>. DEFINE e == doc.items[s]
            new == IF e = NoItem \/ ~Decide(items[s]) THEN items[s]
                   ELSE IF imp.bad = s THEN Survives(s, items[s], e) ELSE Written(s, items[s], e)
<1>1. items' = [items EXCEPT ![s] = new] \/ (s = "repos" /\ items' = items)
  BY DEF ImportSection
<1>2. items = [items EXCEPT ![s] = items[s]] /\ DOMAIN items = Sections
  BY DEF IInv
<1>. HIDE DEF new
<1>3. items' = [items EXCEPT ![s] = items'[s]] /\ (items'[s] = new \/ (s = "repos" /\ items'[s] = items[s]))
  BY <1>1, <1>2
<1>. QED
  BY <1>3 DEF new

-----------------------------------------------------------------------------
(* The rows stay well formed.                                              *)

LEMMA SectionFits ==
  ASSUME IInv, RowsFit, NEW s \in Sections, ImportSection(s)
  PROVE  RowsFit'
<1>1. doc.items[s] \in Items /\ items[s] \in Items /\ \A t \in Sections : t # s => items'[t] = items[t]
  BY SectionItems, SectionResult DEF IInv
<1>2. UNCHANGED scripts
  BY DEF ImportSection
<1>3. s \in NeedSecret => items'[s] = NoItem \/ items'[s].secret # 0
  BY <1>1, SectionResult, WrittenHasSecret DEF RowsFit
<1>4. \A t \in NeedSecret : items'[t] = NoItem \/ items'[t].secret # 0
  BY <1>1, <1>3 DEF RowsFit, NeedSecret, Sections
<1>5. items'["servers"] = NoItem => items["servers"] = NoItem
  <2>1. s = "servers" /\ items'[s] # items[s] => items'[s] = Kept(items[s], doc.items[s]) /\ doc.items[s] # NoItem
    BY SectionResult DEF Written, Survives
  <2>. QED
    BY <1>1, <2>1, KeptIsThere DEF Sections
<1>. QED
  BY <1>2, <1>4, <1>5 DEF RowsFit

\* New scripts get ids above all others.
LEMMA ScriptsFit ==
  ASSUME RowsFit, FileFits(doc), ImportScripts
  PROVE  /\ RowsFit' /\ UNCHANGED items
         /\ imp.bad # "scripts" => \A n \in ScriptNames :
              scripts[n] = NoScript => \/ doc.scripts[n] # 0 /\ items["servers"] # NoItem
                                          /\ scripts'[n].text = doc.scripts[n]
                                       \/ (doc.scripts[n] = 0 \/ items["servers"] = NoItem)
                                          /\ scripts'[n] = NoScript
<1>. DEFINE listed == {n \in ScriptNames : doc.scripts[n] # 0 /\ items["servers"] # NoItem}
            new == {n \in listed : scripts[n] = NoScript}
            H == HighestId
            top == H + Cardinality(new)
<1>1. CASE imp.bad = "scripts"
  BY <1>1 DEF ImportScripts, RowsFit
<1>2. CASE imp.bad # "scripts"
  <2>1. PICK id \in [new -> (H + 1)..top] :
          /\ \A m, n \in new : id[m] = id[n] => m = n
          /\ scripts' = [n \in ScriptNames |->
               IF n \in new THEN [id |-> id[n], text |-> doc.scripts[n]]
               ELSE IF n \in listed /\ imp.overwrite THEN [scripts[n] EXCEPT !.text = doc.scripts[n]]
               ELSE scripts[n]]
    BY <1>2 DEF ImportScripts
  <2>2. H \in Nat /\ \A n \in ScriptNames : scripts[n].id <= H
    BY HighestIsHighest
  <2>3. Cardinality(new) \in Nat
    <3>1. new \subseteq ScriptNames
      OBVIOUS
    <3>. QED
      BY <3>1, NamesAssumption, FS_Subset, FS_CardinalityType
  <2>4. items' = items
    BY DEF ImportScripts
  <2>. HIDE DEF H, new
  <2>5. ASSUME NEW n \in ScriptNames, n \in new
        PROVE  /\ scripts'[n] = [id |-> id[n], text |-> doc.scripts[n]]
               /\ id[n] \in Nat /\ id[n] > H /\ id[n] <= top /\ doc.scripts[n] \in Nat \ {0}
               /\ scripts[n] = NoScript /\ items["servers"] # NoItem
               /\ scripts'[n].id = id[n] /\ scripts'[n].id # 0
               /\ scripts'[n].text = doc.scripts[n] /\ scripts'[n].text # 0
    <3>1. id[n] \in (H + 1)..top
      BY <2>1, <2>5
    <3>2. doc.scripts[n] \in Nat \ {0} /\ scripts[n] = NoScript /\ items["servers"] # NoItem
      BY <2>5 DEF new, FileFits
    <3>. QED
      BY <2>1, <2>2, <2>3, <2>5, <3>1, <3>2
  <2>6. ASSUME NEW n \in ScriptNames, n \notin new
        PROVE  /\ scripts'[n] \in [id : Nat, text : Nat]
               /\ scripts'[n].id = scripts[n].id /\ scripts'[n].id \in Nat /\ scripts'[n].id <= H
               /\ scripts[n] = NoScript => scripts'[n] = NoScript /\ n \notin listed
               /\ scripts[n] # NoScript => scripts'[n].text # 0
               /\ scripts'[n] # NoScript => scripts[n] # NoScript
    <3>1. scripts'[n] = IF n \in listed /\ imp.overwrite THEN [scripts[n] EXCEPT !.text = doc.scripts[n]]
                        ELSE scripts[n]
      BY <2>1, <2>6
    <3>2. scripts[n] \in [id : Nat, text : Nat] /\ (scripts[n] # NoScript => scripts[n].id # 0 /\ scripts[n].text # 0)
      BY DEF RowsFit
    <3>3. n \in listed => doc.scripts[n] \in Nat \ {0} /\ scripts[n] # NoScript
      BY <2>6 DEF new, FileFits
    <3>. QED
      BY <2>2, <3>1, <3>2, <3>3
  <2>7. scripts' \in [ScriptNames -> [id : Nat, text : Nat]]
    BY <2>1, <2>5, <2>6
  <2>8. \A n \in ScriptNames : scripts'[n] # NoScript => scripts'[n].id # 0 /\ scripts'[n].text # 0
    <3>. SUFFICES ASSUME NEW n \in ScriptNames, scripts'[n] # NoScript
                  PROVE scripts'[n].id # 0 /\ scripts'[n].text # 0
      OBVIOUS
    <3>1. CASE n \in new
      BY <2>2, <2>5, <3>1
    <3>2. CASE n \notin new
      BY <2>6, <3>2 DEF RowsFit
    <3>. QED
      BY <3>1, <3>2
  <2>9. \A m, n \in ScriptNames : scripts'[m].id = scripts'[n].id /\ scripts'[m].id # 0 => m = n
    <3>. SUFFICES ASSUME NEW m \in ScriptNames, NEW n \in ScriptNames,
                         scripts'[m].id = scripts'[n].id, scripts'[m].id # 0
                  PROVE m = n
      OBVIOUS
    <3>1. CASE m \in new /\ n \in new
      BY <2>1, <2>5, <3>1
    <3>2. CASE m \notin new /\ n \notin new
      BY <2>6, <3>2 DEF RowsFit
    <3>3. ASSUME NEW a \in ScriptNames, NEW b \in ScriptNames, a \in new, b \notin new
          PROVE  scripts'[a].id # scripts'[b].id
      <4>1. scripts'[a].id = id[a] /\ id[a] \in Nat /\ id[a] > H
        BY <2>5, <3>3
      <4>2. scripts'[b].id \in Nat /\ scripts'[b].id <= H
        BY <2>6, <3>3
      <4>. QED
        BY <2>2, <4>1, <4>2
    <3>. QED
      BY <3>1, <3>2, <3>3
  <2>10. items["servers"] = NoItem => \A n \in ScriptNames : scripts'[n] = NoScript
    BY <2>5, <2>6 DEF RowsFit
  <2>11. \E m \in Nat : \A n \in ScriptNames : scripts'[n].id <= m
    <3>1. top \in Nat /\ H <= top
      BY <2>2, <2>3
    <3>2. ASSUME NEW n \in ScriptNames PROVE scripts'[n].id <= top
      <4>1. CASE n \in new
        BY <2>5, <4>1
      <4>2. CASE n \notin new
        <5>1. scripts[n].id \in Nat /\ scripts[n].id <= H /\ scripts'[n].id = scripts[n].id
          BY <2>6, <4>2 DEF RowsFit
        <5>. HIDE DEF top
        <5>. QED
          BY <2>2, <3>1, <5>1
      <4>. QED
        BY <4>1, <4>2
    <3>. QED
      BY <3>1, <3>2
  <2>12. RowsFit'
    BY <2>4, <2>7, <2>8, <2>9, <2>10, <2>11 DEF RowsFit
  <2>13. ASSUME NEW n \in ScriptNames, scripts[n] = NoScript
         PROVE  \/ doc.scripts[n] # 0 /\ items["servers"] # NoItem /\ scripts'[n].text = doc.scripts[n]
                \/ (doc.scripts[n] = 0 \/ items["servers"] = NoItem) /\ scripts'[n] = NoScript
    <3>1. CASE n \in new
      BY <2>5, <3>1
    <3>2. CASE n \notin new
      BY <2>6, <2>13, <3>2
    <3>. QED
      BY <3>1, <3>2
  <2>. QED
    BY <2>4, <2>12, <2>13
<1>. QED
  BY <1>1, <1>2

LEMMA EditsFit ==
  ASSUME IInv, RowsFit,
         \/ \E s \in Sections : AddItem(s) \/ DeleteItem(s)
         \/ \E secret \in {0, Edited} : UpdateServer(secret)
         \/ \E n \in ScriptNames : CreateScript(n) \/ DeleteScript(n) \/ EditPipeline(n)
  PROVE  RowsFit'
<1>. USE DEF Edited
<1>1. ASSUME NEW s \in Sections, AddItem(s) PROVE RowsFit'
  <2>1. /\ UNCHANGED scripts /\ items'[s] # NoItem
        /\ s \in NeedSecret => items'[s].secret # 0
        /\ \A t \in Sections : t # s => items'[t] = items[t]
    <3>. DEFINE v == IF items[s] = NoItem THEN [set |-> Edited, secret |-> IF s = "hosts" THEN 0 ELSE Edited]
                     ELSE IF s = "clusters" THEN [items[s] EXCEPT !.secret = Edited]
                     ELSE items[s]
    <3>1. items[s] \in Items /\ DOMAIN items = Sections
      BY DEF IInv
    <3>2. v # NoItem /\ (s \in NeedSecret => v.secret # 0)
      <4>1. s \in NeedSecret /\ items[s] # NoItem => items[s].secret # 0
        BY DEF RowsFit
      <4>2. items[s] = NoItem => v.set = 2 /\ (s \in NeedSecret => v.secret = 2)
        BY DEF NeedSecret
      <4>3. items[s] # NoItem /\ s = "clusters" => v.secret = 2
        BY <3>1 DEF Items
      <4>4. NoItem.set = 0 /\ NoItem.secret = 0
        BY DEF NoItem
      <4>. HIDE DEF v
      <4>5. CASE items[s] = NoItem
        BY <4>2, <4>4, <4>5
      <4>6. CASE items[s] # NoItem /\ s = "clusters"
        BY <4>3, <4>4, <4>6
      <4>7. CASE items[s] # NoItem /\ s # "clusters"
        BY <4>1, <4>7 DEF v
      <4>. QED
        BY <4>5, <4>6, <4>7
    <3>3. items' = [items EXCEPT ![s] = v] /\ UNCHANGED scripts
      BY <1>1 DEF AddItem
    <3>. HIDE DEF v
    <3>. QED
      BY <3>1, <3>2, <3>3
  <2>. QED
    BY <2>1 DEF RowsFit, NeedSecret, Sections
<1>2. ASSUME NEW s \in Sections, DeleteItem(s) PROVE RowsFit'
  BY <1>2 DEF DeleteItem, RowsFit, IInv, NeedSecret, Sections
<1>3. ASSUME NEW secret \in {0, Edited}, UpdateServer(secret) PROVE RowsFit'
  <2>1. /\ items["servers"] # NoItem /\ UNCHANGED scripts
        /\ \A t \in Sections : t # "servers" => items'[t] = items[t]
    BY <1>3 DEF UpdateServer, IInv
  <2>2. items'["servers"].set = 2
    BY <1>3 DEF UpdateServer, IInv, Kept, Sections
  <2>. QED
    BY <2>1, <2>2 DEF RowsFit, NeedSecret, Sections, NoItem
<1>4. ASSUME NEW n \in ScriptNames, CreateScript(n) PROVE RowsFit'
  <2>1. HighestId \in Nat /\ \A m \in ScriptNames : scripts[m].id <= HighestId /\ scripts[m].id \in Nat
    BY HighestIsHighest DEF RowsFit
  <2>2. /\ scripts' = [scripts EXCEPT ![n] = [id |-> HighestId + 1, text |-> 2]]
        /\ UNCHANGED items /\ items["servers"] # NoItem
    BY <1>4 DEF CreateScript
  <2>3. scripts'[n] = [id |-> HighestId + 1, text |-> 2] /\ \A m \in ScriptNames : m # n => scripts'[m] = scripts[m]
    BY <2>2 DEF RowsFit
  <2>9. scripts'[n].id = HighestId + 1 /\ scripts'[n].text = 2 /\ scripts'[n].id # 0
    BY <2>1, <2>3
  <2>4. scripts' \in [ScriptNames -> [id : Nat, text : Nat]]
    BY <2>1, <2>2 DEF RowsFit
  <2>5. \A m \in ScriptNames : scripts'[m].id <= HighestId + 1
    BY <2>1, <2>3
  <2>6. \A m \in ScriptNames : scripts'[m] # NoScript => scripts'[m].id # 0 /\ scripts'[m].text # 0
    <3>. SUFFICES ASSUME NEW m \in ScriptNames, scripts'[m] # NoScript
                  PROVE scripts'[m].id # 0 /\ scripts'[m].text # 0
      OBVIOUS
    <3>1. CASE m = n
      BY <2>9, <3>1
    <3>2. CASE m # n
      BY <2>3, <3>2 DEF RowsFit
    <3>. QED
      BY <3>1, <3>2
  <2>10. \A m \in ScriptNames : m # n => scripts'[m].id # scripts'[n].id
    <3>. SUFFICES ASSUME NEW m \in ScriptNames, m # n PROVE scripts'[m].id # scripts'[n].id
      OBVIOUS
    <3>1. scripts'[m].id \in Nat /\ scripts'[m].id <= HighestId
      BY <2>1, <2>3
    <3>. QED
      BY <2>1, <2>9, <3>1
  <2>7. \A k, m \in ScriptNames : scripts'[k].id = scripts'[m].id /\ scripts'[k].id # 0 => k = m
    <3>. SUFFICES ASSUME NEW k \in ScriptNames, NEW m \in ScriptNames,
                         scripts'[k].id = scripts'[m].id, scripts'[k].id # 0
                  PROVE k = m
      OBVIOUS
    <3>1. CASE k = n \/ m = n
      BY <2>10, <3>1
    <3>2. CASE k # n /\ m # n
      BY <2>3, <3>2 DEF RowsFit
    <3>. QED
      BY <3>1, <3>2
  <2>8. \E m \in Nat : \A k \in ScriptNames : scripts'[k].id <= m
    BY <2>1, <2>5
  <2>. QED
    BY <2>2, <2>4, <2>6, <2>7, <2>8 DEF RowsFit
<1>5. ASSUME NEW n \in ScriptNames, DeleteScript(n) PROVE RowsFit'
  <2>1. scripts' = [scripts EXCEPT ![n] = NoScript] /\ UNCHANGED items
    BY <1>5 DEF DeleteScript
  <2>2. scripts'[n] = NoScript /\ \A m \in ScriptNames : m # n => scripts'[m] = scripts[m]
    BY <2>1 DEF RowsFit
  <2>3. NoScript \in [id : Nat, text : Nat] /\ NoScript.id = 0
    BY DEF NoScript
  <2>4. scripts' \in [ScriptNames -> [id : Nat, text : Nat]]
    BY <2>1, <2>3 DEF RowsFit
  <2>5. \E m \in Nat : \A k \in ScriptNames : scripts'[k].id <= m
    BY <2>2, <2>3 DEF RowsFit
  <2>. QED
    BY <2>1, <2>2, <2>3, <2>4, <2>5 DEF RowsFit
<1>6. ASSUME NEW n \in ScriptNames, EditPipeline(n) PROVE RowsFit'
  BY <1>6 DEF EditPipeline, RowsFit
<1>. QED
  BY <1>1, <1>2, <1>3, <1>4, <1>5, <1>6

-----------------------------------------------------------------------------
(* The files, and where the import is.                                     *)

LEMMA NoFileFits == FileFits(NoDoc)
<1>1. /\ NoDoc.scripts = [n \in ScriptNames |-> 0] /\ NoDoc.ref = NoName /\ NoDoc.sealed = FALSE
  BY DEF NoDoc
<1>. QED
  BY <1>1 DEF FileFits

\* A file is made of the rows that there are.
LEMMA ExportFits ==
  ASSUME IInv, RowsFit, NEW sealed \in BOOLEAN, BeginExport(sealed)
  PROVE  FileFits(exp'.doc)
<1>. DEFINE its == [s \in Sections |-> IF sealed THEN items[s] ELSE [items[s] EXCEPT !.secret = 0]]
            texts == [n \in ScriptNames |-> scripts[n].text]
            d == exp'.doc
<1>1. d = [NoDoc EXCEPT !.sealed = sealed, !.items = its, !.scripts = texts]
  BY DEF BeginExport
<1>2. sealed => \A s \in Sections : its[s] = items[s]
  OBVIOUS
<1>3. texts \in [ScriptNames -> Nat] /\ \A n \in ScriptNames : texts[n] = scripts[n].text
  BY DEF RowsFit
<1>. HIDE DEF its, texts
<1>4. d.sealed = sealed /\ d.items = its /\ d.scripts = texts /\ d.ref = NoName
  BY <1>1 DEF NoDoc
<1>. HIDE DEF d
<1>5. ASSUME sealed
      PROVE  /\ \A s \in NeedSecret : its[s] = NoItem \/ its[s].secret # 0
             /\ its["servers"] = NoItem => \A n \in ScriptNames : texts[n] = 0
  <2>1. \A s \in NeedSecret : its[s] = NoItem \/ its[s].secret # 0
    BY <1>2, <1>5 DEF RowsFit, NeedSecret, Sections
  <2>2. NoScript.text = 0
    BY DEF NoScript
  <2>3. its["servers"] = NoItem => \A n \in ScriptNames : texts[n] = 0
    BY <1>2, <1>3, <1>5, <2>2 DEF RowsFit, Sections
  <2>. QED
    BY <2>1, <2>3
<1>6. FileFits(d)
  BY <1>3, <1>4, <1>5 DEF FileFits
<1>. QED
  BY <1>6 DEF d

LEMMA FilesFit ==
  ASSUME IInv, RowsFit, FileFits(doc), FileFits(exp.doc), Next
  PROVE  FileFits(doc)' /\ FileFits(exp.doc)'
<1>1. ASSUME NEW sealed \in BOOLEAN, BeginExport(sealed) PROVE FileFits(doc)' /\ FileFits(exp.doc)'
  BY <1>1, ExportFits DEF BeginExport, FileFits
<1>2. CASE EndExport
  <2>1. PICK r \in ScriptNames \union {NoName} : doc' = [exp.doc EXCEPT !.pipeline = pipeline.set, !.ref = r]
    BY <1>2, NameIsName DEF EndExport
  <2>2. /\ doc'.scripts = exp.doc.scripts /\ doc'.ref = r /\ doc'.sealed = exp.doc.sealed
        /\ doc'.items = exp.doc.items
    BY <2>1 DEF IInv, FileInv
  <2>3. FileFits(doc)'
    BY <2>2 DEF FileFits
  <2>4. exp'.doc = NoDoc
    BY <1>2 DEF EndExport, NoExport
  <2>. QED
    BY <2>3, <2>4, NoFileFits DEF FileFits
<1>3. CASE UNCHANGED <<doc, exp>>
  BY <1>3 DEF FileFits
<1>4. CASE Edit
  <2>1. doc' = doc /\ exp'.doc = [exp.doc EXCEPT !.torn = exp.on]
    BY <1>4 DEF Edit, IInv
  <2>2. /\ exp'.doc.scripts = exp.doc.scripts /\ exp'.doc.ref = exp.doc.ref
        /\ exp'.doc.sealed = exp.doc.sealed /\ exp'.doc.items = exp.doc.items
    BY <2>1 DEF IInv, FileInv
  <2>. QED
    BY <2>1, <2>2 DEF FileFits
<1>5. ASSUME NEW o \in BOOLEAN, NEW b \in BadSections, BeginImport(o, b) PROVE UNCHANGED <<doc, exp>>
  BY <1>5 DEF BeginImport
<1>6. ASSUME NEW s \in Sections, ImportSection(s) PROVE UNCHANGED <<doc, exp>>
  BY <1>6 DEF ImportSection
<1>7. ASSUME ImportScripts \/ LookUpScripts \/ ImportPipeline \/ Move PROVE UNCHANGED <<doc, exp>>
  BY <1>7 DEF ImportScripts, LookUpScripts, ImportPipeline, Move
<1>8. ASSUME NEW s \in Sections, AddItem(s) \/ DeleteItem(s) PROVE Edit
  BY <1>8 DEF AddItem, DeleteItem
<1>9. ASSUME NEW secret \in {0, Edited}, UpdateServer(secret) PROVE Edit
  BY <1>9 DEF UpdateServer
<1>10. ASSUME NEW n \in ScriptNames, CreateScript(n) \/ DeleteScript(n) \/ EditPipeline(n) PROVE Edit
  BY <1>10 DEF CreateScript, DeleteScript, EditPipeline
<1>. QED
  BY <1>1, <1>2, <1>3, <1>4, <1>5, <1>6, <1>7, <1>8, <1>9, <1>10 DEF Next

\* A record with the fields of an import, and no other.
Shape(r) == r = [at |-> r.at, overwrite |-> r.overwrite, bad |-> r.bad, ids |-> r.ids, calm |-> r.calm]

LEMMA NoImportShape == Shape(NoImport) /\ NoImport.at = "none"
  BY DEF Shape, NoImport

LEMMA MovesOn ==
  ASSUME ImportOK, NEW l, imp' = [imp EXCEPT !.at = l]
  PROVE  /\ imp'.at = l /\ imp'.overwrite = imp.overwrite /\ imp'.bad = imp.bad
         /\ imp'.ids = imp.ids /\ imp'.calm = imp.calm /\ Shape(imp')
  BY DEF ImportOK, Shape

LEMMA FollowingIsNext ==
  ASSUME NEW s \in Sections
  PROVE  /\ Following[s] \in {"clusters", "jenkins", "servers", "scripts", "lookup"}
         /\ s \in ToCome(s) /\ ToCome(Following[s]) = ToCome(s) \ {s}
         /\ s = "hosts" => Following[s] = "clusters"
         /\ s = "clusters" => Following[s] = "jenkins"
         /\ s = "jenkins" => Following[s] = "servers"
         /\ s = "servers" => Following[s] = "scripts"
         /\ s = "repos" => Following[s] = "lookup"
  BY DEF Following, ToCome, Sections

LEMMA ImportsAreOK ==
  ASSUME ImportOK, Next
  PROVE  ImportOK'
<1>0. imp.at \in ImportPoints /\ (imp.at # "none" => ~exp.on) /\ Shape(imp)
  BY DEF ImportOK, Shape
<1>1. ASSUME Shape(imp'), imp'.at \in ImportPoints, imp'.at # "none" => ~exp'.on
      PROVE  ImportOK'
  BY <1>1 DEF ImportOK, Shape
<1>2. ASSUME NEW sealed \in BOOLEAN, BeginExport(sealed) PROVE ImportOK'
  BY <1>1, <1>2, NoImportShape DEF BeginExport, ImportPoints
<1>3. CASE EndExport
  BY <1>0, <1>1, <1>3 DEF EndExport, NoExport
<1>4. ASSUME NEW o \in BOOLEAN, NEW b \in BadSections, BeginImport(o, b) PROVE ImportOK'
  <2>1. Shape(imp') /\ imp'.at = "hosts"
    BY <1>4 DEF BeginImport, NoImport, Shape
  <2>. QED
    BY <1>1, <1>4, <2>1 DEF BeginImport, ImportPoints
<1>5. ASSUME NEW s \in Sections, ImportSection(s) PROVE ImportOK'
  <2>1. imp' = [imp EXCEPT !.at = IF imp.bad = s THEN "failed" ELSE Following[s]]
        /\ imp.at = s /\ UNCHANGED exp
    BY <1>5 DEF ImportSection
  <2>2. imp.at # "none"
    BY <2>1 DEF Sections
  <2>3. (IF imp.bad = s THEN "failed" ELSE Following[s]) \in ImportPoints
    BY FollowingIsNext DEF ImportPoints
  <2>. QED
    BY <1>0, <1>1, <2>1, <2>2, <2>3, MovesOn
<1>6. CASE ImportScripts \/ ImportPipeline
  <2>1. PICK l \in {"failed", "repos", "done"} : imp' = [imp EXCEPT !.at = l]
    BY <1>6 DEF ImportScripts, ImportPipeline
  <2>2. imp.at # "none" /\ UNCHANGED exp
    BY <1>6 DEF ImportScripts, ImportPipeline
  <2>. QED
    BY <1>0, <1>1, <2>1, <2>2, MovesOn DEF ImportPoints
<1>7. CASE LookUpScripts
  <2>1. Shape(imp') /\ imp'.at = "pipelines" /\ imp.at # "none" /\ UNCHANGED exp
    BY <1>0, <1>7 DEF LookUpScripts, Shape
  <2>. QED
    BY <1>0, <1>1, <2>1 DEF ImportPoints
<1>8. CASE Edit
  <2>1. CASE Importing
    <3>1. imp' = [imp EXCEPT !.calm = FALSE] /\ ~exp.on /\ exp' = [exp EXCEPT !.doc.torn = exp.on]
      BY <1>0, <1>8, <2>1 DEF Edit, Importing
    <3>2. Shape(imp') /\ imp'.at = imp.at
      BY <1>0, <3>1 DEF Shape
    <3>3. exp'.on = exp.on
      BY <3>1
    <3>. QED
      BY <1>0, <1>1, <3>1, <3>2, <3>3
  <2>2. CASE ~Importing
    BY <1>1, <1>8, <2>2, NoImportShape DEF Edit, ImportPoints
  <2>. QED
    BY <2>1, <2>2
<1>9. CASE Move
  BY <1>1, <1>9, NoImportShape DEF Move, ImportPoints
<1>10. ASSUME NEW s \in Sections, AddItem(s) \/ DeleteItem(s) PROVE Edit
  BY <1>10 DEF AddItem, DeleteItem
<1>11. ASSUME NEW secret \in {0, Edited}, UpdateServer(secret) PROVE Edit
  BY <1>11 DEF UpdateServer
<1>12. ASSUME NEW n \in ScriptNames, CreateScript(n) \/ DeleteScript(n) \/ EditPipeline(n) PROVE Edit
  BY <1>12 DEF CreateScript, DeleteScript, EditPipeline
<1>. QED
  BY <1>2, <1>3, <1>4, <1>5, <1>6, <1>7, <1>8, <1>9, <1>10, <1>11, <1>12 DEF Next

-----------------------------------------------------------------------------
(* The import.                                                             *)

\* An import that is over, or that somebody has come between, owes nothing.
LEMMA NothingOwed == (imp.at = "none" \/ imp.calm = FALSE) => CalmInv
  BY DEF CalmInv, ItemsStayWhole, StepsKeepTheirScript

LEMMA BeginCalm ==
  ASSUME IInv, RowsFit, NEW o, NEW b, BeginImport(o, b)
  PROVE  CalmInv'
<1>1. imp'.at = "hosts"
  BY DEF BeginImport, NoImport
<1>2. /\ before'.items = items /\ before'.scripts = scripts
      /\ items' = items /\ scripts' = scripts
  BY DEF BeginImport, rows
<1>3. Untouched'
  BY <1>1, <1>2 DEF Untouched, IInv, RowsFit, ToCome
<1>4. Restored'
  BY <1>1 DEF Restored, ToCome
<1>. QED
  BY <1>1, <1>2, <1>3, <1>4 DEF CalmInv, LookedUp, ItemsStayWhole, StepsKeepTheirScript

LEMMA SectionCalm ==
  ASSUME IInv, RowsFit, FileFits(doc), ImportOK, CalmInv, NEW s \in Sections, ImportSection(s)
  PROVE  CalmInv'
<1>. DEFINE l == IF imp.bad = s THEN "failed" ELSE Following[s]
            e == doc.items[s]
            r == items[s]
<1>1. /\ imp.at = s /\ imp' = [imp EXCEPT !.at = l] /\ UNCHANGED <<scripts, pipeline, doc, exp, before>>
  BY DEF ImportSection
<1>2. /\ imp'.at = l /\ imp'.overwrite = imp.overwrite /\ imp'.bad = imp.bad /\ imp'.calm = imp.calm
  BY <1>1, MovesOn
<1>3. /\ e \in Items /\ r \in Items
      /\ \A t \in Sections : t # s => items'[t] = items[t]
  BY SectionItems, SectionResult DEF IInv
<1>4. l = "failed" \/ (imp.bad # s /\ l = Following[s])
  OBVIOUS
<1>5. l \notin {"none", "done", "pipelines", "hosts"} /\ s \in ToCome(s)
  BY FollowingIsNext
<1>6. ASSUME imp.calm
      PROVE  Untouched /\ Restored /\ imp.at # "none" /\ r = before.items[s]
  BY <1>1, <1>5, <1>6 DEF CalmInv, Untouched, Sections
<1>. HIDE DEF l
<1>7. ASSUME imp.calm PROVE Untouched'
  <2>1. ToCome(l) \subseteq ToCome(s) \ {s}
    BY <1>4, FollowingIsNext DEF ToCome
  <2>2. \A t \in ToCome(l) : items'[t] = before.items[t]
    BY <1>1, <1>3, <1>6, <1>7, <2>1 DEF Untouched, ToCome, Sections
  <2>3. l \in {"hosts", "clusters", "jenkins", "servers", "scripts"} =>
          s \in {"hosts", "clusters", "jenkins", "servers", "scripts"}
    BY <1>4, FollowingIsNext DEF Sections
  <2>. QED
    BY <1>1, <1>2, <1>6, <1>7, <2>2, <2>3 DEF Untouched
<1>8. ASSUME imp.calm, imp'.at # "failed", doc.sealed, \A t \in Sections : before.items[t] = NoItem
      PROVE  /\ \A t \in Sections \ ({"repos"} \union ToCome(l)) : items'[t] = doc.items[t]
             /\ l \in {"repos", "lookup", "pipelines", "done"} =>
                  \A n \in ScriptNames : scripts[n].text = doc.scripts[n]
  <2>1. imp.at # "failed" /\ imp.bad # s /\ l = Following[s]
    BY <1>1, <1>2, <1>4, <1>8 DEF Sections
  <2>2. ToCome(l) = ToCome(s) \ {s}
    BY <2>1, FollowingIsNext
  <2>3. s # "repos" => items'[s] = e
    <3>. SUFFICES ASSUME s # "repos" PROVE items'[s] = e
      OBVIOUS
    <3>1. r = NoItem
      BY <1>6, <1>8
    <3>2. s \in NeedSecret => e = NoItem \/ e.secret # 0
      BY <1>8 DEF FileFits
    <3>3. CASE e = NoItem
      BY <3>1, <3>3, SectionResult
    <3>4. CASE e # NoItem
      <4>1. Written(s, NoItem, e) = e
        BY <1>3, <3>2, <3>4, WrittenAnew
      <4>. QED
        BY <2>1, <3>1, <3>4, <4>1, SectionResult DEF Decide
    <3>. QED
      BY <3>3, <3>4
  <2>4. \A t \in Sections \ ({"repos"} \union ToCome(s)) : items[t] = doc.items[t]
    BY <1>1, <1>6, <1>8, <2>1 DEF Restored
  <2>5. \A t \in Sections \ ({"repos"} \union ToCome(l)) : items'[t] = doc.items[t]
    BY <1>3, <2>2, <2>3, <2>4
  <2>6. l \in {"repos", "lookup", "pipelines", "done"} => s = "repos"
    BY <2>1, FollowingIsNext DEF Sections
  <2>7. s = "repos" => \A n \in ScriptNames : scripts[n].text = doc.scripts[n]
    BY <1>1, <1>6, <1>8, <2>1 DEF Restored
  <2>. QED
    BY <2>5, <2>6, <2>7
<1>9. imp.calm => Restored'
  BY <1>1, <1>2, <1>8 DEF Restored
<1>10. ItemsStayWhole'
  <2>. SUFFICES ASSUME imp.calm, NEW t \in Sections
                PROVE \/ items'[t] = before.items[t]
                      \/ (before.items[t] = NoItem \/ imp.overwrite) /\ items'[t] = Kept(before.items[t], doc.items[t])
                      \/ t = "clusters" /\ imp.bad = t /\ l = "failed" /\ imp.overwrite
                      \/ t = "repos" /\ before.items[t] = NoItem
    BY <1>1, <1>2 DEF ItemsStayWhole
  <2>1. CASE t # s
    <3>1. imp.at # "none" /\ imp.at # "failed"
      BY <1>1 DEF Sections
    <3>. QED
      BY <1>3, <2>1, <3>1 DEF CalmInv, ItemsStayWhole
  <2>2. CASE t = s
    <3>1. r = before.items[s]
      BY <1>6
    <3>2. CASE items'[s] = r
      BY <2>2, <3>1, <3>2
    <3>3. CASE /\ e # NoItem /\ Decide(r)
               /\ items'[s] = IF imp.bad = s THEN Survives(s, r, e) ELSE Written(s, r, e)
      <4>1. before.items[s] = NoItem \/ imp.overwrite
        BY <3>1, <3>3 DEF Decide
      <4>2. CASE imp.bad # s
        BY <1>3, <2>2, <3>1, <3>3, <4>1, <4>2, WrittenWhole
      <4>3. CASE imp.bad = s
        <5>1. l = "failed"
          BY <4>3 DEF l
        <5>. QED
          BY <1>3, <2>2, <3>1, <3>3, <4>1, <4>3, <5>1, WrittenWhole
      <4>. QED
        BY <4>2, <4>3
    <3>. QED
      BY <3>2, <3>3, SectionResult
  <2>. QED
    BY <2>1, <2>2
<1>. QED
  BY <1>2, <1>5, <1>7, <1>9, <1>10 DEF CalmInv, LookedUp, StepsKeepTheirScript

LEMMA ScriptsCalm ==
  ASSUME IInv, RowsFit, FileFits(doc), ImportOK, CalmInv, ImportScripts
  PROVE  CalmInv'
<1>. DEFINE l == IF imp.bad = "scripts" THEN "failed" ELSE "repos"
<1>1. /\ imp.at = "scripts" /\ imp' = [imp EXCEPT !.at = l] /\ UNCHANGED <<items, pipeline, doc, exp, before>>
  BY DEF ImportScripts
<1>2. /\ imp'.at = l /\ imp'.overwrite = imp.overwrite /\ imp'.bad = imp.bad /\ imp'.calm = imp.calm
  BY <1>1, MovesOn
<1>3. ASSUME imp.calm PROVE Untouched /\ Restored
  BY <1>1, <1>3 DEF CalmInv
<1>4. ASSUME imp.calm PROVE Untouched'
  BY <1>1, <1>2, <1>3, <1>4 DEF Untouched, ToCome
<1>5. ASSUME imp.calm, l # "failed", doc.sealed, \A t \in Sections : before.items[t] = NoItem
      PROVE  /\ \A t \in Sections \ ({"repos"} \union ToCome(l)) : items'[t] = doc.items[t]
             /\ \A n \in ScriptNames : scripts'[n].text = doc.scripts[n]
  <2>1. ToCome(l) = ToCome("scripts") /\ imp.bad # "scripts"
    BY <1>5 DEF ToCome
  <2>2. \A t \in Sections \ ({"repos"} \union ToCome(l)) : items'[t] = doc.items[t]
    BY <1>1, <1>3, <1>5, <2>1 DEF Restored
  <2>3. items["servers"] = doc.items["servers"]
    BY <1>1, <2>1, <2>2 DEF ToCome, Sections
  <2>4. \A n \in ScriptNames : scripts[n] = NoScript
    BY <1>1, <1>3, <1>5 DEF Untouched, Sections
  <2>5. items["servers"] = NoItem => \A n \in ScriptNames : doc.scripts[n] = 0
    BY <1>5, <2>3 DEF FileFits
  <2>6. NoScript.text = 0
    BY DEF NoScript
  <2>. QED
    BY <2>1, <2>2, <2>4, <2>5, <2>6, ScriptsFit
<1>6. imp.calm => Restored'
  BY <1>1, <1>2, <1>5 DEF Restored
<1>7. ItemsStayWhole'
  BY <1>1, <1>2 DEF CalmInv, ItemsStayWhole
<1>. QED
  BY <1>2, <1>4, <1>6, <1>7 DEF CalmInv, LookedUp, StepsKeepTheirScript

LEMMA LookUpCalm ==
  ASSUME ImportOK, CalmInv, LookUpScripts
  PROVE  CalmInv'
<1>1. /\ imp.at = "lookup" /\ imp' = [imp EXCEPT !.at = "pipelines", !.ids = Ids] /\ UNCHANGED <<rows, doc, exp, before>>
  BY DEF LookUpScripts
<1>2. /\ imp'.at = "pipelines" /\ imp'.overwrite = imp.overwrite /\ imp'.bad = imp.bad
      /\ imp'.calm = imp.calm /\ imp'.ids = Ids
  BY <1>1 DEF ImportOK
<1>3. Ids' = Ids
  BY <1>1 DEF Ids, rows
<1>4. ToCome("lookup") = {} /\ ToCome("pipelines") = {}
  BY DEF ToCome
<1>5. imp.calm => Untouched' /\ Restored'
  BY <1>1, <1>2, <1>4 DEF CalmInv, Untouched, Restored, rows
<1>6. ItemsStayWhole'
  BY <1>1, <1>2 DEF CalmInv, ItemsStayWhole, rows
<1>. QED
  BY <1>2, <1>3, <1>5, <1>6 DEF CalmInv, LookedUp, StepsKeepTheirScript

LEMMA PipelineCalm ==
  ASSUME IInv, RowsFit, FileFits(doc), ImportOK, CalmInv, ImportPipeline
  PROVE  CalmInv'
<1>. DEFINE l == IF imp.bad = "pipelines" THEN "failed" ELSE "done"
<1>1. /\ imp.at = "pipelines" /\ imp' = [imp EXCEPT !.at = l] /\ UNCHANGED <<items, scripts, doc, exp, before>>
  BY DEF ImportPipeline
<1>2. /\ imp'.at = l /\ imp'.overwrite = imp.overwrite /\ imp'.bad = imp.bad /\ imp'.calm = imp.calm
  BY <1>1, MovesOn
<1>3. ToCome(l) = {} /\ ToCome("pipelines") = {}
  BY DEF ToCome
<1>4. imp.calm => Untouched' /\ Restored'
  BY <1>1, <1>2, <1>3 DEF CalmInv, Untouched, Restored
<1>5. ItemsStayWhole'
  BY <1>1, <1>2 DEF CalmInv, ItemsStayWhole
<1>6. ASSUME imp.calm, imp.overwrite, doc.pipeline # 0
      PROVE  NameOf(Ids, pipeline'.id) =
               IF doc.ref # NoName /\ scripts[doc.ref] # NoScript THEN doc.ref ELSE NoName
  <2>1. pipeline'.id = StepId /\ imp.ids = Ids
    BY <1>1, <1>6 DEF ImportPipeline, CalmInv, LookedUp
  <2>2. CASE doc.ref = NoName
    BY <2>1, <2>2, NameOfNothing DEF StepId
  <2>3. CASE doc.ref # NoName
    <3>1. doc.ref \in ScriptNames
      BY <2>3 DEF FileFits
    <3>2. pipeline'.id = scripts[doc.ref].id
      BY <2>1, <2>3, <3>1 DEF StepId, Ids
    <3>3. NoScript.id = 0
      BY DEF NoScript
    <3>. QED
      BY <2>3, <3>1, <3>2, <3>3, NameOfNothing, NameOfId
  <2>. QED
    BY <2>2, <2>3
<1>7. StepsKeepTheirScript'
  <2>1. Ids' = Ids
    BY <1>1 DEF Ids
  <2>2. (NameOf(Ids, pipeline.id))' = NameOf(Ids, pipeline'.id)
    BY <2>1 DEF NameOf
  <2>. QED
    BY <1>1, <1>2, <1>6, <2>2 DEF StepsKeepTheirScript
<1>. QED
  BY <1>2, <1>4, <1>5, <1>7 DEF CalmInv, LookedUp

-----------------------------------------------------------------------------
(* The theorems.                                                           *)

LEMMA TransferInit == Init => TransferInv
<1>. SUFFICES ASSUME Init PROVE TransferInv
  OBVIOUS
<1>1. RowsFit
  <2>1. PICK n \in ScriptNames : scripts = [m \in ScriptNames |-> IF m = n THEN [id |-> 1, text |-> 1] ELSE NoScript]
    BY DEF Init
  <2>2. \A m \in ScriptNames : scripts[m] = IF m = n THEN [id |-> 1, text |-> 1] ELSE [id |-> 0, text |-> 0]
    BY <2>1 DEF NoScript
  <2>3. scripts \in [ScriptNames -> [id : Nat, text : Nat]]
    BY <2>1 DEF NoScript
  <2>4. \A m \in ScriptNames : scripts[m].id <= 1
    BY <2>2
  <2>5. \A m \in ScriptNames : scripts[m] # NoScript => m = n
    BY <2>2 DEF NoScript
  <2>6. \A m, k \in ScriptNames : scripts[m].id = scripts[k].id /\ scripts[m].id # 0 => m = k
    BY <2>2
  <2>7. \A s \in Sections : items[s].set = 1 /\ (s \in NeedSecret => items[s].secret # 0)
    BY DEF Init, NeedSecret
  <2>8. items["servers"] # NoItem
    BY <2>7 DEF NoItem, Sections
  <2>. QED
    BY <2>2, <2>3, <2>4, <2>5, <2>6, <2>7, <2>8 DEF RowsFit, NeedSecret, Sections
<1>2. FileFits(doc) /\ FileFits(exp.doc)
  BY NoFileFits DEF Init, NoExport
<1>3. ImportOK
  BY NoImportShape DEF Init, ImportOK, Shape, ImportPoints
<1>4. CalmInv
  BY NothingOwed, NoImportShape DEF Init
<1>. QED
  BY <1>1, <1>2, <1>3, <1>4, InitHolds DEF TransferInv

LEMMA TransferNext == TransferInv /\ [Next]_vars => TransferInv'
<1>. SUFFICES ASSUME TransferInv, [Next]_vars PROVE TransferInv'
  OBVIOUS
<1>. USE DEF TransferInv
<1>0. IInv'
  BY StepKeeps
<1>1. CASE UNCHANGED vars
  BY <1>1, <1>0 DEF vars, RowsFit, FileFits, ImportOK, CalmInv, Untouched, Restored, LookedUp, Ids,
                    ItemsStayWhole, StepsKeepTheirScript, NameOf
<1>2. CASE Next
  <2>1. FileFits(doc)' /\ FileFits(exp.doc)' /\ ImportOK'
    BY <1>2, FilesFit, ImportsAreOK
  <2>2. ASSUME RowsFit', CalmInv' PROVE TransferInv'
    BY <1>0, <2>1, <2>2
  <2>3. ASSUME imp' = NoImport PROVE CalmInv'
    <3>1. imp'.at = "none"
      BY <2>3, NoImportShape
    <3>. QED
      BY <3>1 DEF CalmInv, ItemsStayWhole, StepsKeepTheirScript
  <2>4. ASSUME Edit PROVE CalmInv'
    <3>1. CASE Importing
      <4>1. imp'.calm = FALSE
        BY <2>4, <3>1 DEF Edit, ImportOK
      <4>. QED
        BY <4>1 DEF CalmInv, ItemsStayWhole, StepsKeepTheirScript
    <3>. QED
      BY <2>3, <2>4, <3>1 DEF Edit
  <2>5. ASSUME NEW sealed \in BOOLEAN, BeginExport(sealed) PROVE TransferInv'
    BY <2>2, <2>3, <2>5 DEF BeginExport, rows, RowsFit
  <2>6. CASE EndExport
    <3>1. imp'.at = "none"
      BY <2>6 DEF EndExport, ImportOK
    <3>2. CalmInv'
      BY <3>1 DEF CalmInv, ItemsStayWhole, StepsKeepTheirScript
    <3>. QED
      BY <2>2, <2>6, <3>2 DEF EndExport, rows, RowsFit
  <2>7. ASSUME NEW o \in BOOLEAN, NEW b \in BadSections, BeginImport(o, b) PROVE TransferInv'
    BY <2>2, <2>7, BeginCalm DEF BeginImport, rows, RowsFit
  <2>8. ASSUME NEW s \in Sections, ImportSection(s) PROVE TransferInv'
    BY <2>2, <2>8, SectionFits, SectionCalm
  <2>9. CASE ImportScripts
    BY <2>2, <2>9, ScriptsFit, ScriptsCalm
  <2>10. CASE LookUpScripts
    BY <2>2, <2>10, LookUpCalm DEF LookUpScripts, rows, RowsFit
  <2>11. CASE ImportPipeline
    BY <2>2, <2>11, PipelineCalm DEF ImportPipeline, RowsFit
  <2>12. ASSUME \/ \E s \in Sections : AddItem(s) \/ DeleteItem(s)
                \/ \E secret \in {0, Edited} : UpdateServer(secret)
                \/ \E n \in ScriptNames : CreateScript(n) \/ DeleteScript(n) \/ EditPipeline(n)
         PROVE  TransferInv'
    <3>1. Edit
      BY <2>12 DEF AddItem, DeleteItem, UpdateServer, CreateScript, DeleteScript, EditPipeline
    <3>. QED
      BY <2>2, <2>4, <2>12, <3>1, EditsFit
  <2>13. CASE Move
    <3>1. \A n \in ScriptNames : scripts'[n] = [id |-> 0, text |-> 0]
      BY <2>13 DEF Move, NoScript
    <3>2. scripts' \in [ScriptNames -> [id : Nat, text : Nat]]
      BY <2>13 DEF Move, NoScript
    <3>3. \E m \in Nat : \A n \in ScriptNames : scripts'[n].id <= m
      BY <3>1
    <3>4. RowsFit'
      BY <2>13, <3>1, <3>2, <3>3 DEF Move, NoScript, RowsFit, NeedSecret, Sections
    <3>. QED
      BY <2>2, <2>3, <2>13, <3>4 DEF Move
  <2>. QED
    BY <1>2, <2>5, <2>6, <2>7, <2>8, <2>9, <2>10, <2>11, <2>12, <2>13 DEF Next
<1>. QED
  BY <1>1, <1>2

LEMMA TransferAlways == Spec => []TransferInv
  BY TransferInit, TransferNext, PTL DEF Spec

\* Wherever an import stops, and whatever it was given, each item is as it was
\* or as the file says, up to the exceptions that ItemsStayWhole names.
THEOREM ItemsAreWhole == Spec => []ItemsStayWhole
<1>1. TransferInv => ItemsStayWhole
  BY DEF TransferInv, CalmInv
<1>. QED
  BY <1>1, TransferAlways, PTL

\* What was exported with a passphrase and imported by an empty cockpit is
\* there as it was, items and scripts.
THEOREM NothingIsLostOnTheWay == Spec => []RoundTrip
<1>1. TransferInv => RoundTrip
  <2>1. ToCome("done") = {}
    BY DEF ToCome
  <2>. QED
    BY <2>1 DEF TransferInv, CalmInv, Restored, RoundTrip
<1>. QED
  BY <1>1, TransferAlways, PTL

\* The step of an imported pipeline runs the script of the name it ran before,
\* whatever ids the scripts have here, or none.
THEOREM StepsKeepScripts == Spec => []StepsKeepTheirScript
<1>1. TransferInv => StepsKeepTheirScript
  BY DEF TransferInv, CalmInv
<1>. QED
  BY <1>1, TransferAlways, PTL

==============================================================================
