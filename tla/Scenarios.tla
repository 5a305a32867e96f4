------------------------------ MODULE Scenarios ------------------------------
(***************************************************************************)
(* FileScenarioLoader (scenario-loader.ts) and POST /scenarios in main.ts: *)
(* a scenario is uploaded, written to disk file by file, and read back     *)
(* into the catalogue that sessions use; a restart reads all directories.  *)
(*                                                                         *)
(* A package stands for a metadata.json that validate() accepts, with the  *)
(* names of the video files it declares, all of them received: what is     *)
(* rejected before that changes nothing.  Packages are never looked into:  *)
(* whatever the getters return is in the package of the catalogue.         *)
(* Four things can happen to an id that the code does not handle: uploads  *)
(* of it overlap, the process crashes during one, cleaning up after one    *)
(* fails, or one of its clips is named metadata.json, which nothing        *)
(* forbids.  Such ids are remembered as disturbed.                         *)
(***************************************************************************)
EXTENDS Naturals, Sequences, FiniteSets, SequencesExt

CONSTANTS
  Packages,
  IdOf,           (* the scenario_id of each package                       *)
  FilesOf,        (* the video files it declares                           *)
  Shipped,        (* the packages that are there from the start            *)
  Uploads,        (* bound: POST /scenarios requests at a time             *)
  MaxCrashes,     (* bound: crashes of the process                         *)
  Metadata,       (* the name metadata.json                                *)
  None

ASSUME ScenariosAssumption ==
  /\ IsFiniteSet(Packages)
  /\ Shipped \subseteq Packages
  /\ Shipped # {}
  /\ MaxCrashes \in Nat
  /\ \A p \in Packages : FilesOf[p] # {} /\ IsFiniteSet(FilesOf[p])
  /\ \A p \in Shipped : Metadata \notin FilesOf[p]

VARIABLES
  disk,           (* scenariosDir: its directories                         *)
  up,             (* the process runs                                      *)
  crashes,
  catalogue,      (* the maps of the loader                                *)
  summaries,      (* listScenarios                                         *)
  uploads,
  promised,       (* the packages answered with 201: read by properties    *)
  disturbed

loaderVars == <<catalogue, summaries>>
vars == <<disk, up, crashes, loaderVars, uploads, promised, disturbed>>

Ids == {IdOf[p] : p \in Packages}
Names(p) == {Metadata} \cup FilesOf[p]
AllNames == UNION {Names(p) : p \in Packages}

(* What a file of a directory may hold.  A clip of the name metadata.json
   ends up where the metadata was. *)
Contents == Packages \cup {"absent", "partial", "video"}
EmptyDirectory == [name \in AllNames |-> "absent"]
Written(p) ==
  [name \in AllNames |->
     IF name = Metadata /\ Metadata \in FilesOf[p] THEN "video"
     ELSE IF name \in Names(p) THEN p ELSE "absent"]

Steps == {"mkdir", "open", "write", "load", "cleanup"}

(* todo: the files to write, beginning with the current one. *)
Upload == [package : Packages, step : Steps, todo : Seq(AllNames)]

ASSUME NoneAssumption ==
  /\ None \notin Packages /\ None \notin [AllNames -> Contents] /\ None \notin Upload
  /\ "video" \notin Packages

Busy(id) == \E r \in Uploads : uploads[r] # None /\ IdOf[uploads[r].package] = id

-----------------------------------------------------------------------------
(* Reading a directory.  Definitions named Bad... are slips the code could
   contain; no action uses one. *)

Readable(id) == disk[id] # None /\ disk[id][Metadata] \in Packages

(* loadScenario(); a second call for one id lists it a second time. *)
LoadScenario(id) ==
  /\ catalogue' = [catalogue EXCEPT ![id] = disk[id][Metadata]]
  /\ summaries' = Append(summaries, id)

(* load() in the constructor: one unreadable directory and it throws. *)
Loadable == \A id \in Ids : disk[id] # None => Readable(id)

Start ==
  /\ ~up
  /\ Loadable
  /\ up' = TRUE
  /\ catalogue' = [id \in Ids |-> IF Readable(id) THEN disk[id][Metadata] ELSE None]
  /\ summaries' = SetToSeq({id \in Ids : Readable(id)})
  /\ UNCHANGED <<disk, crashes, uploads, promised, disturbed>>

(* The container is started over and over. *)
StartFails ==
  /\ ~up
  /\ ~Loadable
  /\ UNCHANGED vars

Init ==
  /\ disk = [id \in Ids |-> IF \E p \in Shipped : IdOf[p] = id
                            THEN Written(CHOOSE p \in Shipped : IdOf[p] = id) ELSE None]
  /\ up = FALSE
  /\ crashes = 0
  /\ catalogue = [id \in Ids |-> None]
  /\ summaries = <<>>
  /\ uploads = [r \in Uploads |-> None]
  /\ promised = [id \in Ids |-> IF \E p \in Shipped : IdOf[p] = id
                                THEN CHOOSE p \in Shipped : IdOf[p] = id ELSE None]
  /\ disturbed = {}

(* What was under way is left as it is. *)
Crash ==
  /\ up
  /\ crashes < MaxCrashes
  /\ crashes' = crashes + 1
  /\ up' = FALSE
  /\ catalogue' = [id \in Ids |-> None]
  /\ summaries' = <<>>
  /\ uploads' = [r \in Uploads |-> None]
  /\ disturbed' = disturbed \cup {id \in Ids : Busy(id)}
  /\ UNCHANGED <<disk, promised>>

-----------------------------------------------------------------------------
(* registerScenario().  Everything up to the first await is one step. *)

BadExists(id) == FALSE
Exists(id) == catalogue[id] # None

Submit(r, p) ==
  /\ up
  /\ uploads[r] = None
  /\ ~Exists(IdOf[p])
  /\ \E files \in [1..Cardinality(FilesOf[p]) -> FilesOf[p]] :
       /\ Range(files) = FilesOf[p]
       /\ uploads' = [uploads EXCEPT ![r] =
            [package |-> p, step |-> "mkdir", todo |-> <<Metadata>> \o files]]
  /\ disturbed' = IF Busy(IdOf[p]) THEN disturbed \cup {IdOf[p]} ELSE disturbed
  /\ UNCHANGED <<disk, up, crashes, loaderVars, promised>>

(* ScenarioExistsError: 409. *)
Rejected(p) == up /\ Exists(IdOf[p]) /\ UNCHANGED vars

At(r, step) == uploads[r] # None /\ uploads[r].step = step

Go(r, step) == uploads' = [uploads EXCEPT ![r].step = step]
Answered(r) == uploads' = [uploads EXCEPT ![r] = None]

MakeDirectory(r) ==
  /\ At(r, "mkdir")
  /\ LET id == IdOf[uploads[r].package]
     IN  disk' = IF disk[id] = None THEN [disk EXCEPT ![id] = EmptyDirectory] ELSE disk
  /\ Go(r, "open")
  /\ UNCHANGED <<up, crashes, loaderVars, promised, disturbed>>

(* writeFile() truncates first.  It fails if the directory is gone. *)
Open(r) ==
  /\ At(r, "open")
  /\ LET id == IdOf[uploads[r].package]
     IN  IF disk[id] = None THEN Go(r, "cleanup") /\ UNCHANGED disk
         ELSE /\ disk' = [disk EXCEPT ![id][Head(uploads[r].todo)] = "partial"]
              /\ Go(r, "write")
  /\ UNCHANGED <<up, crashes, loaderVars, promised, disturbed>>

(* What the end of a write leaves: the metadata first, even if a clip of
   that name is still to come.  When another upload of the id came between,
   the file may be the one's, the other's or a mixture. *)
Left(r) ==
  LET p == uploads[r].package
      name == Head(uploads[r].todo)
      mine == IF name \in Range(Tail(uploads[r].todo)) THEN p ELSE Written(p)[name]
  IN  IF IdOf[p] \notin disturbed THEN {mine}
      ELSE {mine, "partial", disk[IdOf[p]][name]}

BadRest(todo) == IF Len(todo) > 1 THEN <<todo[1]>> \o Tail(Tail(todo)) ELSE todo
Rest(todo) == Tail(todo)

Write(r) ==
  /\ At(r, "write")
  /\ LET id == IdOf[uploads[r].package]
         name == Head(uploads[r].todo)
         rest == Rest(uploads[r].todo)
     IN  /\ IF disk[id] = None THEN UNCHANGED disk
            ELSE \E content \in Left(r) : disk' = [disk EXCEPT ![id][name] = content]
         /\ uploads' = [uploads EXCEPT ![r].todo = rest,
                                       ![r].step = IF rest = <<>> THEN "load" ELSE "open"]
  /\ UNCHANGED <<up, crashes, loaderVars, promised, disturbed>>

(* The disk is full, or read-only. *)
Fails(r) ==
  /\ uploads[r] # None
  /\ uploads[r].step \in {"mkdir", "open", "write"}
  /\ Go(r, "cleanup")
  /\ UNCHANGED <<disk, up, crashes, loaderVars, promised, disturbed>>

(* rm -r, of whatever is in the directory by now; 400. *)
BadRemoved(directory) == directory
Removed(directory) == None

Cleanup(r) ==
  /\ At(r, "cleanup")
  /\ disk' = [disk EXCEPT ![IdOf[uploads[r].package]] = Removed(@)]
  /\ Answered(r)
  /\ UNCHANGED <<up, crashes, loaderVars, promised, disturbed>>

CleanupFails(r) ==
  /\ At(r, "cleanup")
  /\ Answered(r)
  /\ disturbed' = disturbed \cup {IdOf[uploads[r].package]}
  /\ UNCHANGED <<disk, up, crashes, loaderVars, promised>>

(* metadata.json is read back: 201, or 400 and no cleanup. *)
Load(r) ==
  /\ At(r, "load")
  /\ LET p == uploads[r].package
     IN  \/ /\ Readable(IdOf[p])
            /\ LoadScenario(IdOf[p])
            /\ promised' = [promised EXCEPT ![IdOf[p]] = p]
            /\ UNCHANGED disturbed
         \/ /\ ~Readable(IdOf[p])
            /\ disturbed' = disturbed \cup {IdOf[p]}
            /\ UNCHANGED <<loaderVars, promised>>
  /\ Answered(r)
  /\ UNCHANGED <<disk, up, crashes>>

-----------------------------------------------------------------------------
Process(r) ==
  MakeDirectory(r) \/ Open(r) \/ Write(r) \/ Cleanup(r) \/ CleanupFails(r) \/ Load(r)

Next ==
  \/ Start \/ StartFails \/ Crash
  \/ \E p \in Packages : Rejected(p)
  \/ \E r \in Uploads : \/ Process(r) \/ Fails(r)
                        \/ \E p \in Packages : Submit(r, p)

Spec == Init /\ [][Next]_vars

(* The file system answers, and the container is restarted. *)
FairSpec == Spec /\ WF_vars(Start) /\ \A r \in Uploads : WF_vars(Process(r))

-----------------------------------------------------------------------------
(* Properties. *)

TypeOK ==
  /\ disk \in [Ids -> [AllNames -> Contents] \cup {None}]
  /\ up \in BOOLEAN
  /\ crashes \in 0..MaxCrashes
  /\ catalogue \in [Ids -> Packages \cup {None}]
  /\ summaries \in Seq(Ids)
  /\ uploads \in [Uploads -> Upload \cup {None}]
  /\ promised \in [Ids -> Packages \cup {None}]
  /\ disturbed \subseteq Ids

(* Between uploads the directory of an undisturbed scenario and its entry in
   the catalogue go together: an upload that failed, and was cleaned up,
   leaves nothing behind, and a scenario that sessions can choose has all its
   files, whole. *)
DiskMatchesCatalogue ==
  \A id \in Ids \ disturbed :
    up /\ ~Busy(id) =>
      disk[id] = IF catalogue[id] # None THEN Written(catalogue[id]) ELSE None

(* What was acknowledged with 201 is what sessions get, after later uploads
   of the same id and after restarts, for an undisturbed id. *)
PromiseKept ==
  \A id \in Ids \ disturbed :
    up /\ promised[id] # None => catalogue[id] = promised[id]


(* Every upload is answered, however many others fail or overlap. *)
UploadsEnd == \A r \in Uploads : uploads[r] # None ~> uploads[r] = None
=============================================================================
